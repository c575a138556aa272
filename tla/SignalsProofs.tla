--------------------------- MODULE SignalsProofs ---------------------------
(* Machine-checked proofs about Signals, for every value of its constants. *)
EXTENDS Signals, TLAPS

----------------------------------------------------------------------------
(* The inductive invariant.                                                *)

\* The registry's mutex is held from the first load of a send to its last
\* notification, and while a wait consumes.
MutexHeld == \A s \in Threads : main[s].pc \in {"send", "kick", "consume"} <=> lock = s

\* What a sender has established when it comes to its compare-exchange.  The test
\* stays true because the mutex guards everything it reads besides the state.
SenderHolds ==
  \A s \in Threads :
    /\ main[s].pc \in {"send", "kick"} => main[s].target \in Threads
    /\ main[s].pc = "send" => /\ main[s].signal \in Signals
                              /\ Accepts(main[s].target, main[s].signal, main[s].old)

\* What a handler has established when it comes to its compare-exchange, and the
\* drain loop's counter.
HandlerHolds ==
  \A t \in Threads : /\ handler[t].pc = "taking" => Takable(handler[t].old)
                     /\ handler[t].drained < DrainLimit

\* Only a bound thread announces what it exposed.
TellsBound ==
  \A t \in Threads : main[t].pc = "tell" \/ handler[t].pc = "tell" => t \in bound

\* Nothing is pending for a thread that is not there.
AbsentClear == \A t \in Threads \ attached : bits[t].std = {} /\ bits[t].count = 0

OwedType == owed \in [Threads -> [std : SUBSET Standard, count : Int]]

\* What is pending is what was accepted and not consumed.
Balanced ==
  \A t \in Threads : bits[t].std = owed[t].std /\ bits[t].count = owed[t].count

IInv == /\ TypeOK /\ OwedType /\ MutexHeld /\ SenderHolds /\ HandlerHolds /\ TellsBound
        /\ WakesBound /\ AbsentClear /\ Balanced

----------------------------------------------------------------------------
(* The operators on the signal state.                                      *)

LEMMA Numbers ==
  /\ Interrupt \notin Standard /\ Unmaskable \subseteq Standard /\ Faults \subseteq Standard
  /\ ActionMask \subseteq Signals /\ None \notin Threads
  /\ Capacity \in Nat \ {0} /\ DrainLimit \in Nat \ {0}
  /\ \A n \in Signals : n = Interrupt \/ n \in Standard
  /\ \A set \in Masks \cup Waits : set \in SUBSET Signals
  BY SignalsAssumption DEF Signals

LEMMA Constants == Clear \in Bits /\ InGuest \in Main /\ Idle \in Handler
<1>1. Clear \in Bits
  BY Numbers DEF Clear, Bits
<1> QED BY <1>1, Numbers DEF InGuest, Main, Idle, Handler

LEMMA MaskedType ==
  ASSUME NEW b \in Bits, NEW how, NEW set \in SUBSET Signals
  PROVE /\ Masked(b, how, set) \in Bits
        /\ Masked(b, how, set).std = b.std /\ Masked(b, how, set).count = b.count
  BY DEF Masked, Bits

LEMMA EnqueuedType ==
  ASSUME NEW b \in Bits, NEW n \in Signals, n = Interrupt => b.count < Capacity
  PROVE Enqueued(b, n) \in Bits /\ Enqueued(b, n).mask = b.mask
  BY Numbers DEF Enqueued, Bits

LEMMA DequeuedType ==
  ASSUME NEW b \in Bits, NEW n \in pending_set(b)
  PROVE Dequeued(b, n) \in Bits /\ Dequeued(b, n).mask = b.mask
  BY Numbers DEF Dequeued, Bits, pending_set

LEMMA ContinuedType ==
  ASSUME NEW f \in Handler, f.drained < DrainLimit
  PROVE /\ Continued(f) \in Handler /\ Continued(f).drained < DrainLimit
        /\ Continued(f).pc \in {"idle", "take", "guest"}
<1>1. CASE f.goal # "restore"
  BY <1>1, Constants, Numbers DEF Continued, Handler
<1>2. CASE f.goal = "restore" /\ (f.kind = "fault" \/ f.drained + 1 = DrainLimit)
  BY <1>2, Constants, Numbers DEF Continued, Idle
<1>3. CASE f.goal = "restore" /\ ~(f.kind = "fault" \/ f.drained + 1 = DrainLimit)
  <2>1. f.drained + 1 \in 0..DrainLimit /\ f.drained + 1 < DrainLimit
    BY <1>3, Numbers DEF Handler
  <2>2. Continued(f) = [Idle EXCEPT !.pc = "take", !.entry = f.entry, !.drained = f.drained + 1]
    BY <1>3 DEF Continued
  <2> DEFINE d == f.drained + 1
  <2>3. f.entry \in SUBSET Signals
    BY DEF Handler
  <2>4. Continued(f) = [pc |-> "take", kind |-> "interrupt", goal |-> "call", old |-> Clear,
                        set |-> {}, how |-> "block", saved |-> {}, entry |-> f.entry,
                        drained |-> d]
    BY <2>2 DEF Idle
  <2>5. Clear \in Bits
    BY Constants
  <2>6. d \in 0..DrainLimit /\ d < DrainLimit
    BY <2>1
  <2> HIDE DEF d
  <2>7. Continued(f) \in Handler
    BY <2>3, <2>4, <2>5, <2>6 DEF Handler
  <2> QED BY <2>4, <2>6, <2>7
<1> QED BY <1>1, <1>2, <1>3

----------------------------------------------------------------------------
(* Types.                                                                  *)

\* The records a step writes have their types.
LEMMA FrameTypes ==
  ASSUME NEW f \in Main, NEW h \in Handler, NEW b \in Bits, NEW set \in SUBSET Signals,
         NEW how \in Hows
  PROVE /\ [f EXCEPT !.old = b] \in Main
        /\ \A pc \in {"guest", "send", "kick", "mask", "tell", "entered", "asleep", "consume"} :
             [f EXCEPT !.pc = pc] \in Main /\ [f EXCEPT !.pc = pc, !.old = b] \in Main
        /\ \A u \in BOOLEAN : [f EXCEPT !.stale = u] \in Main
        /\ [h EXCEPT !.old = b] \in Handler /\ [h EXCEPT !.pc = "tell"] \in Handler
        /\ [h EXCEPT !.pc = "taking", !.old = b] \in Handler
        /\ \A saved \in SUBSET Signals :
             [h EXCEPT !.pc = "guest", !.old = Clear, !.saved = saved] \in Handler
        /\ \A goal \in {"call", "enter", "restore"} :
             [h EXCEPT !.pc = "mask", !.goal = goal, !.old = b, !.how = how, !.set = set]
               \in Handler
<1>1. /\ [f EXCEPT !.old = b] \in Main
      /\ \A u \in BOOLEAN : [f EXCEPT !.stale = u] \in Main
  BY DEF Main
<1>2. ASSUME NEW pc \in {"guest", "send", "kick", "mask", "tell", "entered", "asleep", "consume"}
      PROVE [f EXCEPT !.pc = pc] \in Main /\ [f EXCEPT !.pc = pc, !.old = b] \in Main
  BY DEF Main
<1>3. /\ [h EXCEPT !.old = b] \in Handler /\ [h EXCEPT !.pc = "tell"] \in Handler
      /\ [h EXCEPT !.pc = "taking", !.old = b] \in Handler
  BY DEF Handler
<1>4. ASSUME NEW saved \in SUBSET Signals
      PROVE [h EXCEPT !.pc = "guest", !.old = Clear, !.saved = saved] \in Handler
  BY Constants DEF Handler
<1>5. ASSUME NEW goal \in {"call", "enter", "restore"}
      PROVE [h EXCEPT !.pc = "mask", !.goal = goal, !.old = b, !.how = how, !.set = set]
              \in Handler
  BY DEF Handler, Hows
<1> QED BY <1>1, <1>2, <1>3, <1>4, <1>5

LEMMA TypeOKStep == TypeOK /\ SenderHolds /\ HandlerHolds /\ [Next]_vars => TypeOK'
<1> SUFFICES ASSUME TypeOK, SenderHolds, HandlerHolds, [Next]_vars PROVE TypeOK'
  OBVIOUS
<1> USE DEF TypeOK
<1>a. \A t \in Threads :
        /\ bits[t] \in Bits /\ main[t] \in Main /\ handler[t] \in Handler
        /\ bits[t].mask \in SUBSET Signals /\ main[t].set \in SUBSET Signals
        /\ handler[t].set \in SUBSET Signals /\ handler[t].saved \in SUBSET Signals
        /\ main[t].old \in Bits /\ handler[t].old \in Bits
        /\ main[t].how \in Hows /\ handler[t].how \in Hows
  BY DEF Bits, Main, Handler, Hows
<1>1. ASSUME NEW s \in Threads, NEW t \in Threads, NEW n \in Signals, SendLoad(s, t, n)
      PROVE TypeOK'
  <2>1. [InGuest EXCEPT !.pc = "send", !.target = t, !.signal = n, !.old = bits[t]] \in Main
    BY <1>a, Constants DEF InGuest, Main
  <2> QED BY <1>1, <2>1 DEF SendLoad
<1>2. ASSUME NEW s \in Threads, SendExchange(s) PROVE TypeOK'
  <2> DEFINE f == main[s]
  <2>1. f.target \in Threads /\ f.signal \in Signals
    BY <1>2 DEF SenderHolds, SendExchange, Runs
  <2>2. Enqueued(f.old, f.signal) \in Bits
    BY <1>2, <1>a, <2>1, EnqueuedType DEF SenderHolds, SendExchange, Runs, Accepts
  <2>3. /\ [f EXCEPT !.pc = "kick", !.old = Clear] \in Main
        /\ [f EXCEPT !.old = bits[f.target]] \in Main
    BY <1>a, <2>1, Constants, FrameTypes
  <2>4. bits' \in [Threads -> Bits] /\ changed' \subseteq Threads
    BY <1>2, <2>1, <2>2 DEF SendExchange, Notified
  <2>5. main' \in [Threads -> Main]
    BY <1>2, <2>3, Constants DEF SendExchange
  <2> QED BY <1>2, <2>4, <2>5 DEF SendExchange
<1>3. ASSUME NEW s \in Threads, SendKick(s) PROVE TypeOK'
  <2>1. main[s].target \in Threads
    BY <1>3 DEF SenderHolds, SendKick, Runs
  <2> QED BY <1>3, <2>1, Constants DEF SendKick
<1>4. ASSUME NEW t \in Threads, NEW how \in Hows, NEW set \in Masks, MaskLoad(t, how, set)
      PROVE TypeOK'
  <2>1. [InGuest EXCEPT !.pc = "mask", !.how = how, !.set = set, !.old = bits[t]] \in Main
    BY <1>a, Numbers, Constants DEF InGuest, Main, Hows
  <2> QED BY <1>4, <2>1 DEF MaskLoad
<1>5. ASSUME NEW t \in Threads, MaskExchange(t) PROVE TypeOK'
  <2> DEFINE f == main[t]
  <2>1. Masked(f.old, f.how, f.set) \in Bits
    BY <1>a, MaskedType
  <2>2. [f EXCEPT !.old = bits[t]] \in Main /\ [InGuest EXCEPT !.pc = "tell"] \in Main
    BY <1>a, FrameTypes, Constants
  <2>3. bits' \in [Threads -> Bits]
    BY <1>5, <2>1 DEF MaskExchange
  <2>4. main' \in [Threads -> Main]
    BY <1>5, <2>2, Constants DEF MaskExchange
  <2> QED BY <1>5, <2>3, <2>4 DEF MaskExchange
<1>6. ASSUME NEW t \in Threads, MaskTell(t) PROVE TypeOK'
  BY <1>6, Constants DEF MaskTell
<1>7. ASSUME NEW t \in Threads, InterruptEnter(t) PROVE TypeOK'
  <2>1. [Idle EXCEPT !.pc = "take", !.entry = bits[t].mask] \in Handler
    BY <1>a, Constants DEF Idle, Handler
  <2> QED BY <1>7, <2>1 DEF InterruptEnter
<1>8. ASSUME NEW t \in Threads, TakeLoad(t) PROVE TypeOK'
  BY <1>8, <1>a, FrameTypes, Constants DEF TakeLoad
<1>9. ASSUME NEW t \in Threads, TakeExchange(t) PROVE TypeOK'
  <2> DEFINE f == handler[t]
             b == Masked(f.old, "block", ActionMask \cup {Interrupt})
  <2>1. b \in Bits /\ b.count = f.old.count /\ b.std = f.old.std
    BY <1>a, Numbers, MaskedType DEF Signals
  <2>2. Interrupt \in pending_set(b)
    BY <1>9, <2>1 DEF HandlerHolds, TakeExchange, Handles, Takable, pending_set
  <2>3. Dequeued(b, Interrupt) \in Bits
    BY <2>1, <2>2, DequeuedType
  <2>4. \A u \in BOOLEAN : [main[t] EXCEPT !.stale = u] \in Main
    BY <1>a, FrameTypes
  <2>5. /\ [f EXCEPT !.pc = "guest", !.old = Clear, !.saved = f.old.mask] \in Handler
        /\ [f EXCEPT !.old = bits[t]] \in Handler
    BY <1>a, FrameTypes DEF Bits
  <2>6. bits' \in [Threads -> Bits]
    BY <1>9, <2>3 DEF TakeExchange
  <2>7. main' \in [Threads -> Main]
    <3> DEFINE u == main[t].stale \/ main[t].pc \in {"entered", "asleep", "consume"}
    <3>1. [main[t] EXCEPT !.stale = u] \in Main
      BY <2>4
    <3>2. main' = main \/ main' = [main EXCEPT ![t] = [main[t] EXCEPT !.stale = u]]
      BY <1>9 DEF TakeExchange
    <3> QED BY <3>1, <3>2
  <2>8. handler' \in [Threads -> Handler]
    BY <1>9, <2>5, Constants DEF TakeExchange
  <2> QED BY <1>9, <2>6, <2>7, <2>8 DEF TakeExchange
<1>10. ASSUME NEW t \in Threads, NEW n \in Faults, FaultEnter(t, n) PROVE TypeOK'
  <2>1. ActionMask \cup {n} \in SUBSET Signals
    BY Numbers DEF Signals
  <2>2. [Idle EXCEPT !.pc = "mask", !.kind = "fault", !.goal = "enter", !.old = bits[t],
                     !.how = "block", !.set = ActionMask \cup {n}, !.saved = bits[t].mask,
                     !.entry = bits[t].mask] \in Handler
    BY <1>a, <2>1, Constants DEF Idle, Handler
  <2> QED BY <1>10, <2>2 DEF FaultEnter
<1>11. ASSUME NEW t \in Threads, NEW how \in Hows, NEW set \in Masks, HandlerCall(t, how, set)
       PROVE TypeOK'
  BY <1>11, <1>a, FrameTypes, Numbers DEF HandlerCall
<1>12. ASSUME NEW t \in Threads, HandlerReturn(t) PROVE TypeOK'
  <2>1. PICK set \in SUBSET Signals :
          handler' = [handler EXCEPT ![t] =
            [@ EXCEPT !.pc = "mask", !.goal = "restore", !.old = bits[t],
                      !.how = "set", !.set = set]]
    <3>1. /\ Masks \cup {handler[t].saved} \subseteq SUBSET Signals
          /\ {handler[t].saved} \subseteq SUBSET Signals
      BY <1>a, Numbers
    <3> QED BY <1>12, <3>1 DEF HandlerReturn, RestoredHow
  <2>2. [handler[t] EXCEPT !.pc = "mask", !.goal = "restore", !.old = bits[t],
                           !.how = "set", !.set = set] \in Handler
    BY <1>a, FrameTypes DEF Hows
  <2> QED BY <1>12, <2>1, <2>2 DEF HandlerReturn
<1>13. ASSUME NEW t \in Threads, HandlerExchange(t) PROVE TypeOK'
  <2> DEFINE f == handler[t]
  <2>1. Masked(f.old, f.how, f.set) \in Bits
    BY <1>a, MaskedType
  <2>2. /\ [f EXCEPT !.old = bits[t]] \in Handler /\ [f EXCEPT !.pc = "tell"] \in Handler
        /\ Continued(f) \in Handler
    <3>1. f \in Handler /\ f.drained < DrainLimit /\ bits[t] \in Bits
      BY <1>a DEF HandlerHolds
    <3>2. Continued(f) \in Handler
      BY <3>1, ContinuedType
    <3>3. [f EXCEPT !.old = bits[t]] \in Handler /\ [f EXCEPT !.pc = "tell"] \in Handler
      BY <3>1 DEF Handler
    <3> QED BY <3>2, <3>3
  <2>3. bits' \in [Threads -> Bits] /\ life' \in {"live", "failed", "destroyed"}
    BY <1>13, <2>1 DEF HandlerExchange
  <2>4. handler' \in [Threads -> Handler]
    BY <1>13, <2>2 DEF HandlerExchange
  <2> QED BY <1>13, <2>3, <2>4 DEF HandlerExchange
<1>14. ASSUME NEW t \in Threads, HandlerTell(t) PROVE TypeOK'
  <2>1. Continued(handler[t]) \in Handler
    BY <1>a, ContinuedType DEF HandlerHolds
  <2> QED BY <1>14, <2>1 DEF HandlerTell
<1>15. ASSUME NEW t \in Threads, NEW set \in Waits, NEW timeout \in Timeouts,
              WaitEnter(t, set, timeout)
       PROVE TypeOK'
  <2>1. [InGuest EXCEPT !.pc = "entered", !.set = set \ Unmaskable, !.timeout = timeout] \in Main
    BY Numbers, Constants DEF InGuest, Main, Timeouts
  <2> QED BY <1>15, <2>1 DEF WaitEnter
<1>16. ASSUME NEW t \in Threads, WaitLock(t) PROVE TypeOK'
  <2>1. main' \in [Threads -> Main]
    <3>1. \/ main' = [main EXCEPT ![t] = [main[t] EXCEPT !.pc = "consume", !.old = bits[t]]]
          \/ main' = [main EXCEPT ![t] = [main[t] EXCEPT !.pc = "asleep"]]
      BY <1>16 DEF WaitLock
    <3>2. /\ [main[t] EXCEPT !.pc = "consume", !.old = bits[t]] \in Main
          /\ [main[t] EXCEPT !.pc = "asleep"] \in Main
      BY <1>a, FrameTypes
    <3> QED BY <3>1, <3>2
  <2> QED BY <1>16, <2>1, <1>a DEF WaitLock
<1>17. ASSUME NEW t \in Threads, WaitWake(t) PROVE TypeOK'
  <2>1. main' \in [Threads -> Main]
    BY <1>17, <1>a, FrameTypes DEF WaitWake
  <2> QED BY <1>17, <2>1 DEF WaitWake
<1>18. ASSUME NEW t \in Threads, WaitRecheck(t) PROVE TypeOK'
  BY <1>18 DEF WaitRecheck
<1>19. ASSUME NEW t \in Threads, WaitConsume(t) PROVE TypeOK'
  <2> DEFINE f == main[t]
  <2>1. \A n \in pending_set(f.old) : Dequeued(f.old, n) \in Bits
    BY <1>a, DequeuedType
  <2>2. [f EXCEPT !.old = bits[t]] \in Main
    BY <1>a, FrameTypes
  <2>3. bits' \in [Threads -> Bits]
    BY <1>19, <2>1 DEF WaitConsume
  <2>4. main' \in [Threads -> Main] /\ lock' \in Threads \cup {None}
    BY <1>19, <2>2, Constants DEF WaitConsume
  <2> QED BY <1>19, <2>3, <2>4 DEF WaitConsume
<1>20. ASSUME NEW t \in Threads, Bind(t) \/ Unbind(t) PROVE TypeOK'
  BY <1>20 DEF Bind, Unbind
<1>21. ASSUME NEW t \in Threads, NEW mask \in SUBSET Signals, Attached(t, mask) PROVE TypeOK'
  <2>1. [Clear EXCEPT !.mask = mask \ Unmaskable] \in Bits
    BY Constants DEF Clear, Bits
  <2> QED BY <1>21, <2>1 DEF Attached
<1>22. ASSUME NEW t \in Threads, Detach(t) PROVE TypeOK'
  BY <1>22, Constants DEF Detach
<1>23. CASE Destroy
  BY <1>23 DEF Destroy
<1>24. CASE UNCHANGED vars
  BY <1>24 DEF vars
<1> QED
  BY <1>1, <1>2, <1>3, <1>4, <1>5, <1>6, <1>7, <1>8, <1>9, <1>10, <1>11, <1>12, <1>13,
     <1>14, <1>15, <1>16, <1>17, <1>18, <1>19, <1>20, <1>21, <1>22, <1>23, <1>24,
     <1>a, Numbers
  DEF Next, ThreadStep, Attach, Inherit

----------------------------------------------------------------------------
(* The mutex.                                                              *)

LEMMA MutexStep == TypeOK /\ MutexHeld /\ [Next]_vars => MutexHeld'
<1> SUFFICES ASSUME TypeOK, MutexHeld, [Next]_vars PROVE MutexHeld'
  OBVIOUS
<1> USE DEF MutexHeld, Runs, Handles
<1>a. main \in [Threads -> Main] /\ None \notin Threads
  BY Numbers DEF TypeOK
<1>1. ASSUME NEW s \in Threads, NEW t \in Threads, NEW n \in Signals, SendLoad(s, t, n)
      PROVE MutexHeld'
  BY <1>1, <1>a DEF SendLoad, InGuest
<1>2. ASSUME NEW s \in Threads, SendExchange(s) PROVE MutexHeld'
  BY <1>2, <1>a DEF SendExchange, InGuest, Main
<1>3. ASSUME NEW s \in Threads, SendKick(s) PROVE MutexHeld'
  BY <1>3, <1>a DEF SendKick, InGuest
<1>4. ASSUME NEW t \in Threads, NEW how \in Hows, NEW set \in Masks, MaskLoad(t, how, set)
      PROVE MutexHeld'
  BY <1>4, <1>a DEF MaskLoad, InGuest
<1>5. ASSUME NEW t \in Threads, MaskExchange(t) PROVE MutexHeld'
  BY <1>5, <1>a DEF MaskExchange, InGuest, Main
<1>6. ASSUME NEW t \in Threads, MaskTell(t) PROVE MutexHeld'
  BY <1>6, <1>a DEF MaskTell, InGuest
<1>7. ASSUME NEW t \in Threads, TakeExchange(t) PROVE MutexHeld'
  <2>1. lock' = lock /\ \A u \in Threads : main'[u].pc = main[u].pc
    BY <1>7, <1>a DEF TakeExchange, Main
  <2> QED BY <2>1
<1>8. ASSUME NEW t \in Threads, NEW set \in Waits, NEW timeout \in Timeouts,
             WaitEnter(t, set, timeout)
      PROVE MutexHeld'
  BY <1>8, <1>a DEF WaitEnter, InGuest
<1>9. ASSUME NEW t \in Threads, WaitLock(t) PROVE MutexHeld'
  BY <1>9, <1>a DEF WaitLock, Main
<1>10. ASSUME NEW t \in Threads, WaitWake(t) PROVE MutexHeld'
  BY <1>10, <1>a DEF WaitWake, Main
<1>11. ASSUME NEW t \in Threads, WaitConsume(t) PROVE MutexHeld'
  BY <1>11, <1>a DEF WaitConsume, InGuest, Main
<1>12. ASSUME UNCHANGED <<main, lock>> PROVE MutexHeld'
  BY <1>12
<1>20. ASSUME NEW t \in Threads,
             \/ Detach(t) \/ Bind(t) \/ Unbind(t) \/ WaitRecheck(t)
             \/ \E mask : Attached(t, mask)
       PROVE MutexHeld'
  BY <1>20, <1>12 DEF Attached, Detach, Bind, Unbind, WaitRecheck
<1>21. ASSUME NEW t \in Threads,
             \/ InterruptEnter(t) \/ TakeLoad(t) \/ HandlerReturn(t) \/ HandlerExchange(t)
             \/ HandlerTell(t)
             \/ \E n \in Faults : FaultEnter(t, n)
             \/ \E how \in Hows, set \in Masks : HandlerCall(t, how, set)
       PROVE MutexHeld'
  BY <1>21, <1>12 DEF InterruptEnter, TakeLoad, FaultEnter, HandlerCall, HandlerReturn, HandlerExchange,
     HandlerTell
<1>22. CASE Destroy \/ UNCHANGED vars
  BY <1>22, <1>12 DEF Destroy, vars
<1> HIDE DEF MutexHeld
<1> QED
  BY <1>1, <1>2, <1>3, <1>4, <1>5, <1>6, <1>7, <1>8, <1>9, <1>10, <1>11, <1>20, <1>21, <1>22
  DEF Next, ThreadStep, Attach, Inherit

----------------------------------------------------------------------------
(* Loads and compare-exchanges.                                            *)

LEMMA SenderStep == TypeOK /\ MutexHeld /\ SenderHolds /\ [Next]_vars => SenderHolds'
<1> SUFFICES ASSUME TypeOK, MutexHeld, SenderHolds, [Next]_vars PROVE SenderHolds'
  OBVIOUS
<1> USE DEF SenderHolds, Runs, Handles
<1>a. main \in [Threads -> Main] /\ None \notin Threads
  BY Numbers DEF TypeOK
<1>b. lock = None => \A s \in Threads : main[s].pc \notin {"send", "kick"}
  BY <1>a DEF MutexHeld
<1>1. ASSUME NEW s \in Threads, NEW t \in Threads, NEW n \in Signals, SendLoad(s, t, n)
      PROVE SenderHolds'
  BY <1>1, <1>a, <1>b DEF SendLoad, InGuest, Accepts
<1>2. ASSUME NEW s \in Threads, SendExchange(s) PROVE SenderHolds'
  <2>1. UNCHANGED <<bound, wait_mask>>
    BY <1>2 DEF SendExchange
  <2>2. \A u \in Threads \ {s} : main'[u] = main[u]
    BY <1>2, <1>a DEF SendExchange
  <2>3. \/ main'[s].pc = "guest"
        \/ main'[s].pc = "kick" /\ main'[s].target = main[s].target
        \/ /\ main'[s].target = main[s].target /\ main'[s].signal = main[s].signal
           /\ Accepts(main[s].target, main[s].signal, main'[s].old)
    BY <1>2, <1>a DEF SendExchange, InGuest, Main
  <2> QED BY <1>2, <2>1, <2>2, <2>3 DEF SendExchange, Accepts
<1>3. ASSUME NEW s \in Threads, SendKick(s) PROVE SenderHolds'
  BY <1>3, <1>a DEF SendKick, InGuest, Accepts
<1>4. ASSUME NEW t \in Threads, NEW how \in Hows, NEW set \in Masks, MaskLoad(t, how, set)
      PROVE SenderHolds'
  BY <1>4, <1>a DEF MaskLoad, InGuest, Accepts
<1>5. ASSUME NEW t \in Threads, MaskExchange(t) PROVE SenderHolds'
  BY <1>5, <1>a DEF MaskExchange, InGuest, Main, Accepts
<1>6. ASSUME NEW t \in Threads, MaskTell(t) PROVE SenderHolds'
  BY <1>6, <1>a DEF MaskTell, InGuest, Accepts
<1>7. ASSUME NEW t \in Threads, TakeExchange(t) PROVE SenderHolds'
  <2>1. /\ UNCHANGED <<bound, wait_mask>>
        /\ \A u \in Threads : /\ main'[u].pc = main[u].pc /\ main'[u].old = main[u].old
                              /\ main'[u].target = main[u].target
                              /\ main'[u].signal = main[u].signal
    BY <1>7, <1>a DEF TakeExchange, Main
  <2> QED BY <2>1 DEF Accepts
<1>8. ASSUME NEW t \in Threads, NEW set \in Waits, NEW timeout \in Timeouts,
             WaitEnter(t, set, timeout)
      PROVE SenderHolds'
  BY <1>8, <1>a DEF WaitEnter, InGuest, Accepts
<1>9. ASSUME NEW t \in Threads, WaitLock(t) \/ WaitWake(t) PROVE SenderHolds'
  <2>1. \A u \in Threads : main'[u].pc \notin {"send", "kick"}
    BY <1>9, <1>a, <1>b DEF WaitLock, WaitWake, Main
  <2> QED BY <2>1
<1>10. ASSUME NEW t \in Threads, WaitConsume(t) PROVE SenderHolds'
  BY <1>10, <1>a DEF WaitConsume, InGuest, Main, Accepts
<1>11. ASSUME NEW t \in Threads, Bind(t) \/ Unbind(t) PROVE SenderHolds'
  BY <1>11, <1>b DEF Bind, Unbind
<1>12. ASSUME UNCHANGED <<main, bound, wait_mask>> PROVE SenderHolds'
  BY <1>12 DEF Accepts
<1>20. ASSUME NEW t \in Threads,
             \/ Detach(t) \/ WaitRecheck(t)
             \/ \E mask : Attached(t, mask)
       PROVE SenderHolds'
  BY <1>20, <1>12 DEF Attached, Detach, WaitRecheck
<1>21. ASSUME NEW t \in Threads,
             \/ InterruptEnter(t) \/ TakeLoad(t) \/ HandlerReturn(t) \/ HandlerExchange(t)
             \/ HandlerTell(t)
             \/ \E n \in Faults : FaultEnter(t, n)
             \/ \E how \in Hows, set \in Masks : HandlerCall(t, how, set)
       PROVE SenderHolds'
  BY <1>21, <1>12 DEF InterruptEnter, TakeLoad, FaultEnter, HandlerCall, HandlerReturn, HandlerExchange,
     HandlerTell
<1>22. CASE Destroy \/ UNCHANGED vars
  BY <1>22, <1>12 DEF Destroy, vars
<1> HIDE DEF SenderHolds
<1> QED
  BY <1>1, <1>2, <1>3, <1>4, <1>5, <1>6, <1>7, <1>8, <1>9, <1>10, <1>11, <1>20, <1>21, <1>22
  DEF Next, ThreadStep, Attach, Inherit

\* Where a compare-exchange of take_interrupt leaves its handler.
LEMMA TakenHandler ==
  ASSUME NEW t \in Threads, handler \in [Threads -> Handler], TakeExchange(t)
  PROVE \/ handler'[t] = [handler[t] EXCEPT !.pc = "guest", !.old = Clear,
                                           !.saved = handler[t].old.mask]
        \/ handler'[t] = Idle
        \/ Takable(bits[t]) /\ handler'[t] = [handler[t] EXCEPT !.old = bits[t]]
  BY DEF TakeExchange

LEMMA HandlerStep == TypeOK /\ HandlerHolds /\ [Next]_vars => HandlerHolds'
<1> SUFFICES ASSUME TypeOK, HandlerHolds, [Next]_vars PROVE HandlerHolds'
  OBVIOUS
<1> USE DEF HandlerHolds, Handles
<1>a. /\ handler \in [Threads -> Handler] /\ \A t \in Threads : handler[t] \in Handler
      /\ DrainLimit \in Nat \ {0}
  BY Numbers DEF TypeOK
<1>b. Idle.pc = "idle" /\ Idle.drained < DrainLimit
  BY Numbers DEF Idle
<1>1. ASSUME NEW t \in Threads, InterruptEnter(t) PROVE HandlerHolds'
  BY <1>1, <1>a DEF InterruptEnter, Idle
<1>2. ASSUME NEW t \in Threads, TakeLoad(t) PROVE HandlerHolds'
  BY <1>2, <1>a, <1>b DEF TakeLoad, Handler
<1>3. ASSUME NEW t \in Threads, TakeExchange(t) PROVE HandlerHolds'
  <2>1. \A u \in Threads \ {t} : handler'[u] = handler[u]
    BY <1>3, <1>a DEF TakeExchange
  <2>2. \/ handler'[t] = Idle
        \/ handler'[t].pc = "guest" /\ handler'[t].drained = handler[t].drained
        \/ /\ handler'[t].drained = handler[t].drained
           /\ handler'[t].old = bits[t] /\ Takable(bits[t])
    BY <1>3, <1>a, TakenHandler DEF Handler
  <2> QED BY <2>1, <2>2, <1>b
<1>4. ASSUME NEW t \in Threads, NEW n \in Faults, FaultEnter(t, n) PROVE HandlerHolds'
  <2>1. \A u \in Threads \ {t} : handler'[u] = handler[u]
    BY <1>4, <1>a DEF FaultEnter
  <2>2. handler'[t] = handler[t] \/ (handler'[t].pc = "mask" /\ handler'[t].drained = 0)
    <3> DEFINE g == [Idle EXCEPT !.pc = "mask", !.kind = "fault", !.goal = "enter",
                            !.old = bits[t], !.how = "block", !.set = ActionMask \cup {n},
                            !.saved = bits[t].mask, !.entry = bits[t].mask]
    <3>1. g.pc = "mask" /\ g.drained = 0
      BY DEF Idle
    <3>2. handler' = handler \/ handler' = [handler EXCEPT ![t] = g]
      BY <1>4 DEF FaultEnter
    <3> HIDE DEF g
    <3> QED BY <3>1, <3>2, <1>a
  <2> QED BY <2>1, <2>2, <1>a
<1>5. ASSUME NEW t \in Threads, NEW how \in Hows, NEW set \in Masks, HandlerCall(t, how, set)
      PROVE HandlerHolds'
  BY <1>5, <1>a DEF HandlerCall, Handler
<1>6. ASSUME NEW t \in Threads, HandlerReturn(t) PROVE HandlerHolds'
  <2>1. /\ handler'[t].pc = "mask" /\ handler'[t].drained = handler[t].drained
        /\ \A u \in Threads \ {t} : handler'[u] = handler[u]
    BY <1>6, <1>a DEF HandlerReturn, Handler
  <2> QED BY <2>1
<1>7. ASSUME NEW t \in Threads, HandlerExchange(t) PROVE HandlerHolds'
  <2>1. /\ Continued(handler[t]).drained < DrainLimit
        /\ Continued(handler[t]).pc # "taking"
    BY <1>a, ContinuedType
  <2> QED BY <1>7, <1>a, <2>1 DEF HandlerExchange, Handler
<1>8. ASSUME NEW t \in Threads, HandlerTell(t) PROVE HandlerHolds'
  <2>1. /\ Continued(handler[t]).drained < DrainLimit
        /\ Continued(handler[t]).pc # "taking"
    BY <1>a, ContinuedType
  <2> QED BY <1>8, <1>a, <2>1 DEF HandlerTell
<1>9. ASSUME UNCHANGED handler PROVE HandlerHolds'
  BY <1>9
<1>20. ASSUME NEW t \in Threads,
             \/ Detach(t) \/ Bind(t) \/ Unbind(t)
             \/ \E mask : Attached(t, mask)
       PROVE HandlerHolds'
  BY <1>20, <1>9 DEF Attached, Detach, Bind, Unbind
<1>21. ASSUME NEW t \in Threads,
             \/ SendExchange(t) \/ SendKick(t) \/ MaskExchange(t) \/ MaskTell(t)
             \/ \E u \in Threads, n \in Signals : SendLoad(t, u, n)
             \/ \E how \in Hows, set \in Masks : MaskLoad(t, how, set)
       PROVE HandlerHolds'
  BY <1>21, <1>9 DEF SendLoad, SendExchange, SendKick, MaskLoad, MaskExchange, MaskTell
<1>22. ASSUME NEW t \in Threads,
             \/ WaitLock(t) \/ WaitWake(t) \/ WaitRecheck(t) \/ WaitConsume(t)
             \/ \E set \in Waits, timeout \in Timeouts : WaitEnter(t, set, timeout)
       PROVE HandlerHolds'
  BY <1>22, <1>9 DEF WaitEnter, WaitLock, WaitWake, WaitRecheck, WaitConsume
<1>23. CASE Destroy \/ UNCHANGED vars
  BY <1>23, <1>9 DEF Destroy, vars
<1> HIDE DEF HandlerHolds
<1> QED
  BY <1>1, <1>2, <1>3, <1>4, <1>5, <1>6, <1>7, <1>8, <1>20, <1>21, <1>22, <1>23
  DEF Next, ThreadStep, Attach, Inherit

----------------------------------------------------------------------------
(* Bindings and wakes.                                                     *)

LEMMA TellsStep == TypeOK /\ HandlerHolds /\ TellsBound /\ [Next]_vars => TellsBound'
<1> SUFFICES ASSUME TypeOK, HandlerHolds, TellsBound, [Next]_vars PROVE TellsBound'
  OBVIOUS
<1> USE DEF TellsBound, Runs, Handles
<1>a. /\ main \in [Threads -> Main] /\ handler \in [Threads -> Handler]
      /\ \A t \in Threads : main[t] \in Main /\ handler[t] \in Handler
  BY DEF TypeOK
<1>1. ASSUME NEW t \in Threads, MaskExchange(t) PROVE TellsBound'
  <2>1. UNCHANGED <<bound, handler>> /\ \A u \in Threads \ {t} : main'[u] = main[u]
    BY <1>1, <1>a DEF MaskExchange
  <2>2. main'[t].pc = "tell" => ~MaskRefused(t, main[t]) /\ Tells(main[t])
    BY <1>1, <1>a DEF MaskExchange, InGuest, Main
  <2> QED BY <2>1, <2>2 DEF MaskRefused, Tells
<1>2. ASSUME NEW t \in Threads, HandlerExchange(t) PROVE TellsBound'
  <2>1. UNCHANGED <<bound, main>> /\ \A u \in Threads \ {t} : handler'[u] = handler[u]
    BY <1>2, <1>a DEF HandlerExchange
  <2>2. Continued(handler[t]).pc # "tell"
    BY <1>a, ContinuedType DEF HandlerHolds
  <2>3. handler'[t].pc = "tell" => \/ ~MaskRefused(t, handler[t]) /\ Tells(handler[t])
    BY <1>2, <1>a, <2>2 DEF HandlerExchange, Handler
  <2> QED BY <2>1, <2>3 DEF MaskRefused, Tells
<1>3. ASSUME NEW t \in Threads, HandlerTell(t) PROVE TellsBound'
  <2>1. Continued(handler[t]).pc # "tell"
    BY <1>a, ContinuedType DEF HandlerHolds
  <2> QED BY <1>3, <1>a, <2>1 DEF HandlerTell
<1>4. ASSUME NEW t \in Threads, Bind(t) \/ Unbind(t) PROVE TellsBound'
  BY <1>4 DEF Bind, Unbind
<1>5. ASSUME /\ bound' = bound
             /\ \A u \in Threads : /\ main'[u].pc = "tell" => main[u].pc = "tell"
                                   /\ handler'[u].pc = "tell" => handler[u].pc = "tell"
      PROVE TellsBound'
  BY <1>5
<1>6. ASSUME NEW s \in Threads, NEW t \in Threads, NEW n \in Signals, SendLoad(s, t, n)
      PROVE TellsBound'
  BY <1>5, <1>6, <1>a DEF SendLoad, InGuest
<1>7. ASSUME NEW t \in Threads,
             \/ SendExchange(t) \/ SendKick(t) \/ MaskTell(t) \/ WaitConsume(t)
      PROVE TellsBound'
  <2>1. UNCHANGED <<bound, handler>> /\ \A u \in Threads \ {t} : main'[u] = main[u]
    BY <1>7, <1>a DEF SendExchange, SendKick, MaskTell, WaitConsume
  <2>2. main'[t].pc # "tell"
    <3>1. CASE SendExchange(t)
      BY <3>1, <1>a DEF SendExchange, InGuest, Main
    <3>2. CASE SendKick(t) \/ MaskTell(t)
      BY <3>2, <1>a DEF SendKick, MaskTell, InGuest
    <3>3. CASE WaitConsume(t)
      BY <3>3, <1>a DEF WaitConsume, InGuest, Main
    <3> QED BY <1>7, <3>1, <3>2, <3>3
  <2> QED BY <2>1, <2>2
<1>8. ASSUME NEW t \in Threads, NEW how \in Hows, NEW set \in Masks,
             MaskLoad(t, how, set) \/ HandlerCall(t, how, set)
      PROVE TellsBound'
  <2>1. CASE MaskLoad(t, how, set)
    BY <2>1, <1>a DEF MaskLoad, InGuest
  <2>2. CASE HandlerCall(t, how, set)
    BY <2>2, <1>a DEF HandlerCall, Handler
  <2> QED BY <1>8, <2>1, <2>2
<1>9. ASSUME NEW t \in Threads, WaitLock(t) \/ WaitWake(t) PROVE TellsBound'
  BY <1>5, <1>9, <1>a DEF WaitLock, WaitWake, Main
<1>10. ASSUME NEW t \in Threads, NEW set \in Waits, NEW timeout \in Timeouts,
              WaitEnter(t, set, timeout)
       PROVE TellsBound'
  BY <1>5, <1>10, <1>a DEF WaitEnter, InGuest
<1>11. ASSUME NEW t \in Threads, InterruptEnter(t) \/ TakeLoad(t) PROVE TellsBound'
  <2>1. CASE InterruptEnter(t)
    BY <2>1, <1>a DEF InterruptEnter, Idle
  <2>2. CASE TakeLoad(t)
    BY <2>2, <1>a DEF TakeLoad, Idle, Handler
  <2> QED BY <1>11, <2>1, <2>2
<1>12. ASSUME NEW t \in Threads, TakeExchange(t) PROVE TellsBound'
  <2>1. bound' = bound /\ \A u \in Threads : main'[u].pc = main[u].pc
    BY <1>12, <1>a DEF TakeExchange, Main
  <2>2. \A u \in Threads : handler'[u].pc = "tell" => handler[u].pc = "tell"
    <3>1. \A u \in Threads \ {t} : handler'[u] = handler[u]
      BY <1>12, <1>a DEF TakeExchange
    <3>2. handler'[t].pc = "tell" => handler[t].pc = "tell"
      <4>1. \/ handler'[t].pc \in {"guest", "idle"}
            \/ handler'[t] = [handler[t] EXCEPT !.old = bits[t]]
        <5>1. /\ Idle.pc = "idle"
              /\ [handler[t] EXCEPT !.pc = "guest", !.old = Clear,
                                    !.saved = handler[t].old.mask].pc = "guest"
          BY <1>a DEF Idle, Handler
        <5> QED BY <1>12, <1>a, <5>1, TakenHandler
      <4> QED BY <4>1, <1>a DEF Handler
    <3> QED BY <3>1, <3>2
  <2> QED BY <1>5, <2>1, <2>2
<1>13. ASSUME NEW t \in Threads, NEW n \in Faults, FaultEnter(t, n) PROVE TellsBound'
  <2>1. \A u \in Threads : handler'[u].pc = "tell" => handler[u].pc = "tell"
    BY <1>13, <1>a DEF FaultEnter, Idle
  <2> QED BY <1>5, <1>13, <2>1 DEF FaultEnter
<1>14. ASSUME NEW t \in Threads, HandlerReturn(t) PROVE TellsBound'
  <2>1. \A u \in Threads : handler'[u].pc = "tell" => handler[u].pc = "tell"
    BY <1>14, <1>a DEF HandlerReturn, Handler
  <2> QED BY <1>5, <1>14, <2>1 DEF HandlerReturn
<1>15. ASSUME UNCHANGED <<bound, main, handler>> PROVE TellsBound'
  BY <1>5, <1>15
<1> QED
  BY <1>1, <1>2, <1>3, <1>4, <1>6, <1>7, <1>8, <1>9, <1>10, <1>11, <1>12, <1>13, <1>14, <1>15
  DEF Next, ThreadStep, Attach, Inherit, Attached, Detach, Destroy, WaitRecheck, vars

LEMMA WakesStep ==
  TypeOK /\ MutexHeld /\ SenderHolds /\ TellsBound /\ WakesBound /\ [Next]_vars => WakesBound'
<1> SUFFICES ASSUME TypeOK, MutexHeld, SenderHolds, TellsBound, WakesBound, [Next]_vars
             PROVE WakesBound'
  OBVIOUS
<1> USE DEF WakesBound, Runs, Handles
<1>a. main \in [Threads -> Main] /\ None \notin Threads
  BY Numbers DEF TypeOK
<1>b. lock = None => \A s \in Threads : main[s].pc \notin {"send", "kick"}
  BY <1>a DEF MutexHeld
<1>1. ASSUME NEW s \in Threads, NEW t \in Threads, NEW n \in Signals, SendLoad(s, t, n)
      PROVE WakesBound'
  BY <1>1, <1>a DEF SendLoad, InGuest
<1>2. ASSUME NEW s \in Threads, SendExchange(s) PROVE WakesBound'
  <2>1. UNCHANGED <<wake, bound, attached>> /\ \A u \in Threads \ {s} : main'[u] = main[u]
    BY <1>2, <1>a DEF SendExchange
  <2>2. \/ main'[s].pc = "guest"
        \/ /\ main'[s].pc = "kick" /\ main'[s].target = main[s].target
           /\ main[s].target \in bound
        \/ main'[s].pc = "send" /\ main'[s].target = main[s].target
    BY <1>2, <1>a DEF SendExchange, InGuest, Main, Kicks
  <2> QED BY <1>2, <2>1, <2>2 DEF SendExchange
<1>3. ASSUME NEW s \in Threads, SendKick(s) PROVE WakesBound'
  BY <1>3, <1>a DEF SendKick, InGuest
<1>4. ASSUME NEW t \in Threads, NEW how \in Hows, NEW set \in Masks, MaskLoad(t, how, set)
      PROVE WakesBound'
  BY <1>4, <1>a DEF MaskLoad, InGuest
<1>5. ASSUME NEW t \in Threads, MaskExchange(t) PROVE WakesBound'
  BY <1>5, <1>a DEF MaskExchange, InGuest, Main
<1>6. ASSUME NEW t \in Threads, MaskTell(t) PROVE WakesBound'
  BY <1>6, <1>a DEF MaskTell, InGuest, TellsBound
<1>7. ASSUME NEW t \in Threads, TakeExchange(t) PROVE WakesBound'
  <2>1. /\ UNCHANGED <<wake, bound, attached>>
        /\ \A u \in Threads : /\ main'[u].pc = main[u].pc
                              /\ main'[u].target = main[u].target
    BY <1>7, <1>a DEF TakeExchange, Main
  <2> QED BY <2>1
<1>8. ASSUME NEW t \in Threads, NEW set \in Waits, NEW timeout \in Timeouts,
             WaitEnter(t, set, timeout)
      PROVE WakesBound'
  BY <1>8, <1>a DEF WaitEnter, InGuest
<1>9. ASSUME NEW t \in Threads, WaitLock(t) \/ WaitWake(t) PROVE WakesBound'
  <2>1. UNCHANGED <<wake, bound, attached>>
    BY <1>9 DEF WaitLock, WaitWake
  <2>2. \A u \in Threads : main'[u].pc \notin {"send", "kick"}
    BY <1>9, <1>a, <1>b DEF WaitLock, WaitWake, Main
  <2> QED BY <2>1, <2>2
<1>10. ASSUME NEW t \in Threads, WaitConsume(t) PROVE WakesBound'
  BY <1>10, <1>a DEF WaitConsume, InGuest, Main
<1>11. ASSUME NEW t \in Threads, Bind(t) \/ Unbind(t) PROVE WakesBound'
  BY <1>11, <1>b DEF Bind, Unbind
<1>12. ASSUME NEW t \in Threads, Detach(t) PROVE WakesBound'
  BY <1>12, <1>b DEF Detach
<1>13. ASSUME NEW t \in Threads, NEW mask, Attached(t, mask) PROVE WakesBound'
  BY <1>13 DEF Attached
<1>14. ASSUME NEW t \in Threads, HandlerTell(t) PROVE WakesBound'
  BY <1>14 DEF HandlerTell, TellsBound
<1>15. ASSUME NEW t \in Threads, InterruptEnter(t) PROVE WakesBound'
  BY <1>15 DEF InterruptEnter
<1>16. ASSUME UNCHANGED <<main, bound, attached, wake>> PROVE WakesBound'
  BY <1>16
<1>20. ASSUME NEW t \in Threads,
             \/ WaitRecheck(t) \/ TakeLoad(t) \/ HandlerReturn(t) \/ HandlerExchange(t)
             \/ \E n \in Faults : FaultEnter(t, n)
             \/ \E how \in Hows, set \in Masks : HandlerCall(t, how, set)
       PROVE WakesBound'
  BY <1>20, <1>16 DEF WaitRecheck, TakeLoad, FaultEnter, HandlerCall, HandlerReturn, HandlerExchange
<1>21. CASE Destroy \/ UNCHANGED vars
  BY <1>21, <1>16 DEF Destroy, vars
<1> HIDE DEF WakesBound
<1> QED
  BY <1>1, <1>2, <1>3, <1>4, <1>5, <1>6, <1>7, <1>8, <1>9, <1>10, <1>11, <1>12, <1>13, <1>14,
     <1>15, <1>20, <1>21
  DEF Next, ThreadStep, Attach, Inherit

----------------------------------------------------------------------------
(* What is pending is what is owed.                                        *)

Owed == [std : SUBSET Standard, count : Int]

\* The same change on the pending signals and on what is owed.
LEMMA SameChange ==
  ASSUME NEW b \in Bits, NEW o \in Owed, NEW n \in Signals, b.std = o.std, b.count = o.count
  PROVE /\ Enqueued(o, n) \in Owed /\ Dequeued(o, n) \in Owed
        /\ Enqueued(b, n).std = Enqueued(o, n).std
        /\ Enqueued(b, n).count = Enqueued(o, n).count
        /\ Dequeued(b, n).std = Dequeued(o, n).std
        /\ Dequeued(b, n).count = Dequeued(o, n).count
<1>1. CASE n = Interrupt
  BY <1>1 DEF Enqueued, Dequeued, Bits, Owed
<1>2. CASE n # Interrupt
  BY <1>2, Numbers DEF Enqueued, Dequeued, Bits, Owed
<1> QED BY <1>1, <1>2

Kept == OwedType /\ AbsentClear /\ Balanced

\* A step that adds or removes one signal on both sides for an attached thread.
LEMMA KeptChange ==
  ASSUME TypeOK, Kept, NEW t \in attached, NEW b \in Bits, NEW o \in Owed,
         b.std = o.std, b.count = o.count,
         bits' = [bits EXCEPT ![t] = b], owed' = [owed EXCEPT ![t] = o],
         attached' = attached
  PROVE Kept'
<1>1. t \in Threads
  BY DEF TypeOK
<1>2. /\ bits'[t] = b /\ owed'[t] = o
      /\ \A u \in Threads \ {t} : bits'[u] = bits[u] /\ owed'[u] = owed[u]
  BY <1>1 DEF TypeOK, Kept, OwedType
<1>3. OwedType'
  BY <1>1 DEF Kept, OwedType, Owed
<1> QED BY <1>1, <1>2, <1>3 DEF Kept, AbsentClear, Balanced

LEMMA KeptStep ==
  TypeOK /\ SenderHolds /\ HandlerHolds /\ WakesBound /\ Kept /\ [Next]_vars => Kept'
<1> SUFFICES ASSUME TypeOK, SenderHolds, HandlerHolds, WakesBound, Kept, [Next]_vars
             PROVE Kept'
  OBVIOUS
<1>a. \A t \in Threads :
        /\ bits[t] \in Bits /\ main[t].old \in Bits /\ handler[t].old \in Bits
        /\ main[t].set \in SUBSET Signals /\ handler[t].set \in SUBSET Signals
        /\ owed[t] \in Owed /\ bits[t].std = owed[t].std /\ bits[t].count = owed[t].count
        /\ main[t] \in Main /\ handler[t] \in Handler
  BY DEF TypeOK, Kept, OwedType, Balanced, Owed, Main, Handler
<1>0. ASSUME UNCHANGED <<bits, owed, attached>> PROVE Kept'
  BY <1>0 DEF Kept, OwedType, AbsentClear, Balanced
<1>1. ASSUME NEW s \in Threads, SendExchange(s) PROVE Kept'
  <2> DEFINE f == main[s]
             t == f.target
  <2>1. t \in attached /\ f.signal \in Signals /\ Accepts(t, f.signal, f.old)
    BY <1>1 DEF SendExchange, Runs, SenderHolds, WakesBound
  <2>2. t \in Threads
    BY <2>1 DEF TypeOK
  <2>3. CASE CanExchange(t, f.old)
    <3>1. bits[t] = f.old
      BY <2>3 DEF CanExchange
    <3>2. /\ bits' = [bits EXCEPT ![t] = Enqueued(bits[t], f.signal)]
          /\ owed' = [owed EXCEPT ![t] = Enqueued(owed[t], f.signal)]
          /\ attached' = attached
      BY <1>1, <2>2, <2>3, <3>1 DEF SendExchange, Owing
    <3>3. Enqueued(bits[t], f.signal) \in Bits
      BY <1>a, <2>1, <2>2, <3>1, EnqueuedType DEF Accepts
    <3>4. /\ Enqueued(owed[t], f.signal) \in Owed
          /\ Enqueued(bits[t], f.signal).std = Enqueued(owed[t], f.signal).std
          /\ Enqueued(bits[t], f.signal).count = Enqueued(owed[t], f.signal).count
      BY <1>a, <2>1, <2>2, SameChange
    <3> QED BY <2>1, <3>2, <3>3, <3>4, KeptChange
  <2>4. CASE ~CanExchange(t, f.old)
    BY <1>0, <1>1, <2>4 DEF SendExchange
  <2> QED BY <2>3, <2>4
<1>2. ASSUME NEW t \in Threads, MaskExchange(t) PROVE Kept'
  <2> DEFINE f == main[t]
             b == Masked(f.old, f.how, f.set)
  <2>1. CASE ~MaskRefused(t, f) /\ CanExchange(t, f.old)
    <3>1. b \in Bits /\ b.std = owed[t].std /\ b.count = owed[t].count
      BY <1>a, <2>1, MaskedType DEF CanExchange
    <3>2. /\ bits' = [bits EXCEPT ![t] = b] /\ owed' = [owed EXCEPT ![t] = owed[t]]
          /\ attached' = attached /\ t \in attached
      BY <1>2, <2>1 DEF MaskExchange, Runs, Kept, OwedType
    <3> QED BY <1>a, <3>1, <3>2, KeptChange
  <2>2. CASE ~(~MaskRefused(t, f) /\ CanExchange(t, f.old))
    BY <1>0, <1>2, <2>2 DEF MaskExchange
  <2> QED BY <2>1, <2>2
<1>3. ASSUME NEW t \in Threads, HandlerExchange(t) PROVE Kept'
  <2> DEFINE f == handler[t]
             b == Masked(f.old, f.how, f.set)
  <2>1. CASE ~MaskRefused(t, f) /\ CanExchange(t, f.old)
    <3>1. b \in Bits /\ b.std = owed[t].std /\ b.count = owed[t].count
      BY <1>a, <2>1, MaskedType DEF CanExchange
    <3>2. /\ bits' = [bits EXCEPT ![t] = b] /\ owed' = [owed EXCEPT ![t] = owed[t]]
          /\ attached' = attached /\ t \in attached
      BY <1>3, <2>1 DEF HandlerExchange, Handles, Kept, OwedType
    <3> QED BY <1>a, <3>1, <3>2, KeptChange
  <2>2. CASE ~(~MaskRefused(t, f) /\ CanExchange(t, f.old))
    BY <1>0, <1>3, <2>2 DEF HandlerExchange
  <2> QED BY <2>1, <2>2
<1>4. ASSUME NEW t \in Threads, TakeExchange(t) PROVE Kept'
  <2> DEFINE f == handler[t]
             m == Masked(f.old, "block", ActionMask \cup {Interrupt})
  <2>1. CASE CanExchange(t, f.old)
    <3>1. m \in Bits /\ m.std = owed[t].std /\ m.count = owed[t].count
      BY <1>a, <2>1, Numbers, MaskedType DEF CanExchange, Signals
    <3>2. Interrupt \in pending_set(m) /\ Interrupt \in Signals
      BY <1>4, <1>a, <2>1, <3>1
      DEF HandlerHolds, TakeExchange, Handles, Takable, pending_set, Signals, CanExchange
    <3>3. /\ bits' = [bits EXCEPT ![t] = Dequeued(m, Interrupt)]
          /\ owed' = [owed EXCEPT ![t] = Dequeued(owed[t], Interrupt)]
          /\ attached' = attached /\ t \in attached
      BY <1>4, <2>1 DEF TakeExchange, Handles, Settling
    <3>4. Dequeued(m, Interrupt) \in Bits
      BY <3>1, <3>2, DequeuedType
    <3>5. /\ Dequeued(owed[t], Interrupt) \in Owed
          /\ Dequeued(m, Interrupt).std = Dequeued(owed[t], Interrupt).std
          /\ Dequeued(m, Interrupt).count = Dequeued(owed[t], Interrupt).count
      BY <1>a, <3>1, <3>2, SameChange
    <3> QED BY <3>3, <3>4, <3>5, KeptChange
  <2>2. CASE ~CanExchange(t, f.old)
    BY <1>0, <1>4, <2>2 DEF TakeExchange
  <2> QED BY <2>1, <2>2
<1>5. ASSUME NEW t \in Threads, WaitConsume(t) PROVE Kept'
  <2> DEFINE f == main[t]
             P == pending_set(f.old) \cap f.set
  <2>1. ASSUME NEW n \in P, CanExchange(t, f.old),
               bits' = [bits EXCEPT ![t] = Dequeued(f.old, n)], owed' = Settling(t, n)
        PROVE Kept'
    <3>1. n \in Signals /\ n \in pending_set(bits[t]) /\ bits[t] = f.old
      BY <1>a, <2>1 DEF CanExchange
    <3>2. Dequeued(bits[t], n) \in Bits
      BY <1>a, <3>1, DequeuedType
    <3>3. /\ Dequeued(owed[t], n) \in Owed
          /\ Dequeued(bits[t], n).std = Dequeued(owed[t], n).std
          /\ Dequeued(bits[t], n).count = Dequeued(owed[t], n).count
      BY <1>a, <3>1, SameChange
    <3>4. /\ bits' = [bits EXCEPT ![t] = Dequeued(bits[t], n)]
          /\ owed' = [owed EXCEPT ![t] = Dequeued(owed[t], n)]
          /\ attached' = attached /\ t \in attached
      BY <1>5, <2>1, <3>1 DEF WaitConsume, Runs, Settling
    <3> QED BY <3>2, <3>3, <3>4, KeptChange
  <2>2. CASE UNCHANGED <<bits, owed>>
    BY <1>0, <1>5, <2>2 DEF WaitConsume
  <2> QED BY <1>5, <2>1, <2>2 DEF WaitConsume
<1>6. ASSUME NEW t \in Threads, NEW mask, Attached(t, mask) PROVE Kept'
  <2>1. /\ bits'[t].std = {} /\ bits'[t].count = 0
        /\ \A u \in Threads \ {t} : bits'[u] = bits[u]
    BY <1>6 DEF Attached, Clear, TypeOK
  <2>2. bits[t].std = {} /\ bits[t].count = 0
    BY <1>6 DEF Attached, Kept, AbsentClear
  <2> QED BY <1>6, <2>1, <2>2 DEF Attached, Kept, OwedType, AbsentClear, Balanced
<1>7. ASSUME NEW t \in Threads, Detach(t) PROVE Kept'
  <2>1. OwedType'
    BY <1>7 DEF Detach, Kept, OwedType
  <2> QED BY <1>7, <2>1 DEF Detach, Clear, TypeOK, Kept, OwedType, AbsentClear, Balanced
<1>20. ASSUME NEW t \in Threads,
             \/ Bind(t) \/ Unbind(t) \/ SendKick(t) \/ MaskTell(t)
             \/ \E u \in Threads, n \in Signals : SendLoad(t, u, n)
             \/ \E how \in Hows, set \in Masks : MaskLoad(t, how, set)
       PROVE Kept'
  BY <1>20, <1>0 DEF Bind, Unbind, SendLoad, SendKick, MaskLoad, MaskTell
<1>21. ASSUME NEW t \in Threads,
             \/ WaitLock(t) \/ WaitWake(t) \/ WaitRecheck(t)
             \/ \E set \in Waits, timeout \in Timeouts : WaitEnter(t, set, timeout)
       PROVE Kept'
  BY <1>21, <1>0 DEF WaitEnter, WaitLock, WaitWake, WaitRecheck
<1>22. ASSUME NEW t \in Threads,
             \/ InterruptEnter(t) \/ TakeLoad(t) \/ HandlerReturn(t) \/ HandlerTell(t)
             \/ \E n \in Faults : FaultEnter(t, n)
             \/ \E how \in Hows, set \in Masks : HandlerCall(t, how, set)
       PROVE Kept'
  BY <1>22, <1>0 DEF InterruptEnter, TakeLoad, FaultEnter, HandlerCall, HandlerReturn, HandlerTell
<1>23. CASE Destroy \/ UNCHANGED vars
  BY <1>23, <1>0 DEF Destroy, vars
<1> QED
  BY <1>1, <1>2, <1>3, <1>4, <1>5, <1>6, <1>7, <1>20, <1>21, <1>22, <1>23
  DEF Next, ThreadStep, Attach, Inherit

----------------------------------------------------------------------------
(* The theorems.                                                           *)

LEMMA InitIInv == Init => IInv
<1> SUFFICES ASSUME Init PROVE IInv
  OBVIOUS
<1>1. TypeOK /\ OwedType
  BY Constants DEF Init, TypeOK, OwedType
<1>2. \A t \in Threads : main[t].pc = "guest" /\ handler[t].pc = "idle" /\ handler[t].drained = 0
  BY DEF Init, InGuest, Idle
<1>3. MutexHeld /\ SenderHolds /\ HandlerHolds /\ TellsBound
  BY <1>2, Numbers DEF Init, MutexHeld, SenderHolds, HandlerHolds, TellsBound
<1>4. WakesBound
  BY <1>2 DEF Init, WakesBound
<1>5. AbsentClear /\ Balanced
  BY DEF Init, Clear, AbsentClear, Balanced
<1> QED BY <1>1, <1>3, <1>4, <1>5 DEF IInv

\* IInv is inductive.
THEOREM Inductive == Spec => []IInv
<1>1. IInv /\ [Next]_vars => IInv'
  BY TypeOKStep, MutexStep, SenderStep, HandlerStep, TellsStep, WakesStep, KeptStep
  DEF IInv, Kept
<1> QED BY InitIInv, <1>1, PTL DEF Spec

\* "A bounded count retains every accepted send": what is pending for a thread is what
\* was accepted for it and not consumed, and stays within the capacity.
THEOREM AcceptedSendsKept == Spec => [](TypeOK /\ SendsKept)
<1>1. IInv => TypeOK /\ SendsKept
  <2> SUFFICES ASSUME IInv PROVE TypeOK /\ SendsKept
    OBVIOUS
  <2>1. TypeOK /\ Balanced
    BY DEF IInv
  <2>2. \A t \in Threads : bits[t].count <= Capacity
    BY <2>1 DEF TypeOK, Bits
  <2> QED BY <2>1, <2>2 DEF SendsKept, Balanced
<1> QED BY Inductive, <1>1, PTL

\* "The registry lock protects send-versus-unbind lifetime": native wakes only ever
\* reach threads that are attached and bound.
THEOREM WakesReachBound == Spec => []WakesBound
<1>1. IInv => WakesBound
  BY DEF IInv
<1> QED BY Inductive, <1>1, PTL
----------------------------------------------------------------------------
(* What a handler and a wait find when they come back.                     *)

\* The frame of an interrupt handler over a mask.  It looks for interrupts only
\* with the mask of the code it interrupted, which it saves, and which it sets
\* when the guest's handler returns; and it was entered with Interrupt unblocked.
InterruptFrame(h, mask) ==
  /\ h.entry \cap Unmaskable = {}
  /\ h.pc \in {"take", "taking"} \/ (h.pc = "tell" /\ h.goal = "restore") => mask = h.entry
  /\ h.pc \in {"guest", "mask", "tell"} => h.saved = h.entry /\ Interrupt \notin h.saved
  /\ h.pc = "mask" /\ h.goal = "restore" => h.set = h.saved /\ h.how = "set"

\* One thread's mask, main code and handler agree with each other: SIGKILL and
\* SIGSTOP are never blocked, a thread that is not attached does nothing, wait_mask
\* is published exactly while the thread sleeps, a fault interrupts guest code, and
\* what a thread waits for is blocked by the code that waits (if guests do so).
Agree(here, mask, awaited, m, h) ==
  /\ mask \cap Unmaskable = {}
  /\ ~here => h.pc = "idle" /\ m.pc = "guest"
  /\ awaited = IF m.pc = "asleep" THEN m.set ELSE {}
  /\ h.pc # "idle" /\ h.kind = "fault" => m.pc = "guest"
  /\ h.pc # "idle" /\ h.kind = "interrupt" => InterruptFrame(h, mask)
  /\ ~WaitUnblocked /\ m.pc \in {"entered", "asleep", "consume"}
       => m.set \subseteq (IF h.pc = "idle" THEN mask ELSE h.entry)

Coherent ==
  \A t \in Threads :
    Agree(t \in attached, bits[t].mask, wait_mask[t], main[t], handler[t])

\* A thread that the step of another leaves alone: a send adds to what is pending,
\* and nothing else.
LEMMA AgreeStays ==
  ASSUME Coherent, NEW u \in Threads, handler'[u] = handler[u], main'[u] = main[u],
         bits'[u].mask = bits[u].mask, wait_mask'[u] = wait_mask[u],
         (u \in attached') <=> (u \in attached)
  PROVE Agree(u \in attached, bits[u].mask, wait_mask[u], main[u], handler[u])'
  BY DEF Coherent, Agree

\* The step of a thread that leaves the others alone.
LEMMA OwnStep ==
  ASSUME Coherent, NEW t \in Threads,
         \A u \in Threads \ {t} :
           /\ handler'[u] = handler[u] /\ main'[u] = main[u]
           /\ bits'[u].mask = bits[u].mask /\ wait_mask'[u] = wait_mask[u]
           /\ (u \in attached') <=> (u \in attached),
         Agree(t \in attached, bits[t].mask, wait_mask[t], main[t], handler[t])'
  PROVE Coherent'
<1>1. ASSUME NEW u \in Threads \ {t}
      PROVE Agree(u \in attached, bits[u].mask, wait_mask[u], main[u], handler[u])'
  BY AgreeStays
<1> QED BY <1>1 DEF Coherent

\* What a mask change leaves: never SIGKILL or SIGSTOP.
LEMMA MaskedMask ==
  ASSUME NEW b \in Bits, NEW how, NEW set \in SUBSET Signals, b.mask \cap Unmaskable = {}
  PROVE /\ Masked(b, how, set).mask \cap Unmaskable = {}
        /\ how = "set" => Masked(b, how, set).mask = set \ Unmaskable
  BY DEF Masked, Bits

\* Where a handler goes on, and with which fields.
LEMMA ContinuedFields ==
  ASSUME NEW f \in Handler
  PROVE /\ f.goal # "restore" => /\ Continued(f).pc = "guest" /\ Continued(f).kind = f.kind
                                 /\ Continued(f).saved = f.saved /\ Continued(f).entry = f.entry
        /\ f.goal = "restore" => \/ Continued(f) = Idle
                                 \/ /\ Continued(f).pc = "take" /\ Continued(f).entry = f.entry
                                    /\ Continued(f).kind = "interrupt" /\ f.kind # "fault"
  BY DEF Continued, Handler, Idle

LEMMA CoherentStep ==
  TypeOK /\ SenderHolds /\ HandlerHolds /\ Coherent /\ [Next]_vars => Coherent'
<1> SUFFICES ASSUME TypeOK, SenderHolds, HandlerHolds, Coherent, [Next]_vars PROVE Coherent'
  OBVIOUS
<1> USE DEF TypeOK
<1>a. \A t \in Threads :
        /\ bits[t] \in Bits /\ main[t] \in Main /\ handler[t] \in Handler
        /\ bits[t].mask \in SUBSET Signals
        /\ main[t].set \in SUBSET Signals /\ handler[t].set \in SUBSET Signals
        /\ Agree(t \in attached, bits[t].mask, wait_mask[t], main[t], handler[t])
  BY DEF Bits, Main, Handler, Coherent
<1>1. ASSUME NEW s \in Threads, SendExchange(s) PROVE Coherent'
  <2> DEFINE f == main[s]
             t == f.target
  <2>1. Runs(s, "send") /\ t \in Threads /\ f.signal \in Signals
    BY <1>1 DEF SendExchange, Runs, SenderHolds
  <2>2. \A u \in Threads : bits'[u].mask = bits[u].mask
    <3>1. CASE CanExchange(t, f.old) /\ bits' = [bits EXCEPT ![t] = Enqueued(f.old, f.signal)]
      <4>1. Enqueued(bits[t], f.signal).mask = bits[t].mask
        BY <2>1, <1>a DEF Enqueued, Bits
      <4> QED BY <3>1, <4>1 DEF CanExchange
    <3> QED BY <1>1, <3>1 DEF SendExchange
  <2>3. \A u \in Threads \ {s} : main'[u] = main[u]
    BY <1>1 DEF SendExchange
  <2>4. main'[s].pc \in {"send", "kick", "guest"}
    <3>1. [f EXCEPT !.pc = "kick", !.old = Clear].pc = "kick" /\ InGuest.pc = "guest"
          /\ [f EXCEPT !.old = bits[t]].pc = f.pc
      BY <1>a DEF Main, InGuest
    <3> QED BY <1>1, <2>1, <3>1 DEF SendExchange, Runs
  <2>5. UNCHANGED <<handler, wait_mask, attached>>
    BY <1>1 DEF SendExchange
  <2>6. Agree(s \in attached, bits[s].mask, wait_mask[s], main[s], handler[s])'
    BY <1>a, <2>1, <2>2, <2>4, <2>5 DEF Agree, Runs
  <2> QED BY <2>2, <2>3, <2>5, <2>6, OwnStep
<1>2. ASSUME NEW s \in Threads, NEW t \in Threads, NEW n \in Signals, SendLoad(s, t, n)
      PROVE Coherent'
  <2>1. main'[s].pc = "send" /\ \A u \in Threads \ {s} : main'[u] = main[u]
    BY <1>2 DEF SendLoad, InGuest
  <2>2. UNCHANGED <<handler, wait_mask, attached, bits>> /\ Runs(s, "guest")
    BY <1>2 DEF SendLoad
  <2>3. Agree(s \in attached, bits[s].mask, wait_mask[s], main[s], handler[s])'
    BY <1>a, <2>1, <2>2 DEF Agree, Runs
  <2> QED BY <2>1, <2>2, <2>3, OwnStep
<1>3. ASSUME NEW t \in Threads,
             SendKick(t) \/ MaskTell(t)
             \/ \E how \in Hows, set \in Masks : MaskLoad(t, how, set)
      PROVE Coherent'
  <2>1. /\ main'[t].pc \in {"guest", "mask"}
        /\ \A u \in Threads \ {t} : main'[u] = main[u]
    <3>1. CASE SendKick(t) \/ MaskTell(t)
      BY <3>1 DEF SendKick, MaskTell, InGuest
    <3>2. ASSUME NEW how \in Hows, NEW set \in Masks, MaskLoad(t, how, set)
          PROVE /\ main'[t].pc = "mask"
                /\ \A u \in Threads \ {t} : main'[u] = main[u]
      <4> DEFINE f == [InGuest EXCEPT !.pc = "mask", !.how = how, !.set = set, !.old = bits[t]]
      <4>1. f.pc = "mask"
        BY DEF InGuest
      <4>2. main' = [main EXCEPT ![t] = f]
        BY <3>2 DEF MaskLoad
      <4> HIDE DEF f
      <4> QED BY <4>1, <4>2
    <3> QED BY <1>3, <3>1, <3>2
  <2>2. UNCHANGED <<handler, wait_mask, attached, bits>>
    BY <1>3 DEF SendKick, MaskTell, MaskLoad
  <2>3. main[t].pc \in {"kick", "tell", "guest"} /\ handler[t].pc = "idle" /\ t \in attached
    BY <1>3 DEF SendKick, MaskTell, MaskLoad, Runs
  <2>4. Agree(t \in attached, bits[t].mask, wait_mask[t], main[t], handler[t])'
    BY <1>a, <2>1, <2>2, <2>3 DEF Agree
  <2> QED BY <2>1, <2>2, <2>4, OwnStep
<1>4. ASSUME NEW t \in Threads, MaskExchange(t) PROVE Coherent'
  <2> DEFINE f == main[t]
  <2>1. main'[t].pc \in {"guest", "mask", "tell"} /\ \A u \in Threads \ {t} : main'[u] = main[u]
    <3>1. InGuest.pc = "guest" /\ [InGuest EXCEPT !.pc = "tell"].pc = "tell"
          /\ [f EXCEPT !.old = bits[t]].pc = f.pc
      BY <1>a DEF InGuest, Main
    <3> QED BY <1>4, <3>1 DEF MaskExchange, Runs
  <2>2. UNCHANGED <<handler, wait_mask, attached>> /\ Runs(t, "mask")
    BY <1>4 DEF MaskExchange
  <2>3. \/ bits' = bits
        \/ CanExchange(t, f.old) /\ bits' = [bits EXCEPT ![t] = Masked(f.old, f.how, f.set)]
    BY <1>4 DEF MaskExchange
  <2>4. \A u \in Threads \ {t} : bits'[u] = bits[u]
    BY <2>3
  <2>5. bits'[t].mask \cap Unmaskable = {}
    <3>1. bits[t].mask \cap Unmaskable = {}
      BY <1>a DEF Agree
    <3>2. Masked(bits[t], f.how, f.set).mask \cap Unmaskable = {}
      BY <1>a, <3>1, MaskedMask
    <3> QED BY <2>3, <3>1, <3>2 DEF CanExchange
  <2>6. Agree(t \in attached, bits[t].mask, wait_mask[t], main[t], handler[t])'
    BY <1>a, <2>1, <2>2, <2>5 DEF Agree, Runs
  <2> QED BY <2>1, <2>2, <2>4, <2>6, OwnStep
<1>5. ASSUME NEW t \in Threads, NEW set \in Waits, NEW timeout \in Timeouts,
             WaitEnter(t, set, timeout)
      PROVE Coherent'
  <2>1. /\ main'[t].pc = "entered" /\ main'[t].set = set \ Unmaskable
        /\ \A u \in Threads \ {t} : main'[u] = main[u]
    BY <1>5 DEF WaitEnter, InGuest
  <2>2. /\ UNCHANGED <<handler, wait_mask, attached, bits>> /\ Runs(t, "guest")
        /\ WaitUnblocked \/ set \ Unmaskable \subseteq bits[t].mask
    BY <1>5 DEF WaitEnter
  <2>3. Agree(t \in attached, bits[t].mask, wait_mask[t], main[t], handler[t])'
    BY <1>a, <2>1, <2>2 DEF Agree, Runs
  <2> QED BY <2>1, <2>2, <2>3, OwnStep
<1>6. ASSUME NEW t \in Threads, WaitLock(t) PROVE Coherent'
  <2> DEFINE f == main[t]
  <2>1. /\ main'[t].set = f.set /\ \A u \in Threads \ {t} : main'[u] = main[u]
        /\ \A u \in Threads \ {t} : wait_mask'[u] = wait_mask[u]
        /\ \/ main'[t].pc = "consume" /\ wait_mask'[t] = wait_mask[t]
           \/ main'[t].pc = "asleep" /\ wait_mask'[t] = f.set
    <3>1. /\ [f EXCEPT !.pc = "consume", !.old = bits[t]].pc = "consume"
          /\ [f EXCEPT !.pc = "consume", !.old = bits[t]].set = f.set
          /\ [f EXCEPT !.pc = "asleep"].pc = "asleep" /\ [f EXCEPT !.pc = "asleep"].set = f.set
      BY <1>a DEF Main
    <3> QED BY <1>6, <3>1 DEF WaitLock
  <2>2. UNCHANGED <<handler, attached, bits>> /\ Runs(t, "entered")
    BY <1>6 DEF WaitLock
  <2>3. Agree(t \in attached, bits[t].mask, wait_mask[t], main[t], handler[t])'
    BY <1>a, <2>1, <2>2 DEF Agree, Runs
  <2> QED BY <2>1, <2>2, <2>3, OwnStep
<1>7. ASSUME NEW t \in Threads, WaitWake(t) PROVE Coherent'
  <2> DEFINE f == main[t]
  <2>1. /\ main'[t].set = f.set /\ main'[t].pc = "consume" /\ wait_mask'[t] = {}
        /\ \A u \in Threads \ {t} : main'[u] = main[u] /\ wait_mask'[u] = wait_mask[u]
    <3>1. /\ [f EXCEPT !.pc = "consume", !.old = bits[t]].pc = "consume"
          /\ [f EXCEPT !.pc = "consume", !.old = bits[t]].set = f.set
      BY <1>a DEF Main
    <3> QED BY <1>7, <3>1 DEF WaitWake
  <2>2. UNCHANGED <<handler, attached, bits>> /\ Runs(t, "asleep")
    BY <1>7 DEF WaitWake
  <2>3. Agree(t \in attached, bits[t].mask, wait_mask[t], main[t], handler[t])'
    BY <1>a, <2>1, <2>2 DEF Agree, Runs
  <2> QED BY <2>1, <2>2, <2>3, OwnStep
<1>8. ASSUME NEW t \in Threads, WaitConsume(t) PROVE Coherent'
  <2> DEFINE f == main[t]
  <2>1. UNCHANGED <<handler, attached, wait_mask>> /\ Runs(t, "consume")
    BY <1>8 DEF WaitConsume
  <2>2. \A u \in Threads : bits'[u].mask = bits[u].mask
    <3>1. CASE bits' = bits
      BY <3>1
    <3>2. ASSUME NEW n \in pending_set(f.old) \cap f.set, CanExchange(t, f.old),
                 bits' = [bits EXCEPT ![t] = Dequeued(f.old, n)]
          PROVE \A u \in Threads : bits'[u].mask = bits[u].mask
      <4>1. Dequeued(bits[t], n).mask = bits[t].mask
        BY <1>a, <3>2, DequeuedType DEF CanExchange
      <4> QED BY <3>2, <4>1 DEF CanExchange
    <3> QED BY <1>8, <3>1, <3>2 DEF WaitConsume
  <2>3. /\ main'[t].pc = "guest" \/ (main'[t].pc = "consume" /\ main'[t].set = f.set)
        /\ \A u \in Threads \ {t} : main'[u] = main[u]
    <3>1. /\ [f EXCEPT !.old = bits[t]].pc = f.pc /\ [f EXCEPT !.old = bits[t]].set = f.set
          /\ InGuest.pc = "guest"
      BY <1>a DEF Main, InGuest
    <3> QED BY <1>8, <2>1, <3>1 DEF WaitConsume, Runs
  <2>4. Agree(t \in attached, bits[t].mask, wait_mask[t], main[t], handler[t])'
    BY <1>a, <2>1, <2>2, <2>3 DEF Agree, Runs
  <2> QED BY <2>1, <2>2, <2>3, <2>4, OwnStep
<1>9. ASSUME NEW t \in Threads, InterruptEnter(t) PROVE Coherent'
  <2>1. /\ handler'[t].pc = "take" /\ handler'[t].kind = "interrupt"
        /\ handler'[t].entry = bits[t].mask
        /\ \A u \in Threads \ {t} : handler'[u] = handler[u]
    BY <1>9 DEF InterruptEnter, Idle
  <2>2. UNCHANGED <<main, attached, bits, wait_mask>> /\ Handles(t, "idle")
    BY <1>9 DEF InterruptEnter
  <2>3. Agree(t \in attached, bits[t].mask, wait_mask[t], main[t], handler[t])'
    BY <1>a, <2>1, <2>2 DEF Agree, InterruptFrame, Handles
  <2> QED BY <2>1, <2>2, <2>3, OwnStep
<1>10. ASSUME NEW t \in Threads, TakeLoad(t) PROVE Coherent'
  <2> DEFINE h == handler[t]
  <2>1. /\ \/ handler'[t] = Idle
           \/ handler'[t].pc = "taking" /\ handler'[t].entry = h.entry /\ handler'[t].kind = h.kind
        /\ \A u \in Threads \ {t} : handler'[u] = handler[u]
    <3>1. /\ [h EXCEPT !.pc = "taking", !.old = bits[t]].pc = "taking"
          /\ [h EXCEPT !.pc = "taking", !.old = bits[t]].entry = h.entry
          /\ [h EXCEPT !.pc = "taking", !.old = bits[t]].kind = h.kind
      BY <1>a DEF Handler
    <3> QED BY <1>10, <3>1 DEF TakeLoad
  <2>2. UNCHANGED <<main, attached, bits, wait_mask>> /\ Handles(t, "take")
    BY <1>10 DEF TakeLoad
  <2>3. h.kind \in {"interrupt", "fault"} /\ Idle.pc = "idle"
    BY <1>a DEF Handler, Idle
  <2>4. Agree(t \in attached, bits[t].mask, wait_mask[t], main[t], handler[t])'
    BY <1>a, <2>1, <2>2, <2>3 DEF Agree, InterruptFrame, Handles
  <2> QED BY <2>1, <2>2, <2>4, OwnStep
<1>11. ASSUME NEW t \in Threads, TakeExchange(t) PROVE Coherent'
  <2> DEFINE h == handler[t]
             m == Masked(h.old, "block", ActionMask \cup {Interrupt})
  <2>1. /\ UNCHANGED <<attached, wait_mask>> /\ Handles(t, "taking")
        /\ \A u \in Threads \ {t} :
             handler'[u] = handler[u] /\ main'[u] = main[u] /\ bits'[u] = bits[u]
    BY <1>11 DEF TakeExchange
  <2>2. main'[t].pc = main[t].pc /\ main'[t].set = main[t].set
    BY <1>11, <1>a DEF TakeExchange, Main
  <2>3. h.kind \in {"interrupt", "fault"} /\ Idle.pc = "idle"
    BY <1>a DEF Handler, Idle
  <2>4. CASE CanExchange(t, h.old)
    <3>1. /\ handler'[t].pc = "guest" /\ handler'[t].kind = h.kind
          /\ handler'[t].entry = h.entry /\ handler'[t].saved = bits[t].mask
      <4> DEFINE g == [h EXCEPT !.pc = "guest", !.old = Clear, !.saved = h.old.mask]
      <4>1. g.pc = "guest" /\ g.kind = h.kind /\ g.entry = h.entry /\ g.saved = h.old.mask
        BY <1>a DEF Handler
      <4>2. handler'[t] = g
        BY <1>11, <2>4 DEF TakeExchange
      <4> QED BY <2>4, <4>1, <4>2 DEF CanExchange
    <3>2. Interrupt \notin bits[t].mask /\ Interrupt \in pending_set(bits[t])
      BY <1>11, <2>4 DEF TakeExchange, Handles, HandlerHolds, Takable, CanExchange, pending_set
    <3>3. bits'[t].mask \cap Unmaskable = {}
      <4>1. bits[t].mask \cap Unmaskable = {} /\ ActionMask \cup {Interrupt} \in SUBSET Signals
        BY <1>a, Numbers DEF Agree, Signals
      <4>2. m \in Bits /\ m.mask \cap Unmaskable = {} /\ m.count = bits[t].count
        BY <1>a, <2>4, <4>1, MaskedMask, MaskedType DEF CanExchange
      <4>3. Dequeued(m, Interrupt).mask = m.mask
        BY <4>2 DEF Dequeued, Bits
      <4>4. bits'[t] = Dequeued(m, Interrupt)
        BY <1>11, <2>4 DEF TakeExchange
      <4> QED BY <4>2, <4>3, <4>4
    <3>4. Agree(t \in attached, bits[t].mask, wait_mask[t], main[t], handler[t])'
      BY <1>a, <2>1, <2>2, <2>3, <3>1, <3>2, <3>3 DEF Agree, InterruptFrame, Handles
    <3> QED BY <2>1, <3>4, OwnStep
  <2>5. CASE ~CanExchange(t, h.old)
    <3>1. bits' = bits
      BY <1>11, <2>5 DEF TakeExchange
    <3>2. \/ handler'[t] = Idle
          \/ handler'[t].pc = "taking" /\ handler'[t].entry = h.entry /\ handler'[t].kind = h.kind
      <4>1. /\ [h EXCEPT !.old = bits[t]].pc = h.pc /\ [h EXCEPT !.old = bits[t]].entry = h.entry
            /\ [h EXCEPT !.old = bits[t]].kind = h.kind
        BY <1>a DEF Handler
      <4> QED BY <1>11, <2>5, <4>1 DEF TakeExchange, Handles
    <3>3. Agree(t \in attached, bits[t].mask, wait_mask[t], main[t], handler[t])'
      BY <1>a, <2>1, <2>2, <2>3, <3>1, <3>2 DEF Agree, InterruptFrame, Handles
    <3> QED BY <2>1, <3>3, OwnStep
  <2> QED BY <2>4, <2>5
<1>12. ASSUME NEW t \in Threads, NEW n \in Faults, FaultEnter(t, n) PROVE Coherent'
  <2>1. /\ UNCHANGED <<main, attached, bits, wait_mask>> /\ Handles(t, "idle")
        /\ main[t].pc = "guest"
        /\ \A u \in Threads \ {t} : handler'[u] = handler[u]
    BY <1>12 DEF FaultEnter
  <2>2. handler'[t] = handler[t] \/ handler'[t].kind = "fault"
    <3> DEFINE f == [Idle EXCEPT !.pc = "mask", !.kind = "fault", !.goal = "enter",
                            !.old = bits[t], !.how = "block", !.set = ActionMask \cup {n},
                            !.saved = bits[t].mask, !.entry = bits[t].mask]
    <3>1. f.kind = "fault"
      BY DEF Idle
    <3>2. handler' = handler \/ handler' = [handler EXCEPT ![t] = f]
      BY <1>12 DEF FaultEnter
    <3> HIDE DEF f
    <3> QED BY <3>1, <3>2
  <2>3. Agree(t \in attached, bits[t].mask, wait_mask[t], main[t], handler[t])'
    BY <1>a, <2>1, <2>2 DEF Agree, Handles
  <2> QED BY <2>1, <2>3, OwnStep
<1>13. ASSUME NEW t \in Threads, NEW how \in Hows, NEW set \in Masks, HandlerCall(t, how, set)
       PROVE Coherent'
  <2> DEFINE h == handler[t]
             g == [h EXCEPT !.pc = "mask", !.goal = "call", !.old = bits[t], !.how = how, !.set = set]
  <2>1. /\ UNCHANGED <<main, attached, bits, wait_mask>> /\ Handles(t, "guest")
        /\ handler'[t] = g /\ \A u \in Threads \ {t} : handler'[u] = handler[u]
    BY <1>13 DEF HandlerCall
  <2>2. /\ g.pc = "mask" /\ g.goal = "call" /\ g.kind = h.kind /\ g.entry = h.entry
        /\ g.saved = h.saved
    BY <1>a DEF Handler
  <2> HIDE DEF g
  <2>3. Agree(t \in attached, bits[t].mask, wait_mask[t], main[t], handler[t])'
    BY <1>a, <2>1, <2>2 DEF Agree, InterruptFrame, Handles
  <2> QED BY <2>1, <2>3, OwnStep
<1>14. ASSUME NEW t \in Threads, HandlerReturn(t) PROVE Coherent'
  <2> DEFINE h == handler[t]
  <2>1. /\ UNCHANGED <<main, attached, bits, wait_mask>> /\ Handles(t, "guest")
        /\ \A u \in Threads \ {t} : handler'[u] = handler[u]
    BY <1>14 DEF HandlerReturn
  <2>2. PICK set \in IF h.kind = "fault" THEN Masks \cup {h.saved} ELSE {h.saved} :
          handler'[t] = [h EXCEPT !.pc = "mask", !.goal = "restore", !.old = bits[t],
                                  !.how = RestoredHow(h), !.set = set]
    BY <1>14 DEF HandlerReturn
  <2>3. /\ handler'[t].pc = "mask" /\ handler'[t].goal = "restore" /\ handler'[t].how = "set"
        /\ handler'[t].kind = h.kind /\ handler'[t].entry = h.entry
        /\ handler'[t].saved = h.saved /\ handler'[t].set = set
    BY <1>a, <2>2 DEF Handler, RestoredHow
  <2>4. Agree(t \in attached, bits[t].mask, wait_mask[t], main[t], handler[t])'
    BY <1>a, <2>1, <2>2, <2>3 DEF Agree, InterruptFrame, Handles
  <2> QED BY <2>1, <2>4, OwnStep
<1>15. ASSUME NEW t \in Threads, HandlerExchange(t) PROVE Coherent'
  <2> DEFINE h == handler[t]
             b == Masked(h.old, h.how, h.set)
  <2>1. /\ UNCHANGED <<main, attached, wait_mask>> /\ Handles(t, "mask")
        /\ \A u \in Threads \ {t} : handler'[u] = handler[u] /\ bits'[u] = bits[u]
    BY <1>15 DEF HandlerExchange
  <2>2. h.kind \in {"interrupt", "fault"} /\ Idle.pc = "idle"
        /\ h.goal \in {"call", "enter", "restore"}
    BY <1>a DEF Handler, Idle
  <2>3. CASE CanExchange(t, h.old) /\ ~MaskRefused(t, h)
    <3>1. bits'[t] = b /\ handler'[t] = (IF Tells(h) THEN [h EXCEPT !.pc = "tell"] ELSE Continued(h))
      BY <1>15, <2>3 DEF HandlerExchange
    <3>2. /\ b.mask \cap Unmaskable = {}
          /\ h.how = "set" => b.mask = h.set \ Unmaskable
      <4>1. bits[t].mask \cap Unmaskable = {}
        BY <1>a DEF Agree
      <4> QED BY <1>a, <2>3, <4>1, MaskedMask DEF CanExchange
    <3>3. /\ [h EXCEPT !.pc = "tell"].pc = "tell" /\ [h EXCEPT !.pc = "tell"].kind = h.kind
          /\ [h EXCEPT !.pc = "tell"].goal = h.goal /\ [h EXCEPT !.pc = "tell"].entry = h.entry
          /\ [h EXCEPT !.pc = "tell"].saved = h.saved
      BY <1>a DEF Handler
    <3>4. h.goal = "restore" /\ h.kind = "interrupt" => b.mask = h.entry
      <4> SUFFICES ASSUME h.goal = "restore", h.kind = "interrupt" PROVE b.mask = h.entry
        OBVIOUS
      <4>1. InterruptFrame(h, bits[t].mask) /\ h.pc = "mask"
        BY <1>a, <2>1 DEF Agree, Handles
      <4>2. h.set = h.entry /\ h.how = "set" /\ h.entry \cap Unmaskable = {}
        BY <4>1 DEF InterruptFrame
      <4>3. b.mask = h.set \ Unmaskable
        BY <3>2, <4>2
      <4> HIDE DEF b
      <4> QED BY <4>2, <4>3
    <3> HIDE DEF b
    <3>5. CASE Tells(h)
      <4>1. Agree(t \in attached, bits[t].mask, wait_mask[t], main[t], handler[t])'
        BY <1>a, <2>1, <2>2, <3>1, <3>2, <3>3, <3>4, <3>5 DEF Agree, InterruptFrame, Handles
      <4> QED BY <2>1, <4>1, OwnStep
    <3>6. CASE ~Tells(h)
      <4>1. handler'[t] = Continued(h)
        BY <3>1, <3>6
      <4>2. Agree(t \in attached, bits[t].mask, wait_mask[t], main[t], handler[t])'
        BY <1>a, <2>1, <2>2, <3>1, <3>2, <3>4, <4>1, ContinuedFields
        DEF Agree, InterruptFrame, Handles
      <4> QED BY <2>1, <4>2, OwnStep
    <3> QED BY <3>5, <3>6
  <2>4. CASE ~(CanExchange(t, h.old) /\ ~MaskRefused(t, h))
    <3>1. /\ bits' = bits
          /\ \/ handler'[t] = Continued(h) /\ h.goal = "call"
             \/ handler'[t] = h \/ handler'[t] = [h EXCEPT !.old = bits[t]]
      BY <1>15, <2>4 DEF HandlerExchange
    <3>2. CASE handler'[t] = Continued(h) /\ h.goal = "call"
      <4>1. Agree(t \in attached, bits[t].mask, wait_mask[t], main[t], handler[t])'
        BY <1>a, <2>1, <2>2, <3>1, <3>2, ContinuedFields DEF Agree, InterruptFrame, Handles
      <4> QED BY <2>1, <4>1, OwnStep
    <3>3. CASE handler'[t] = h \/ handler'[t] = [h EXCEPT !.old = bits[t]]
      <4>1. /\ handler'[t].pc = h.pc /\ handler'[t].kind = h.kind /\ handler'[t].goal = h.goal
            /\ handler'[t].entry = h.entry /\ handler'[t].saved = h.saved
            /\ handler'[t].set = h.set /\ handler'[t].how = h.how
        BY <1>a, <3>3 DEF Handler
      <4>2. Agree(t \in attached, bits[t].mask, wait_mask[t], main[t], handler[t])'
        BY <1>a, <2>1, <3>1, <4>1 DEF Agree, InterruptFrame, Handles
      <4> QED BY <2>1, <4>2, OwnStep
    <3> QED BY <3>1, <3>2, <3>3
  <2> QED BY <2>3, <2>4
<1>16. ASSUME NEW t \in Threads, HandlerTell(t) PROVE Coherent'
  <2> DEFINE h == handler[t]
  <2>1. /\ UNCHANGED <<main, attached, bits, wait_mask>> /\ Handles(t, "tell")
        /\ handler'[t] = Continued(h) /\ \A u \in Threads \ {t} : handler'[u] = handler[u]
    BY <1>16 DEF HandlerTell
  <2>2. h.kind \in {"interrupt", "fault"} /\ Idle.pc = "idle"
        /\ h.goal \in {"call", "enter", "restore"}
    BY <1>a DEF Handler, Idle
  <2>3. Agree(t \in attached, bits[t].mask, wait_mask[t], main[t], handler[t])'
    BY <1>a, <2>1, <2>2, ContinuedFields DEF Agree, InterruptFrame, Handles
  <2> QED BY <2>1, <2>3, OwnStep
<1>17. ASSUME NEW t \in Threads, NEW mask \in SUBSET Signals, Attached(t, mask) PROVE Coherent'
  <2>1. /\ UNCHANGED <<main, handler, wait_mask>> /\ t \notin attached
        /\ \A u \in Threads \ {t} : bits'[u] = bits[u] /\ (u \in attached' <=> u \in attached)
        /\ bits'[t].mask = mask \ Unmaskable
    BY <1>17 DEF Attached, Clear
  <2>2. Agree(t \in attached, bits[t].mask, wait_mask[t], main[t], handler[t])'
    BY <1>a, <2>1 DEF Agree
  <2> QED BY <2>1, <2>2, OwnStep
<1>18. ASSUME NEW t \in Threads, Detach(t) PROVE Coherent'
  <2>1. /\ UNCHANGED <<main, handler, wait_mask>> /\ Runs(t, "guest")
        /\ \A u \in Threads \ {t} : bits'[u] = bits[u] /\ (u \in attached' <=> u \in attached)
        /\ bits'[t].mask = {}
    BY <1>18 DEF Detach, Clear
  <2>2. Agree(t \in attached, bits[t].mask, wait_mask[t], main[t], handler[t])'
    BY <1>a, <2>1 DEF Agree, Runs
  <2> QED BY <2>1, <2>2, OwnStep
<1>19. CASE UNCHANGED <<attached, bits, wait_mask, main, handler>>
  BY <1>19 DEF Coherent, Agree
<1>20. ASSUME NEW t \in Threads, Bind(t) \/ Unbind(t) \/ WaitRecheck(t) PROVE Coherent'
  BY <1>19, <1>20 DEF Bind, Unbind, WaitRecheck
<1>21. CASE Destroy \/ UNCHANGED vars
  BY <1>19, <1>21 DEF Destroy, vars
<1>22. ASSUME NEW t \in Threads, NEW set \in Masks, Attach(t, set) PROVE Coherent'
  BY <1>17, <1>22, Numbers DEF Attach
<1>23. ASSUME NEW p \in Threads, NEW t \in Threads, Inherit(p, t) PROVE Coherent'
  BY <1>17, <1>23, <1>a DEF Inherit
<1> HIDE DEF TypeOK
<1> QED
  BY <1>1, <1>2, <1>3, <1>4, <1>5, <1>6, <1>7, <1>8, <1>9, <1>10, <1>11, <1>12, <1>13,
     <1>14, <1>15, <1>16, <1>18, <1>20, <1>21, <1>22, <1>23
  DEF Next, ThreadStep

\* In every reachable state each thread's mask, main code and handler agree.
LEMMA CoherentAlways == Spec => [](IInv /\ Coherent)
<1>1. Init => Coherent
  BY DEF Init, Coherent, Agree, Clear, InGuest, Idle
<1>2. IInv /\ Coherent /\ [Next]_vars => Coherent'
  BY CoherentStep DEF IInv
<1> QED BY <1>1, <1>2, Inductive, PTL DEF Spec

----------------------------------------------------------------------------
(* The interrupted code finds its mask.                                    *)

\* The steps at which a handler may end.
LEMMA HandlerEnds ==
  ASSUME TypeOK, HandlerHolds, [Next]_vars, NEW t \in Threads,
         handler[t].pc # "idle", handler'[t].pc = "idle"
  PROVE TakeLoad(t) \/ TakeExchange(t) \/ HandlerExchange(t) \/ HandlerTell(t)
<1> USE DEF TypeOK
<1>1. handler' # handler
  OBVIOUS
<1>2. ASSUME NEW u \in Threads, InterruptEnter(u) PROVE FALSE
  <2>1. Handles(u, "idle") /\ handler' = [handler EXCEPT ![u] =
          [Idle EXCEPT !.pc = "take", !.entry = bits[u].mask]]
    BY <1>2 DEF InterruptEnter
  <2>2. [Idle EXCEPT !.pc = "take", !.entry = bits[u].mask].pc = "take"
    BY DEF Idle
  <2> QED BY <2>1, <2>2
<1>3. ASSUME NEW u \in Threads, NEW n \in Faults, FaultEnter(u, n) PROVE FALSE
  <2>1. Handles(u, "idle") /\ \A v \in Threads \ {u} : handler'[v] = handler[v]
    BY <1>3 DEF FaultEnter
  <2> QED BY <2>1 DEF FaultEnter, Handles
<1>4. ASSUME NEW u \in Threads, NEW how, NEW set, HandlerCall(u, how, set) PROVE FALSE
  <2>1. \A h \in Handler : [h EXCEPT !.pc = "mask", !.goal = "call", !.old = bits[u],
                                     !.how = how, !.set = set].pc = "mask"
    BY DEF Handler
  <2> QED BY <1>4, <2>1 DEF HandlerCall
<1>5. ASSUME NEW u \in Threads, HandlerReturn(u) PROVE FALSE
  <2>1. \A h \in Handler : \A how, set :
          [h EXCEPT !.pc = "mask", !.goal = "restore", !.old = bits[u],
                    !.how = how, !.set = set].pc = "mask"
    BY DEF Handler
  <2>2. PICK set : handler' = [handler EXCEPT ![u] =
          [@ EXCEPT !.pc = "mask", !.goal = "restore", !.old = bits[u],
                    !.how = RestoredHow(handler[u]), !.set = set]]
    BY <1>5 DEF HandlerReturn
  <2> QED BY <2>1, <2>2
<1>6. ASSUME NEW u \in Threads,
             TakeLoad(u) \/ TakeExchange(u) \/ HandlerExchange(u) \/ HandlerTell(u)
      PROVE u = t
  BY <1>6 DEF TakeLoad, TakeExchange, HandlerExchange, HandlerTell
<1>7. ASSUME NEW u \in Threads,
             \/ Bind(u) \/ Unbind(u) \/ Detach(u) \/ SendExchange(u) \/ SendKick(u)
             \/ MaskExchange(u) \/ MaskTell(u) \/ WaitLock(u) \/ WaitWake(u)
             \/ WaitRecheck(u) \/ WaitConsume(u)
      PROVE FALSE
  BY <1>1, <1>7 DEF Bind, Unbind, Detach, SendExchange, SendKick, MaskExchange, MaskTell,
     WaitLock, WaitWake, WaitRecheck, WaitConsume
<1>8. ASSUME NEW u \in Threads, NEW v, NEW n, NEW set, NEW x,
             \/ SendLoad(u, v, n) \/ MaskLoad(u, x, set) \/ WaitEnter(u, set, x)
             \/ Attach(u, set) \/ Inherit(u, v)
      PROVE FALSE
  BY <1>1, <1>8 DEF SendLoad, MaskLoad, WaitEnter, Attach, Inherit, Attached
<1>9. CASE Destroy \/ UNCHANGED vars
  BY <1>1, <1>9 DEF Destroy, vars
<1> HIDE DEF TypeOK
<1> QED BY <1>2, <1>3, <1>4, <1>5, <1>6, <1>7, <1>8, <1>9 DEF Next, ThreadStep

LEMMA RestoredStep ==
  ASSUME IInv, Coherent, [Next]_vars, NEW t \in Threads,
         handler[t].pc # "idle", handler[t].kind = "interrupt", handler'[t].pc = "idle"
  PROVE bits'[t].mask = handler[t].entry
<1> DEFINE h == handler[t]
<1>1. TypeOK /\ HandlerHolds
  BY DEF IInv
<1>2. /\ h \in Handler /\ bits[t] \in Bits /\ InterruptFrame(h, bits[t].mask)
      /\ bits[t].mask \cap Unmaskable = {} /\ bits \in [Threads -> Bits]
      /\ handler \in [Threads -> Handler] /\ h.set \in SUBSET Signals
  BY <1>1 DEF TypeOK, Coherent, Agree, Handler
<1>3. CASE TakeLoad(t)
  BY <1>2, <1>3 DEF TakeLoad, Handles, InterruptFrame
<1>4. CASE TakeExchange(t)
  <2>1. h.pc = "taking"
    BY <1>4 DEF TakeExchange, Handles
  <2>2. CASE bits' = bits
    BY <1>2, <2>1, <2>2 DEF InterruptFrame
  <2>3. CASE handler'[t] = [h EXCEPT !.pc = "guest", !.old = Clear, !.saved = h.old.mask]
    BY <1>2, <2>3 DEF Handler
  <2> QED BY <1>2, <1>4, <2>2, <2>3 DEF TakeExchange
<1>5. CASE HandlerExchange(t)
  <2>1. h.pc = "mask"
    BY <1>5 DEF HandlerExchange, Handles
  <2>2. h.goal # "restore" => Continued(h).pc = "guest"
    BY <1>2, ContinuedFields
  <2>3. [h EXCEPT !.pc = "tell"].pc # "idle" /\ [h EXCEPT !.old = bits[t]].pc # "idle"
    BY <1>2, <2>1 DEF Handler
  <2>4. /\ h.goal = "restore" /\ CanExchange(t, h.old)
        /\ bits'[t] = Masked(h.old, h.how, h.set)
    BY <1>2, <1>5, <2>2, <2>3 DEF HandlerExchange
  <2>5. h.set = h.entry /\ h.how = "set" /\ h.entry \cap Unmaskable = {}
    BY <1>2, <2>1, <2>4 DEF InterruptFrame
  <2>6. Masked(bits[t], h.how, h.set).mask = h.set \ Unmaskable
    BY <1>2, <2>5, MaskedMask
  <2>7. bits'[t].mask = h.entry \ Unmaskable
    BY <2>4, <2>5, <2>6 DEF CanExchange
  <2> QED BY <2>5, <2>7
<1>6. CASE HandlerTell(t)
  <2>1. h.pc = "tell" /\ handler'[t] = Continued(h) /\ bits' = bits
    BY <1>2, <1>6 DEF HandlerTell, Handles
  <2>2. h.goal = "restore"
    BY <1>2, <2>1, ContinuedFields
  <2> QED BY <1>2, <2>1, <2>2 DEF InterruptFrame
<1> QED BY <1>1, <1>3, <1>4, <1>5, <1>6, HandlerEnds

\* deliver_interrupt gives the code it interrupted the mask that code had, however
\* many interrupts it drained and whatever the guest's handlers and the senders did
\* in between.
THEOREM MaskComesBack == Spec => MaskRestored
<1> DEFINE Back(t) ==
      handler[t].pc # "idle" /\ handler[t].kind = "interrupt" /\ handler'[t].pc = "idle" =>
        bits'[t].mask = handler[t].entry
<1>1. IInv /\ Coherent /\ [Next]_vars => [\A t \in Threads : Back(t)]_vars
  BY RestoredStep
<1> QED BY <1>1, CoherentAlways, PTL DEF Spec, MaskRestored

----------------------------------------------------------------------------
(* No accepted signal is out of reach.                                     *)

\* A standard signal that is pending and unblocked is being waited for.
Awaited(b, awaited, m) ==
  \A n \in b.std \ b.mask : n \in awaited \/ (m.pc = "consume" /\ n \in m.set)

LEMMA StrandedOwnStep ==
  ASSUME NotStranded, NEW t \in Threads,
         \A u \in Threads \ {t} :
           /\ main'[u] = main[u] /\ bits'[u] = bits[u] /\ wait_mask'[u] = wait_mask[u]
           /\ u \in attached' => u \in attached,
         attached' \subseteq Threads,
         t \in attached' => Awaited(bits'[t], wait_mask'[t], main'[t])
  PROVE NotStranded'
  BY DEF NotStranded, Awaited

\* What a mask change that is not refused leaves exposed.
LEMMA NotRefused ==
  ASSUME NEW t, NEW f, f.old \in Bits, f.set \in SUBSET Signals, ~MaskRefused(t, f)
  PROVE LET b == Masked(f.old, f.how, f.set)
        IN b.std \subseteq b.mask /\ (Takable(b) => Tells(f))
<1> DEFINE b == Masked(f.old, f.how, f.set)
<1>1. b \in Bits
  BY MaskedType
<1>2. Exposed(b) = {} \/ Exposed(b) \ {Interrupt} = {}
  BY DEF MaskRefused
<1> HIDE DEF b
<1>3. b.std \subseteq b.mask
  BY <1>1, <1>2, Numbers DEF Exposed, pending_set, Bits
<1>4. Takable(b) => Exposed(b) # {}
  BY DEF Takable, Exposed, pending_set
<1> QED BY <1>3, <1>4 DEF Tells, b

\* While guests wait for signals they block, a standard signal is stranded by no
\* step: a send finds its target blocking or awaiting the signal, a mask change is
\* refused, and a wait ends over the mask it began with.
LEMMA StrandedStep ==
  ~WaitUnblocked /\ IInv /\ Coherent /\ NotStranded /\ [Next]_vars => NotStranded'
<1> SUFFICES ASSUME ~WaitUnblocked, IInv, Coherent, NotStranded, [Next]_vars
             PROVE NotStranded'
  OBVIOUS
<1>0. TypeOK /\ SenderHolds /\ HandlerHolds /\ TypeOK'
  BY TypeOKStep DEF IInv
<1>a. /\ bits \in [Threads -> Bits] /\ wait_mask \in [Threads -> SUBSET Signals]
      /\ main \in [Threads -> Main] /\ handler \in [Threads -> Handler]
      /\ attached \subseteq Threads /\ attached' \subseteq Threads
      /\ \A t \in Threads :
           /\ main[t].old \in Bits /\ handler[t].old \in Bits
           /\ main[t].set \in SUBSET Signals /\ handler[t].set \in SUBSET Signals
           /\ Agree(t \in attached, bits[t].mask, wait_mask[t], main[t], handler[t])
           /\ t \in attached => Awaited(bits[t], wait_mask[t], main[t])
  BY <1>0 DEF TypeOK, Main, Handler, Coherent, NotStranded, Awaited
<1>t. /\ bits \in [Threads -> Bits] /\ wait_mask \in [Threads -> SUBSET Signals]
      /\ main \in [Threads -> Main] /\ handler \in [Threads -> Handler]
      /\ attached \subseteq Threads
  BY <1>a
<1>1. ASSUME NEW s \in Threads, SendExchange(s) PROVE NotStranded'
  <2> DEFINE f == main[s]
             t == f.target
  <2>1. /\ Runs(s, "send") /\ t \in Threads /\ f.signal \in Signals
        /\ Accepts(t, f.signal, f.old) /\ UNCHANGED <<attached, wait_mask>>
        /\ \A u \in Threads \ {s} : main'[u] = main[u]
    BY <1>t, <1>0, <1>1 DEF SendExchange, Runs, SenderHolds
  <2>2. main[s].pc # "consume"
    BY <2>1 DEF Runs
  <2>3. CASE bits' = bits
    BY <1>t, <2>1, <2>2, <2>3 DEF NotStranded
  <2>4. CASE CanExchange(t, f.old) /\ bits' = [bits EXCEPT ![t] = Enqueued(f.old, f.signal)]
    <3> DEFINE b == Enqueued(bits[t], f.signal)
    <3>1. b.mask = bits[t].mask /\ b.std \subseteq bits[t].std \cup {f.signal}
      BY <1>a, <2>1 DEF Enqueued, Bits
    <3>2. f.signal \in b.std \ bits[t].std => f.signal \in bits[t].mask \cup wait_mask[t]
      <4>1. CASE f.signal = Interrupt
        BY <1>a, <4>1 DEF Enqueued, Bits
      <4>2. CASE f.signal # Interrupt
        BY <2>1, <2>4, <4>2 DEF Accepts, CanExchange
      <4> QED BY <4>1, <4>2
    <3>3. bits'[t] = b /\ \A u \in Threads \ {t} : bits'[u] = bits[u]
      BY <1>a, <2>1, <2>4 DEF CanExchange
    <3> HIDE DEF b
    <3> QED BY <1>a, <2>1, <2>2, <3>1, <3>2, <3>3 DEF NotStranded, Awaited
  <2> QED BY <1>1, <2>3, <2>4 DEF SendExchange
<1>2. ASSUME NEW t \in Threads, MaskExchange(t) PROVE NotStranded'
  <2> DEFINE f == main[t]
             b == Masked(f.old, f.how, f.set)
  <2>1. /\ Runs(t, "mask") /\ UNCHANGED <<attached, wait_mask>>
        /\ \A u \in Threads \ {t} : main'[u] = main[u] /\ bits'[u] = bits[u]
    BY <1>t, <1>2 DEF MaskExchange
  <2>2. CASE bits' = bits
    <3>1. main[t].pc # "consume"
      BY <2>1 DEF Runs
    <3> QED BY <1>t, <2>1, <2>2, <3>1 DEF NotStranded
  <2>3. CASE ~MaskRefused(t, f) /\ bits' = [bits EXCEPT ![t] = b]
    <3>1. b.std \subseteq b.mask
      BY <1>a, <2>3, NotRefused
    <3>2. Awaited(bits'[t], wait_mask'[t], main'[t])
      BY <1>a, <2>3, <3>1 DEF Awaited
    <3> QED BY <1>a, <2>1, <3>2, StrandedOwnStep
  <2> QED BY <1>2, <2>2, <2>3 DEF MaskExchange
<1>3. ASSUME NEW t \in Threads, HandlerExchange(t) PROVE NotStranded'
  <2> DEFINE f == handler[t]
             b == Masked(f.old, f.how, f.set)
  <2>1. /\ UNCHANGED <<attached, wait_mask, main>>
        /\ \A u \in Threads \ {t} : bits'[u] = bits[u]
    BY <1>t, <1>3 DEF HandlerExchange
  <2>2. CASE bits' = bits
    BY <2>1, <2>2 DEF NotStranded
  <2>3. CASE ~MaskRefused(t, f) /\ bits' = [bits EXCEPT ![t] = b]
    <3>1. b.std \subseteq b.mask
      BY <1>a, <2>3, NotRefused
    <3>2. Awaited(bits'[t], wait_mask'[t], main'[t])
      BY <1>a, <2>3, <3>1 DEF Awaited
    <3> QED BY <1>a, <2>1, <3>2, StrandedOwnStep
  <2> QED BY <1>3, <2>2, <2>3 DEF HandlerExchange
<1>4. ASSUME NEW t \in Threads, TakeExchange(t) PROVE NotStranded'
  <2> DEFINE h == handler[t]
             m == Masked(h.old, "block", ActionMask \cup {Interrupt})
  <2>1. /\ UNCHANGED <<attached, wait_mask>> /\ Handles(t, "taking")
        /\ \A u \in Threads \ {t} : main'[u] = main[u] /\ bits'[u] = bits[u]
        /\ main'[t].pc = main[t].pc /\ main'[t].set = main[t].set
    BY <1>4, <1>a DEF TakeExchange, Main
  <2>2. bits[t].mask \subseteq bits'[t].mask /\ bits'[t].std = bits[t].std
    <3>1. CASE bits' = bits
      BY <3>1
    <3>2. CASE bits' = [bits EXCEPT ![t] = Dequeued(m, Interrupt)] /\ CanExchange(t, h.old)
      <4>1. bits[t].mask \subseteq m.mask /\ m.std = bits[t].std /\ m \in Bits
        BY <1>a, <3>2, Numbers, MaskedType DEF CanExchange, Masked, Bits, Signals
      <4>2. Dequeued(m, Interrupt).mask = m.mask /\ Dequeued(m, Interrupt).std = m.std
        BY <4>1 DEF Dequeued, Bits
      <4> QED BY <1>a, <3>2, <4>1, <4>2
    <3> QED BY <1>4, <3>1, <3>2 DEF TakeExchange
  <2>3. t \in attached' => Awaited(bits'[t], wait_mask'[t], main'[t])
    BY <1>a, <2>1, <2>2 DEF Awaited
  <2> QED BY <1>a, <2>1, <2>3, StrandedOwnStep
<1>5. ASSUME NEW t \in Threads, WaitConsume(t) PROVE NotStranded'
  <2> DEFINE f == main[t]
  <2>1. /\ UNCHANGED <<attached, wait_mask>> /\ Runs(t, "consume")
        /\ \A u \in Threads \ {t} : main'[u] = main[u] /\ bits'[u] = bits[u]
    BY <1>t, <1>5 DEF WaitConsume
  <2>2. bits[t].std \subseteq bits[t].mask
    <3>1. wait_mask[t] = {} /\ f.set \subseteq bits[t].mask
      BY <1>a, <2>1 DEF Agree, Runs
    <3> QED BY <1>a, <2>1, <3>1 DEF Awaited, Runs
  <2>3. bits'[t].std \subseteq bits[t].std /\ bits'[t].mask = bits[t].mask
    <3>1. CASE bits' = bits
      BY <3>1
    <3>2. ASSUME NEW n \in pending_set(f.old) \cap f.set, CanExchange(t, f.old),
                 bits' = [bits EXCEPT ![t] = Dequeued(f.old, n)]
          PROVE bits'[t].std \subseteq bits[t].std /\ bits'[t].mask = bits[t].mask
      <4>1. Dequeued(bits[t], n).mask = bits[t].mask /\ Dequeued(bits[t], n).std \subseteq bits[t].std
        BY <1>a DEF Dequeued, Bits
      <4> QED BY <1>a, <3>2, <4>1 DEF CanExchange
    <3> QED BY <1>5, <3>1, <3>2 DEF WaitConsume
  <2>4. Awaited(bits'[t], wait_mask'[t], main'[t])
    BY <2>2, <2>3 DEF Awaited
  <2> QED BY <1>a, <2>1, <2>4, StrandedOwnStep
<1>6. ASSUME NEW t \in Threads, WaitLock(t) PROVE NotStranded'
  <2>1. /\ UNCHANGED <<attached, bits>> /\ Runs(t, "entered")
        /\ \A u \in Threads \ {t} : main'[u] = main[u] /\ wait_mask'[u] = wait_mask[u]
    BY <1>t, <1>6 DEF WaitLock
  <2>2. bits[t].std \subseteq bits[t].mask
    <3>1. wait_mask[t] = {}
      BY <1>a, <2>1 DEF Agree, Runs
    <3> QED BY <1>a, <2>1, <3>1 DEF Awaited, Runs
  <2>3. Awaited(bits'[t], wait_mask'[t], main'[t])
    BY <2>1, <2>2 DEF Awaited
  <2> QED BY <1>a, <2>1, <2>3, StrandedOwnStep
<1>7. ASSUME NEW t \in Threads, WaitWake(t) PROVE NotStranded'
  <2> DEFINE f == main[t]
  <2>1. /\ UNCHANGED <<attached, bits>> /\ Runs(t, "asleep")
        /\ \A u \in Threads \ {t} : main'[u] = main[u] /\ wait_mask'[u] = wait_mask[u]
    BY <1>t, <1>7 DEF WaitWake
  <2>2. main'[t].set = f.set /\ main'[t].pc = "consume"
    <3>1. /\ [f EXCEPT !.pc = "consume", !.old = bits[t]].pc = "consume"
          /\ [f EXCEPT !.pc = "consume", !.old = bits[t]].set = f.set
      BY <1>a DEF Main
    <3> QED BY <1>7, <1>a, <3>1 DEF WaitWake
  <2>3. wait_mask[t] = f.set
    BY <1>a, <2>1 DEF Agree, Runs
  <2>4. t \in attached' => Awaited(bits'[t], wait_mask'[t], main'[t])
    BY <1>a, <2>1, <2>2, <2>3 DEF Awaited, Runs
  <2> QED BY <1>a, <2>1, <2>4, StrandedOwnStep
<1>8. ASSUME NEW t \in Threads, NEW mask, Attached(t, mask) PROVE NotStranded'
  <2>1. /\ UNCHANGED <<wait_mask, main>> /\ bits'[t].std = {}
        /\ \A u \in Threads \ {t} : bits'[u] = bits[u] /\ (u \in attached' => u \in attached)
    BY <1>8, <1>a DEF Attached, Clear
  <2> QED BY <1>a, <2>1, StrandedOwnStep DEF Awaited
<1>9. ASSUME NEW t \in Threads, Detach(t) PROVE NotStranded'
  <2>1. /\ UNCHANGED <<wait_mask, main>> /\ attached' = attached \ {t}
        /\ \A u \in Threads \ {t} : bits'[u] = bits[u]
    BY <1>t, <1>9 DEF Detach
  <2> QED BY <1>a, <2>1 DEF NotStranded
\* The steps that change no signal state and consume nothing.
<1>10. ASSUME NEW t \in Threads, UNCHANGED <<attached, bits, wait_mask>>, main[t].pc # "consume",
              \A u \in Threads \ {t} : main'[u] = main[u]
       PROVE NotStranded'
  BY <1>t, <1>10 DEF NotStranded
<1>11. ASSUME NEW t \in Threads, NEW v, NEW n, NEW set, NEW x,
              \/ SendLoad(t, v, n) \/ MaskLoad(t, x, set) \/ WaitEnter(t, set, x)
              \/ SendKick(t) \/ MaskTell(t)
       PROVE NotStranded'
  <2>1. /\ UNCHANGED <<attached, bits, wait_mask>>
        /\ Runs(t, "guest") \/ Runs(t, "kick") \/ Runs(t, "tell")
        /\ \A u \in Threads \ {t} : main'[u] = main[u]
    BY <1>t, <1>11 DEF SendLoad, MaskLoad, WaitEnter, SendKick, MaskTell
  <2>2. main[t].pc # "consume"
    BY <2>1 DEF Runs
  <2> QED BY <2>1, <2>2, <1>10
<1>12. CASE UNCHANGED <<attached, bits, wait_mask, main>>
  BY <1>12 DEF NotStranded
<1>13. ASSUME NEW t \in Threads, NEW n, NEW how, NEW set,
              \/ InterruptEnter(t) \/ TakeLoad(t) \/ FaultEnter(t, n) \/ HandlerReturn(t)
              \/ HandlerCall(t, how, set) \/ HandlerTell(t)
              \/ Bind(t) \/ Unbind(t) \/ WaitRecheck(t)
       PROVE NotStranded'
  BY <1>12, <1>13 DEF InterruptEnter, TakeLoad, FaultEnter, HandlerReturn, HandlerCall,
     HandlerTell, Bind, Unbind, WaitRecheck
<1>14. CASE Destroy \/ UNCHANGED vars
  BY <1>12, <1>14 DEF Destroy, vars
<1> QED
  BY <1>1, <1>2, <1>3, <1>4, <1>5, <1>6, <1>7, <1>8, <1>9, <1>11, <1>13, <1>14
  DEF Next, ThreadStep, Attach, Inherit

\* What WakeComing says of one thread.
Looks(h) == h.pc \in {"take", "taking", "tell"}
Coming(t) ==
  t \in bound /\ Takable(bits[t]) =>
    \/ t \in wake \/ Looks(handler[t]) \/ main[t].pc = "tell"
    \/ \E s \in Threads : main[s].pc = "kick" /\ main[s].target = t

\* A step that takes no reason away and makes nothing takable.
LEMMA ComingStays ==
  ASSUME NEW t \in Threads, Coming(t), t \in bound' => t \in bound,
         Takable(bits'[t]) => Takable(bits[t]), t \in wake => t \in wake',
         Looks(handler[t]) => Looks(handler'[t]),
         main[t].pc = "tell" => main'[t].pc = "tell",
         \A s \in Threads : main[s].pc = "kick" /\ main[s].target = t =>
                              main'[s].pc = "kick" /\ main'[s].target = t
  PROVE Coming(t)'
  BY DEF Coming

\* The step of a thread that touches only its own state, and is no sender.
LEMMA ComingOwnStep ==
  ASSUME WakeComing, NEW t \in Threads, bound' \subseteq Threads,
         \A u \in Threads \ {t} :
           /\ u \in bound' => u \in bound
           /\ u \in wake => u \in wake'
           /\ bits'[u] = bits[u] /\ handler'[u] = handler[u] /\ main'[u] = main[u],
         main[t].pc # "kick", Coming(t)'
  PROVE WakeComing'
<1>1. ASSUME NEW u \in Threads \ {t} PROVE Coming(u)'
  <2>1. Coming(u)
    BY DEF WakeComing, Coming, Looks
  <2> QED BY <2>1, ComingStays
<1> QED BY <1>1 DEF WakeComing, Coming, Looks

\* An interrupt that a sleeping thread waits for is blocked by it, and no handler
\* that could unblock it runs: the sender need not kick.
LEMMA AwaitedInterrupt ==
  ASSUME ~WaitUnblocked, TypeOK, Coherent, NEW t \in Threads,
         Interrupt \in wait_mask[t], Interrupt \notin bits[t].mask
  PROVE Looks(handler[t])
<1> DEFINE h == handler[t]
           m == main[t]
<1>1. Agree(t \in attached, bits[t].mask, wait_mask[t], m, h) /\ h \in Handler
  BY DEF Coherent, TypeOK
<1>2. m.pc = "asleep" /\ Interrupt \in m.set
  BY <1>1 DEF Agree
<1>3. h.pc # "idle" /\ Interrupt \in h.entry
  BY <1>1, <1>2 DEF Agree
<1>4. h.kind = "interrupt"
  BY <1>1, <1>2, <1>3 DEF Agree, Handler
<1>5. h.pc \in {"guest", "mask", "tell"} => Interrupt \notin h.entry
  BY <1>1, <1>3, <1>4 DEF Agree, InterruptFrame
<1> QED BY <1>1, <1>3, <1>5 DEF Looks, Handler

LEMMA WakeComingStep ==
  ~WaitUnblocked /\ IInv /\ Coherent /\ WakeComing /\ [Next]_vars => WakeComing'
<1> SUFFICES ASSUME ~WaitUnblocked, IInv, Coherent, WakeComing, [Next]_vars
             PROVE WakeComing'
  OBVIOUS
<1>0. TypeOK /\ SenderHolds /\ HandlerHolds /\ AbsentClear /\ TypeOK' /\ WakesBound /\ TellsBound
  BY TypeOKStep DEF IInv
<1>t. /\ bits \in [Threads -> Bits] /\ wait_mask \in [Threads -> SUBSET Signals]
      /\ main \in [Threads -> Main] /\ handler \in [Threads -> Handler]
      /\ attached \subseteq Threads /\ bound \subseteq Threads /\ bound' \subseteq Threads
      /\ wake \subseteq Threads
  BY <1>0 DEF TypeOK
<1>a. \A t \in Threads :
        /\ bits[t] \in Bits /\ main[t] \in Main /\ handler[t] \in Handler
        /\ main[t].old \in Bits /\ handler[t].old \in Bits
        /\ main[t].set \in SUBSET Signals /\ handler[t].set \in SUBSET Signals
        /\ Coming(t)
  BY <1>t DEF Main, Handler, WakeComing, Coming, Looks
<1>1. ASSUME NEW s \in Threads, SendExchange(s) PROVE WakeComing'
  <2> DEFINE f == main[s]
             n == f.signal
  <2>0. PICK t \in Threads : t = f.target
    BY <1>0, <1>1 DEF SendExchange, Runs, SenderHolds
  <2>1. /\ Runs(s, "send") /\ n \in Signals /\ Accepts(t, n, f.old)
        /\ UNCHANGED <<bound, wake, handler>>
        /\ \A u \in Threads \ {s} : main'[u] = main[u]
    BY <2>0, <1>t, <1>0, <1>1 DEF SendExchange, Runs, SenderHolds
  <2>2. f.pc = "send"
    BY <2>1 DEF Runs
  <2>3. ASSUME NEW u \in Threads, Takable(bits'[u]) => Takable(bits[u]) PROVE Coming(u)'
    BY <1>a, <2>1, <2>2, <2>3, ComingStays
  <2>4. CASE bits' = bits
    BY <1>t, <2>3, <2>4 DEF WakeComing, Coming, Looks
  <2>5. CASE /\ CanExchange(t, f.old) /\ bits' = [bits EXCEPT ![t] = Enqueued(f.old, n)]
             /\ Kicks(t, n, f.old) => main' = [main EXCEPT ![s].pc = "kick", ![s].old = Clear]
    <3> DEFINE b == Enqueued(bits[t], n)
    <3>1. bits'[t] = b /\ \A u \in Threads \ {t} : bits'[u] = bits[u]
      BY <1>t, <2>1, <2>5 DEF CanExchange
    <3>2. \A u \in Threads \ {t} : Coming(u)'
      BY <2>3, <3>1
    <3>3. b.mask = bits[t].mask /\ (n # Interrupt => b.count = bits[t].count)
      BY <1>a, <2>1 DEF Enqueued, Bits
    <3>4. Coming(t)'
      <4>1. CASE n # Interrupt
        BY <2>1, <2>3, <3>1, <3>3, <4>1 DEF Takable
      <4>2. CASE Interrupt \in bits[t].mask
        BY <2>1, <2>3, <3>1, <3>3, <4>2 DEF Takable
      <4>3. CASE n = Interrupt /\ Interrupt \notin bits[t].mask /\ t \in bound
                 /\ Interrupt \notin wait_mask[t]
        <5>1. main'[s] = [f EXCEPT !.pc = "kick", !.old = Clear]
          BY <1>t, <2>5, <4>3 DEF Kicks, CanExchange
        <5>2. main'[s].pc = "kick" /\ main'[s].target = t
          BY <1>a, <2>0, <5>1 DEF Main
        <5> QED BY <5>2 DEF Coming
      <4>4. CASE Interrupt \in wait_mask[t] /\ Interrupt \notin bits[t].mask
        <5>1. Looks(handler'[t])
          BY <1>0, <2>1, <4>4, AwaitedInterrupt
        <5> QED BY <5>1 DEF Coming
      <4>5. CASE t \notin bound
        BY <2>1, <4>5 DEF Coming
      <4> QED BY <4>1, <4>2, <4>3, <4>4, <4>5
    <3> QED BY <1>t, <3>2, <3>4 DEF WakeComing, Coming, Looks
  <2> QED BY <1>1, <2>0, <2>4, <2>5 DEF SendExchange
<1>2. ASSUME NEW s \in Threads, SendKick(s) PROVE WakeComing'
  <2>1. /\ UNCHANGED <<bits, bound, handler>> /\ Runs(s, "kick")
        /\ wake' = wake \cup {main[s].target}
        /\ \A u \in Threads \ {s} : main'[u] = main[u]
    BY <1>t, <1>2 DEF SendKick
  <2>2. ASSUME NEW u \in Threads PROVE Coming(u)'
    <3>1. CASE u = main[s].target
      BY <2>1, <3>1 DEF Coming
    <3>2. CASE u # main[s].target
      BY <1>a, <2>1, <3>2, ComingStays DEF Runs
    <3> QED BY <3>1, <3>2
  <2> QED BY <1>t, <2>2 DEF WakeComing, Coming, Looks
<1>3. ASSUME NEW t \in Threads, MaskExchange(t) PROVE WakeComing'
  <2> DEFINE f == main[t]
             b == Masked(f.old, f.how, f.set)
  <2>1. /\ Runs(t, "mask") /\ UNCHANGED <<bound, wake, handler>>
        /\ \A u \in Threads \ {t} : main'[u] = main[u] /\ bits'[u] = bits[u]
    BY <1>t, <1>3 DEF MaskExchange
  <2>2. f.pc = "mask"
    BY <2>1 DEF Runs
  <2>3. Coming(t)'
    <3>1. CASE bits' = bits
      BY <1>a, <2>1, <2>2, <3>1, ComingStays
    <3>2. CASE ~MaskRefused(t, f) /\ bits' = [bits EXCEPT ![t] = b]
               /\ main' = [main EXCEPT ![t] =
                    IF Tells(f) THEN [InGuest EXCEPT !.pc = "tell"] ELSE InGuest]
      <4>1. Takable(b) => Tells(f)
        BY <1>a, <3>2, NotRefused
      <4>2. bits'[t] = b /\ (Tells(f) => main'[t].pc = "tell")
        BY <1>t, <3>2 DEF InGuest
      <4> HIDE DEF b
      <4> QED BY <4>1, <4>2 DEF Coming
    <3> QED BY <1>3, <3>1, <3>2 DEF MaskExchange
  <2> QED BY <1>t, <2>1, <2>2, <2>3, ComingOwnStep
<1>4. ASSUME NEW t \in Threads, MaskTell(t) \/ HandlerTell(t) PROVE WakeComing'
  <2>1. /\ wake' = wake \cup {t} /\ UNCHANGED <<bits, bound>>
        /\ \A u \in Threads \ {t} : main'[u] = main[u] /\ handler'[u] = handler[u]
    BY <1>t, <1>4 DEF MaskTell, HandlerTell
  <2>2. Runs(t, "tell") \/ main' = main
    BY <1>4 DEF MaskTell, HandlerTell
  <2>3. ASSUME NEW u \in Threads PROVE Coming(u)'
    <3>1. CASE u = t
      BY <2>1, <3>1 DEF Coming
    <3>2. CASE u # t
      BY <1>a, <2>1, <2>2, <3>2, ComingStays DEF Runs
    <3> QED BY <3>1, <3>2
  <2> QED BY <1>t, <2>3 DEF WakeComing, Coming, Looks
<1>5. ASSUME NEW t \in Threads, InterruptEnter(t) PROVE WakeComing'
  <2>1. /\ UNCHANGED <<bits, bound, main>> /\ wake' = wake \ {t}
        /\ \A u \in Threads \ {t} : handler'[u] = handler[u]
        /\ handler'[t].pc = "take"
    BY <1>t, <1>5 DEF InterruptEnter, Idle
  <2>2. ASSUME NEW u \in Threads PROVE Coming(u)'
    <3>1. CASE u = t
      BY <2>1, <3>1 DEF Coming, Looks
    <3>2. CASE u # t
      BY <1>a, <2>1, <3>2, ComingStays
    <3> QED BY <3>1, <3>2
  <2> QED BY <1>t, <2>2 DEF WakeComing, Coming, Looks
\* The other steps of a handler: after each it looks for the interrupt, or there is
\* none to take, or it has not touched the state.
<1>h. ASSUME NEW t \in Threads, UNCHANGED <<bound, wake>>,
             \A u \in Threads \ {t} :
               main'[u] = main[u] /\ bits'[u] = bits[u] /\ handler'[u] = handler[u],
             main'[t].pc = main[t].pc, main'[t].target = main[t].target,
             \/ Looks(handler'[t]) \/ ~Takable(bits'[t])
             \/ bits'[t] = bits[t] /\ ~Looks(handler[t])
      PROVE WakeComing'
  <2>1. ASSUME NEW u \in Threads PROVE Coming(u)'
    <3>1. CASE u = t /\ (Looks(handler'[t]) \/ ~Takable(bits'[t]))
      BY <3>1 DEF Coming
    <3>2. CASE u = t /\ bits'[t] = bits[t] /\ ~Looks(handler[t])
      BY <1>h, <1>a, <3>2, ComingStays
    <3>3. CASE u # t
      BY <1>h, <1>a, <3>3, ComingStays
    <3> QED BY <1>h, <3>1, <3>2, <3>3
  <2> QED BY <1>t, <2>1 DEF WakeComing, Coming, Looks
<1>6. ASSUME NEW t \in Threads, TakeLoad(t) PROVE WakeComing'
  <2>1. /\ UNCHANGED <<bits, bound, wake, main>>
        /\ \A u \in Threads \ {t} : handler'[u] = handler[u]
    BY <1>t, <1>6 DEF TakeLoad
  <2>2. Takable(bits[t]) => Looks(handler'[t])
    BY <1>t, <1>6, <1>a DEF TakeLoad, Looks, Handler
  <2> QED BY <2>1, <2>2, <1>h
<1>7. ASSUME NEW t \in Threads, TakeExchange(t) PROVE WakeComing'
  <2> DEFINE h == handler[t]
             m == Masked(h.old, "block", ActionMask \cup {Interrupt})
  <2>1. /\ UNCHANGED <<bound, wake>> /\ h.pc = "taking"
        /\ \A u \in Threads \ {t} :
             main'[u] = main[u] /\ bits'[u] = bits[u] /\ handler'[u] = handler[u]
        /\ main'[t].pc = main[t].pc /\ main'[t].target = main[t].target
    BY <1>7, <1>t, <1>a DEF TakeExchange, Handles, Main
  <2>2. Looks(handler'[t]) \/ ~Takable(bits'[t])
    <3>1. CASE bits' = [bits EXCEPT ![t] = Dequeued(m, Interrupt)]
      <4>1. ActionMask \cup {Interrupt} \in SUBSET Signals /\ Interrupt \notin Unmaskable
        BY Numbers DEF Signals
      <4>2. Interrupt \in m.mask /\ m \in Bits
        BY <1>a, <4>1, MaskedType DEF Masked, Bits
      <4>3. Dequeued(m, Interrupt).mask = m.mask
        BY <4>2 DEF Dequeued, Bits
      <4>4. bits'[t] = Dequeued(m, Interrupt)
        BY <1>t, <3>1
      <4> QED BY <4>2, <4>3, <4>4 DEF Takable
    <3>2. CASE bits' = bits /\ handler' = [handler EXCEPT ![t] =
                 IF Takable(bits[t]) THEN [@ EXCEPT !.old = bits[t]] ELSE Idle]
      <4>1. [h EXCEPT !.old = bits[t]].pc = "taking"
        BY <1>a, <2>1 DEF Handler
      <4> QED BY <1>t, <3>2, <4>1 DEF Looks
    <3> QED BY <1>7, <3>1, <3>2 DEF TakeExchange
  <2> QED BY <2>1, <2>2, <1>h
<1>8. ASSUME NEW t \in Threads, HandlerExchange(t) PROVE WakeComing'
  <2> DEFINE f == handler[t]
             b == Masked(f.old, f.how, f.set)
  <2>1. /\ UNCHANGED <<bound, wake, main>> /\ f.pc = "mask"
        /\ \A u \in Threads \ {t} : bits'[u] = bits[u] /\ handler'[u] = handler[u]
    BY <1>8, <1>t DEF HandlerExchange, Handles
  <2>2. CASE bits' = bits
    BY <2>1, <2>2, <1>h DEF Looks
  <2>3. CASE ~MaskRefused(t, f) /\ bits' = [bits EXCEPT ![t] = b]
             /\ handler' = [handler EXCEPT ![t] =
                  IF Tells(f) THEN [@ EXCEPT !.pc = "tell"] ELSE Continued(f)]
    <3>1. Takable(b) => Tells(f)
      BY <1>a, <2>3, NotRefused
    <3>2. bits'[t] = b
      BY <1>t, <2>3
    <3>3. Tells(f) => handler'[t].pc = "tell"
      <4>1. [f EXCEPT !.pc = "tell"].pc = "tell"
        BY <1>a DEF Handler
      <4> QED BY <1>t, <2>3, <4>1
    <3> HIDE DEF b
    <3>4. Looks(handler'[t]) \/ ~Takable(bits'[t])
      BY <3>1, <3>2, <3>3 DEF Looks
    <3> QED BY <2>1, <3>4, <1>h
  <2> QED BY <1>8, <2>2, <2>3 DEF HandlerExchange
<1>9. ASSUME NEW t \in Threads, NEW n, NEW how, NEW set,
             FaultEnter(t, n) \/ HandlerCall(t, how, set) \/ HandlerReturn(t)
      PROVE WakeComing'
  <2>1. /\ UNCHANGED <<bits, bound, wake, main>> /\ handler[t].pc \in {"idle", "guest"}
        /\ \A u \in Threads \ {t} : handler'[u] = handler[u]
    BY <1>9, <1>t DEF FaultEnter, HandlerCall, HandlerReturn, Handles
  <2> QED BY <2>1, <1>h DEF Looks
<1>10. ASSUME NEW t \in Threads, WaitConsume(t) PROVE WakeComing'
  <2> DEFINE f == main[t]
  <2>1. /\ UNCHANGED <<bound, wake, handler>> /\ Runs(t, "consume")
        /\ \A u \in Threads \ {t} : main'[u] = main[u] /\ bits'[u] = bits[u]
    BY <1>t, <1>10 DEF WaitConsume
  <2>2. Takable(bits'[t]) => Takable(bits[t])
    <3>1. CASE bits' = bits
      BY <3>1
    <3>2. ASSUME NEW n \in pending_set(f.old) \cap f.set, CanExchange(t, f.old),
                 bits' = [bits EXCEPT ![t] = Dequeued(f.old, n)]
          PROVE Takable(bits'[t]) => Takable(bits[t])
      <4>1. /\ Dequeued(bits[t], n).mask = bits[t].mask
            /\ Dequeued(bits[t], n).count <= bits[t].count
            /\ bits[t].count \in Int /\ Dequeued(bits[t], n).count \in Int
        BY <1>a, Numbers DEF Dequeued, Bits
      <4>2. bits'[t] = Dequeued(bits[t], n)
        BY <1>t, <3>2 DEF CanExchange
      <4> QED BY <4>1, <4>2 DEF Takable
    <3> QED BY <1>10, <3>1, <3>2 DEF WaitConsume
  <2>3. Coming(t)'
    BY <1>a, <2>1, <2>2, ComingStays DEF Runs
  <2> QED BY <1>t, <2>1, <2>3, ComingOwnStep DEF Runs
<1>11. ASSUME NEW t \in Threads, Bind(t) PROVE WakeComing'
  <2>1. /\ UNCHANGED <<bits, handler, main>> /\ bound' = bound \cup {t} /\ Runs(t, "guest")
        /\ wake' = IF Takable(bits[t]) THEN wake \cup {t} ELSE wake
    BY <1>11 DEF Bind
  <2>2. Coming(t)'
    BY <2>1 DEF Coming
  <2> QED BY <1>t, <2>1, <2>2, ComingOwnStep DEF Runs
<1>12. ASSUME NEW t \in Threads, Unbind(t) PROVE WakeComing'
  <2>1. /\ UNCHANGED <<bits, handler, main>> /\ bound' = bound \ {t} /\ Runs(t, "guest")
        /\ wake' = wake \ {t}
    BY <1>12 DEF Unbind
  <2>2. Coming(t)'
    BY <2>1 DEF Coming
  <2> QED BY <1>t, <2>1, <2>2, ComingOwnStep DEF Runs
<1>13. ASSUME NEW t \in Threads, NEW mask, Attached(t, mask) \/ Detach(t) PROVE WakeComing'
  <2>1. /\ UNCHANGED <<bound, wake, handler, main>> /\ ~Takable(bits'[t])
        /\ \A u \in Threads \ {t} : bits'[u] = bits[u]
    BY <1>t, <1>13 DEF Attached, Detach, Clear, Takable
  <2> QED BY <2>1, <1>h
\* The steps of a thread's main code that announce nothing and change no state.
<1>14. ASSUME NEW t \in Threads, UNCHANGED <<bits, bound, wake, handler>>,
              main[t].pc \notin {"kick", "tell"}, \A u \in Threads \ {t} : main'[u] = main[u]
       PROVE WakeComing'
  BY <1>t, <1>14 DEF WakeComing
<1>15. ASSUME NEW t \in Threads, NEW v, NEW n, NEW set, NEW x,
              \/ SendLoad(t, v, n) \/ MaskLoad(t, x, set) \/ WaitEnter(t, set, x)
              \/ WaitLock(t) \/ WaitWake(t) \/ WaitRecheck(t)
       PROVE WakeComing'
  <2>1. /\ UNCHANGED <<bits, bound, wake, handler>>
        /\ Runs(t, "guest") \/ Runs(t, "entered") \/ Runs(t, "asleep")
        /\ \A u \in Threads \ {t} : main'[u] = main[u]
    BY <1>t, <1>15 DEF SendLoad, MaskLoad, WaitEnter, WaitLock, WaitWake, WaitRecheck
  <2>2. main[t].pc \notin {"kick", "tell"}
    BY <2>1 DEF Runs
  <2> QED BY <2>1, <2>2, <1>14
<1>16. CASE Destroy \/ UNCHANGED vars
  BY <1>16 DEF Destroy, vars, WakeComing
<1> QED
  BY <1>1, <1>2, <1>3, <1>4, <1>5, <1>6, <1>7, <1>8, <1>9, <1>10, <1>11, <1>12, <1>13,
     <1>15, <1>16
  DEF Next, ThreadStep, Attach, Inherit

\* As long as guests wait only for signals they block (sigtimedwait),
\* no accepted signal is out of reach in signals.cpp: a standard one is blocked or
\* waited for, and an interrupt that its bound thread could take has a wake pending,
\* or about to be issued, or a handler about to look for it.
THEOREM SignalsStayReachable == ~WaitUnblocked => (Spec => []Reachable)
<1> SUFFICES ASSUME ~WaitUnblocked PROVE Spec => []Reachable
  OBVIOUS
<1>1. Init => Reachable
  <2> SUFFICES ASSUME Init PROVE Reachable
    OBVIOUS
  <2> QED BY DEF Init, Reachable, NotStranded, WakeComing
<1>2. IInv /\ Coherent /\ Reachable /\ [Next]_vars => Reachable'
  BY StrandedStep, WakeComingStep DEF Reachable
<1> QED BY <1>1, <1>2, CoherentAlways, PTL DEF Spec
=============================================================================
