------------------------------ MODULE MCFutex ------------------------------
(* Instances of Futex for TLC: the calls the guest issues.                 *)
EXTENDS Futex, TLC

Plain(command, address, value) ==
  [command |-> command, private |-> TRUE, realtime |-> FALSE,
   address |-> address, address2 |-> address, value |-> value, moves |-> 0,
   mask |-> Bits, timeout |-> NoTimeout]

\* Waits, wakes, bitsets and moves between a condition variable's word "A" and
\* a mutex's word "B".
QueueRequests ==
  {Plain("WAIT", "A", 0), Plain("WAKE", "A", 1), Plain("WAKE", "A", 9),
   [Plain("WAIT", "B", 1) EXCEPT !.private = FALSE],
   [Plain("WAIT_BITSET", "A", 0) EXCEPT !.mask = {1}],
   [Plain("WAKE_BITSET", "A", 0) EXCEPT !.mask = {2}],
   [Plain("WAKE", "B", 1) EXCEPT !.private = FALSE],
   [Plain("REQUEUE", "A", 1) EXCEPT !.moves = 1, !.address2 = "B"],
   [Plain("REQUEUE", "B", 0) EXCEPT !.moves = 2, !.address2 = "A"]}

\* No timeout, relative, absolute, realtime and immediate timeouts, and every
\* refused call.
TimeRequests ==
  {[Plain("WAIT", "A", 0) EXCEPT !.timeout = d] : d \in {-3, -2, -1, 0, 1, TimeMax}}
  \cup {[Plain("WAIT_BITSET", "A", 0) EXCEPT !.timeout = 2, !.realtime = r] :
           r \in BOOLEAN}
  \cup {Plain("WAKE", "A", 1), Plain("OTHER", "A", 0),
        [Plain("WAKE_BITSET", "A", 1) EXCEPT !.mask = {}],
        [Plain("WAKE", "A", 1) EXCEPT !.private = FALSE],
        [Plain("WAIT", "A", 0) EXCEPT !.realtime = TRUE],
        [Plain("REQUEUE", "A", 1) EXCEPT !.address2 = "Odd"],
        [Plain("REQUEUE", "High", 1) EXCEPT !.moves = 1],
        [Plain("REQUEUE", "A", -1) EXCEPT !.moves = 1],
        [Plain("REQUEUE", "A", 1) EXCEPT !.private = FALSE]}
=============================================================================
