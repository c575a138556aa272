----------------------------- MODULE MCSignals -----------------------------
(* Instances of Signals for TLC: the owner t1 and the sender t2 it starts. *)
EXTENDS Signals

CONSTANTS t1, t2

\* The owner does everything that touches its own word, the sender what a sender
\* does; one mask with a standard signal and the interrupt, set, blocked and
\* unblocked; waits for either or for both, so that a mask can block one that is not
\* waited for.
Roles == [t \in Threads |->
  IF t = t1
  THEN {"mask", "handler mask", "wait", "bind", "unbind", "fault", "inherit"}
  ELSE {"send", "detach"}]

BothKinds == {{1, 34}}
OneOrBoth == {{1}, {34}, {1, 34}}
=============================================================================
