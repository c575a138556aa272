--------------------------- MODULE MCBinderDevice ---------------------------
(***************************************************************************)
(* Small instances of BinderDevice for TLC.  An instance starts where its  *)
(* question starts: after the boot calls every guest makes, built with the *)
(* operators the actions use.                                              *)
(***************************************************************************)
EXTENDS BinderDevice, SequencesExt, TLC

CONSTANTS t1, t2, t3, t4

\* The threads of a process are interchangeable.
TidSymmetry == UNION {Permutations(Threads[p]) : p \in Procs}

Users == [p \in Procs |-> p]
Plain == {<<>>}
Object(p) == [kind |-> "BINDER", pointer |-> p, cookie |-> 0]
Handle(h) == [kind |-> "HANDLE", handle |-> h]

Endpoints(n) ==
  FoldLeft(LAMBDA d, p : mmap(open(d, p), d.next_token), Created,
           [i \in 1..n |-> i])

Entered(d, e, t) ==
  Leave(looper_command(admit_thread(d, e, t), e, t, "ENTER"), e, t)

\* Process 1 is the context manager; the threads of `pool' are in the loopers.
ServerAndClients(clients, pool) ==
  LET d == set_context_manager(Endpoints(1 + clients), 1, 1, 0)
  IN FoldSet(LAMBDA p, f : FoldSet(LAMBDA t, g : Entered(g, p, t), f, Threads[p]),
             d, pool)

\* Client 2, thread t3, has registered an object with the manager, the n-th node:
\* it was sent in a one-way call, acquired, announced to its owner and
\* acknowledged.
Registered(d, n) ==
  LET sent == transfer_packet(d, 2, t3, 0, TRUE, <<Object(n)>>)
      held == free_packet(reference_command(TakeWork(sent, 1, t1, 1),
                                            1, n - 1, TRUE, TRUE), 1, 1)
      announced == TakeNodeEvent(TakeNodeEvent(held, n), n)
      known == node_done_command(node_done_command(announced, 2, n, 0, FALSE),
                                 2, n, 0, TRUE)
  IN [known EXCEPT !.threads[2][t3].completions = @ - 1]

\* Synchronous calls: two manager threads serve a client of two threads.
CallsThreads == <<{t1, t2}, {t3, t4}>>
CallsEnabled == <<{"close", "gone", "torn", "thread_exit", "reply"},
                  {"close", "gone", "torn", "thread_exit", "call"}>>
CallsSpec == dev = ServerAndClients(1, {1}) /\ [][Next]_dev

\* One-way calls: the manager queues them on two objects of a client of two
\* threads.
OneWayThreads == <<{t1}, {t3, t4}>>
OneWayEnabled == <<{"oneway", "close", "gone", "thread_exit"},
                   {"free", "thread_exit"}>>
OneWaySpec ==
  /\ dev = Registered(Registered(ServerAndClients(1, {1, 2}), 2), 3)
  /\ [][Next]_dev

\* Objects: a client sends its object, twice in one parcel even, to the manager,
\* which counts references, and sends the handle back to its owner.
ObjectThreads == <<{t1}, {t3}>>
ObjectEnabled == <<{"oneway", "free", "reference"},
                   {"oneway", "free", "done", "close", "gone"}>>
ObjectParcels == {<<Object(2), Object(2)>>, <<Handle(1)>>}
ObjectSpec == dev = ServerAndClients(1, {1, 2}) /\ [][Next]_dev

\* Life cycles, from the empty device: managers come and go, loopers and polls.
LifeThreads == <<{t1}, {t3}>>
LifeEnabled == <<{"open", "close", "gone", "manager", "events", "ENTER", "REGISTER", "EXIT"},
                 {"open", "close", "nonblocking", "call", "interrupt", "manager"}>>

\* A manager subscribed to an object of a client that calls it: either may die, be
\* closed or exit first.
LiveThreads == <<{t1}, {t3}>>
LiveEnabled == <<{"death", "close", "gone", "reply", "reference", "thread_exit"},
                 {"call", "close", "gone"}>>
LiveSpec == /\ dev = Registered(ServerAndClients(1, {1, 2}), 2)
            /\ [][Next]_dev /\ Fairness
=============================================================================
