------------------------- MODULE BinderCallsProofs --------------------------
(* No synchronous call of the Binder device is stranded, a buffer is reserved *)
(* exactly while one packet will fill it, one-way calls are received in turn  *)
(* and never lost, and a death is reported once to who subscribed to it, for  *)
(* every set of processes, threads, pointers and parcels and every limit.     *)
(*                                                                            *)
(* Three invariants, on top of Sound(d, 0).  Paired(d) is what the calls, the *)
(* packets and the threads of a device know of each other: an operation that  *)
(* leaves the calls alone satisfies SameFlow, one that only ends calls        *)
(* CallsEnd; the ones that begin, answer or receive a call have a lemma of    *)
(* their own.  Owned(d) is what the packets, the buffers and the nodes know   *)
(* of each other: an operation either takes packets out of the queue          *)
(* (PacketsGo), puts one in (Joins), or frees a buffer that was published.    *)
(* Subscribed(d, 0) is what the references and the death slots know of each   *)
(* other: LinksMove says how a command may change a slot, SlotsReaped what    *)
(* reaping does.  Then one lemma per action for each invariant.               *)
EXTENDS BinderDeviceProofs

----------------------------------------------------------------------------
(* The invariant.                                                            *)

\* Calls have numbers of their own, all of them given out.
NumbersGiven(d) ==
  \A x, y \in d.transactions : x.id < d.next_transaction /\ (x.id = y.id => x = y)
Queues(d, x) == \E i \in DOMAIN d.work : d.work[i].transaction = x.id
Serves(d, x) == /\ thread_for(d, x.target, x.target_tid)
                /\ d.threads[x.target][x.target_tid].incoming = x.id
\* Who waits for call x, and where it is.
CallGoes(d, x) ==
  /\ thread_for(d, x.source, x.source_tid)
  /\ d.threads[x.source][x.source_tid].outgoing = x.id
  /\ endpoint_for(d, x.target) /\ x.source # x.target
  /\ IF x.target_tid = 0 THEN Queues(d, x) ELSE Serves(d, x)
\* A queued call is for any thread of its target, and nobody has received it.
PacketOfCall(d, w) ==
  w.transaction # 0 =>
    /\ w.tid = 0
    /\ \E x \in d.transactions : /\ x.id = w.transaction /\ x.target = w.endpoint
                                 /\ x.target_tid = 0
QueuedOnce(d) ==
  \A i, j \in DOMAIN d.work :
    d.work[i].transaction = d.work[j].transaction /\ d.work[i].transaction # 0 => i = j
\* What thread t of endpoint e knows of its calls, th being its state.
Calling(d, e, t, th) ==
  th.outgoing # 0 => \E x \in d.transactions :
     x.id = th.outgoing /\ x.source = e /\ x.source_tid = t
Serving(d, e, t, th) ==
  th.incoming # 0 =>
    /\ th.outgoing = 0 /\ ~th.dead_reply
    /\ \E x \in d.transactions : x.id = th.incoming /\ x.target = e /\ x.target_tid = t
ThreadsKnow(d) ==
  \A e \in Tokens : \A t \in DOMAIN d.threads[e] :
    Calling(d, e, t, d.threads[e][t]) /\ Serving(d, e, t, d.threads[e][t])
CallsGo(d) == \A x \in d.transactions : CallGoes(d, x)
PacketsKnown(d) == \A i \in DOMAIN d.work : PacketOfCall(d, d.work[i])
Paired(d) ==
  NumbersGiven(d) /\ QueuedOnce(d) /\ CallsGo(d) /\ PacketsKnown(d) /\ ThreadsKnow(d)

LEMMA CallTypes ==
  ASSUME NEW d \in Device, NEW x \in d.transactions
  PROVE /\ x \in Transaction /\ x.id \in Nat /\ x.id # 0 /\ x.id \in 1..TxnLimit
        /\ x.source \in Tokens /\ x.target \in Tokens
        /\ x.source_tid \in Tids /\ x.source_tid # 0 /\ x.target_tid \in Tids \cup {0}
<1>1. x \in Transaction
  BY FieldTypes DEF Transactions
<1>2. /\ x.id \in 1..TxnLimit /\ x.source \in Tokens /\ x.target \in Tokens
      /\ x.source_tid \in Tids /\ x.target_tid \in Tids \cup {0}
  BY <1>1 DEF Transaction
<1> QED BY <1>1, <1>2, BinderAssumption

----------------------------------------------------------------------------
(* Calls that end.                                                           *)

Numbers(X) == {x.id : x \in X}
\* e is s without its entries in I.
Kept(s, e, I) ==
  \E m \in [DOMAIN e -> DOMAIN s \ I] :
    /\ \A j \in DOMAIN e : e[j] = s[m[j]]
    /\ \A i, j \in DOMAIN e : (i < j => m[i] < m[j]) /\ (m[i] = m[j] => i = j)
    /\ \A k \in DOMAIN s \ I : \E j \in DOMAIN e : m[j] = k
\* A thread before and after the calls with these numbers end.
Freer(a, b, Ids) ==
  /\ b.outgoing = IF a.outgoing \in Ids THEN 0 ELSE a.outgoing
  /\ b.incoming = IF a.incoming \in Ids THEN 0 ELSE a.incoming
  /\ b.dead_reply => a.dead_reply \/ a.incoming \in Ids
\* f is d once the calls X have ended and the packets at the positions I are
\* gone; threads and endpoints may be new.
CallsEnd(d, f, X, I) ==
  /\ f.next_transaction = d.next_transaction
  /\ f.transactions = d.transactions \ X
  /\ Kept(d.work, f.work, I)
  /\ \A e \in Tokens : d.endpoints[e].used => f.endpoints[e].used
  /\ \A e \in Tokens : \A t \in DOMAIN d.threads[e] :
       t \in DOMAIN f.threads[e] /\ Freer(d.threads[e][t], f.threads[e][t], Numbers(X))
  /\ \A e \in Tokens : \A t \in DOMAIN f.threads[e] :
       \/ t \in DOMAIN d.threads[e]
       \/ f.threads[e][t].incoming = 0 /\ f.threads[e][t].outgoing = 0

LEMMA EndPaired ==
  ASSUME NEW d \in Device, Paired(d), NEW f, NEW X \in SUBSET d.transactions, NEW I,
         CallsEnd(d, f, X, I),
         \A i \in DOMAIN d.work : d.work[i].transaction \in Numbers(X) => i \in I,
         \A i \in DOMAIN d.work : i \in I =>
            d.work[i].transaction = 0 \/ d.work[i].transaction \in Numbers(X)
  PROVE Paired(f)
<1> DEFINE Ids == Numbers(X)
<1>1. PICK m \in [DOMAIN f.work -> DOMAIN d.work \ I] :
        /\ \A j \in DOMAIN f.work : f.work[j] = d.work[m[j]]
        /\ \A i, j \in DOMAIN f.work : m[i] = m[j] => i = j
        /\ \A k \in DOMAIN d.work \ I : \E j \in DOMAIN f.work : m[j] = k
  BY DEF CallsEnd, Kept
<1>2. \A j \in DOMAIN f.work : m[j] \in DOMAIN d.work /\ m[j] \notin I
  BY <1>1
<1>3. \A x \in d.transactions : x \in X <=> x.id \in Ids
  BY DEF Paired, NumbersGiven, Numbers
<1>4. \A x : x \in f.transactions <=> x \in d.transactions /\ x \notin X
  BY DEF CallsEnd
<1>5. NumbersGiven(f)
  BY <1>4 DEF CallsEnd, Paired, NumbersGiven
<1>6. QueuedOnce(f)
  <2> SUFFICES ASSUME NEW i \in DOMAIN f.work, NEW j \in DOMAIN f.work,
                      f.work[i].transaction = f.work[j].transaction,
                      f.work[i].transaction # 0
               PROVE i = j
    BY DEF QueuedOnce
  <2>1. m[i] = m[j]
    BY <1>1, <1>2 DEF Paired, QueuedOnce
  <2> QED BY <1>1, <2>1
<1>7. ASSUME NEW x \in f.transactions PROVE CallGoes(f, x)
  <2>1. x \in d.transactions /\ x.id \notin Ids /\ x.id # 0 /\ CallGoes(d, x)
        /\ x.source \in Tokens /\ x.target \in Tokens
    BY <1>3, <1>4, <1>7, CallTypes DEF Paired, CallsGo
  <2>2. x.source_tid \in DOMAIN d.threads[x.source] /\ d.endpoints[x.source].used
        /\ d.endpoints[x.target].used
    BY <2>1 DEF CallGoes, thread_for, endpoint_for
  <2>3. thread_for(f, x.source, x.source_tid) /\ endpoint_for(f, x.target)
    BY <2>1, <2>2 DEF CallsEnd, thread_for, endpoint_for
  <2>4. f.threads[x.source][x.source_tid].outgoing = x.id
    <3>1. d.threads[x.source][x.source_tid].outgoing = x.id
      BY <2>1 DEF CallGoes
    <3> QED BY <2>1, <2>2, <3>1 DEF CallsEnd, Freer
  <2>5. ASSUME x.target_tid = 0 PROVE Queues(f, x)
    <3>1. PICK k \in DOMAIN d.work : d.work[k].transaction = x.id
      BY <2>1, <2>5 DEF CallGoes, Queues
    <3>2. k \notin I
      BY <2>1, <3>1
    <3> QED BY <1>1, <3>1, <3>2 DEF Queues
  <2>6. ASSUME x.target_tid # 0 PROVE Serves(f, x)
    <3>1. x.target_tid \in DOMAIN d.threads[x.target]
          /\ d.threads[x.target][x.target_tid].incoming = x.id
      BY <2>1, <2>6 DEF CallGoes, Serves, thread_for
    <3> QED BY <2>1, <2>3, <3>1 DEF CallsEnd, Freer, Serves, thread_for
  <2>7. x.source # x.target
    BY <2>1 DEF CallGoes
  <2> QED BY <2>3, <2>4, <2>5, <2>6, <2>7 DEF CallGoes
<1>8. ASSUME NEW j \in DOMAIN f.work PROVE PacketOfCall(f, f.work[j])
  <2> SUFFICES ASSUME f.work[j].transaction # 0
               PROVE /\ f.work[j].tid = 0
                     /\ \E x \in f.transactions :
                          /\ x.id = f.work[j].transaction
                          /\ x.target = f.work[j].endpoint /\ x.target_tid = 0
    BY DEF PacketOfCall
  <2>1. f.work[j] = d.work[m[j]] /\ m[j] \in DOMAIN d.work /\ m[j] \notin I
    BY <1>1, <1>2
  <2>2. PICK x \in d.transactions : x.id = f.work[j].transaction
           /\ x.target = f.work[j].endpoint /\ x.target_tid = 0
    BY <2>1 DEF Paired, PacketsKnown, PacketOfCall
  <2>3. x.id \notin Ids
    BY <2>1, <2>2
  <2>4. f.work[j].tid = 0
    BY <2>1 DEF Paired, PacketsKnown, PacketOfCall
  <2> QED BY <1>3, <1>4, <2>2, <2>3, <2>4
<1>9. ASSUME NEW e \in Tokens, NEW t \in DOMAIN f.threads[e]
      PROVE Calling(f, e, t, f.threads[e][t]) /\ Serving(f, e, t, f.threads[e][t])
  <2>1. CASE t \notin DOMAIN d.threads[e]
    BY <1>9, <2>1 DEF CallsEnd, Calling, Serving
  <2>2. CASE t \in DOMAIN d.threads[e]
    <3>1. PICK a : a = d.threads[e][t]
      OBVIOUS
    <3>2. PICK b : b = f.threads[e][t]
      OBVIOUS
    <3>3. Freer(a, b, Ids)
      BY <2>2, <3>1, <3>2 DEF CallsEnd
    <3>4. Calling(d, e, t, a) /\ Serving(d, e, t, a)
      BY <2>2, <3>1 DEF Paired, ThreadsKnow
    <3>5. Calling(f, e, t, b)
      BY <1>3, <1>4, <3>3, <3>4 DEF Freer, Calling
    <3>6. Serving(f, e, t, b)
      BY <1>3, <1>4, <3>3, <3>4 DEF Freer, Serving
    <3> QED BY <3>2, <3>5, <3>6
  <2> QED BY <2>1, <2>2
<1> QED BY <1>5, <1>6, <1>7, <1>8, <1>9 DEF Paired, CallsGo, PacketsKnown, ThreadsKnow

LEMMA KeptAll ==
  ASSUME NEW S, NEW s \in Seq(S)
  PROVE Kept(s, s, {})
<1> DEFINE m == [j \in DOMAIN s |-> j]
<1>1. /\ m \in [DOMAIN s -> DOMAIN s \ {}]
      /\ \A j \in DOMAIN s : s[j] = s[m[j]]
      /\ \A i, j \in DOMAIN s : (i < j => m[i] < m[j]) /\ (m[i] = m[j] => i = j)
      /\ \A k \in DOMAIN s \ {} : \E j \in DOMAIN s : m[j] = k
  OBVIOUS
<1> HIDE DEF m
<1> QED BY <1>1 DEF Kept

LEMMA KeptErase ==
  ASSUME NEW S, NEW s \in Seq(S), NEW i \in DOMAIN s
  PROVE Kept(s, Erase(s, i), {i})
<1> DEFINE e == Erase(s, i)
           m == [j \in DOMAIN e |-> IF j < i THEN j ELSE j + 1]
<1>1. DOMAIN s = 1..Len(s) /\ Len(s) \in Nat /\ i \in 1..Len(s)
  OBVIOUS
<1>2. DOMAIN e = 1..(Len(s) - 1) /\ \A j \in DOMAIN e : e[j] = s[m[j]]
  BY DEF Erase
<1>3. m \in [DOMAIN e -> DOMAIN s \ {i}]
  BY <1>1, <1>2
<1>4. \A k, j \in DOMAIN e : (k < j => m[k] < m[j]) /\ (m[k] = m[j] => k = j)
  BY <1>1, <1>2
<1>5. \A k \in DOMAIN s \ {i} : \E j \in DOMAIN e : m[j] = k
  <2> TAKE k \in DOMAIN s \ {i}
  <2>1. CASE k < i
    <3>1. k \in DOMAIN e /\ m[k] = k
      BY <1>1, <1>2, <2>1
    <3> QED BY <3>1
  <2>2. CASE ~(k < i)
    <3>1. k - 1 \in DOMAIN e /\ m[k - 1] = k
      BY <1>1, <1>2, <2>2
    <3> QED BY <3>1
  <2> QED BY <2>1, <2>2
<1> HIDE DEF e, m
<1>6. Kept(s, e, {i})
  BY <1>2, <1>3, <1>4, <1>5 DEF Kept
<1> QED BY <1>6 DEF e

LEMMA KeptEraseAll ==
  ASSUME NEW S, NEW s \in Seq(S), NEW I, NEW e, e = EraseAll(s, I)
  PROVE Kept(s, e, I)
<1>1. e \in Seq(S)
  BY EraseAllKeeps
<1>2. PICK m \in [DOMAIN e -> DOMAIN s \ I] :
        /\ \A j \in DOMAIN e : e[j] = s[m[j]]
        /\ \A i, j \in DOMAIN e : i < j => m[i] < m[j]
        /\ \A k \in DOMAIN s \ I : \E j \in DOMAIN e : m[j] = k
  BY EraseAllKeeps
<1>3. DOMAIN e \subseteq Nat /\ DOMAIN s \subseteq Nat
  BY <1>1
<1>4. ASSUME NEW i \in DOMAIN e, NEW j \in DOMAIN e, m[i] = m[j] PROVE i = j
  <2>1. m[i] \in Nat /\ m[j] \in Nat /\ i \in Nat /\ j \in Nat
    BY <1>2, <1>3
  <2>2. ~(i < j) /\ ~(j < i)
    BY <1>2, <1>4, <2>1
  <2> QED BY <2>1, <2>2
<1> QED BY <1>2, <1>4 DEF Kept

\* What leaves the calls alone keeps them paired.
LEMMA TalkPaired ==
  ASSUME NEW d \in Device, Paired(d), NEW f, SameTalk(d, f)
  PROVE Paired(f)
<1>1. d.work \in Seq(Work)
  BY FieldTypes DEF Works
<1>2. PICK X : X = {}
  OBVIOUS
<1>3. Kept(d.work, f.work, X)
  BY <1>1, <1>2, KeptAll DEF SameTalk
<1>4. Numbers(X) = {}
  BY <1>2 DEF Numbers
<1>5. CallsEnd(d, f, X, X)
  BY <1>2, <1>3, <1>4 DEF SameTalk, SameCallState, CallsEnd, Freer
<1> QED BY <1>2, <1>4, <1>5, EndPaired

LEMMA FlowPaired ==
  ASSUME NEW d \in Device, Paired(d), NEW f, SameFlow(d, f)
  PROVE Paired(f)
  BY TalkPaired DEF SameFlow

----------------------------------------------------------------------------
(* Threads and endpoints that go.                                            *)

\* f is d once the calls of endpoint e, or of its thread t # 0, were cancelled.
CallsCut(d, f, e, t) ==
  /\ f.threads = EndedThreads(d, CancelledIds(d, e, t))
  /\ f.next_transaction = d.next_transaction
  /\ f.transactions = d.transactions \ Cancelled(d, e, t)
  /\ f.work = EraseAll(d.work, CancelledWork(d, e, t))
  /\ f.endpoints = FreedArenas(d, CancelledWork(d, e, t))

LEMMA CutPaired ==
  ASSUME NEW d \in Device, Paired(d), NEW e \in Tokens, NEW t \in Tids \cup {0},
         NEW f, CallsCut(d, f, e, t)
  PROVE Paired(f)
<1>1. PICK X \in SUBSET d.transactions : X = Cancelled(d, e, t)
  BY DEF Cancelled
<1>2. PICK I : I = CancelledWork(d, e, t)
  OBVIOUS
<1>3. CancelledIds(d, e, t) = Numbers(X)
  BY <1>1 DEF CancelledIds, Numbers
<1>4. \A x \in d.transactions : x \in X <=> x.id \in Numbers(X)
  BY DEF Paired, NumbersGiven, Numbers
<1>5. \A i \in DOMAIN d.work :
        i \in I <=> d.work[i].transaction \in Numbers(X) \/ OwnWork(d.work[i], e, t)
  BY <1>2, <1>3 DEF CancelledWork
<1>6. ASSUME NEW i \in DOMAIN d.work, i \in I
      PROVE d.work[i].transaction = 0 \/ d.work[i].transaction \in Numbers(X)
  <2> SUFFICES ASSUME d.work[i].transaction # 0, OwnWork(d.work[i], e, t)
               PROVE d.work[i].transaction \in Numbers(X)
    BY <1>5, <1>6
  <2>1. PICK x \in d.transactions : x.id = d.work[i].transaction
          /\ x.target = d.work[i].endpoint /\ x.target_tid = 0
    BY DEF Paired, PacketsKnown, PacketOfCall
  <2>2. d.work[i].tid = 0
    BY DEF Paired, PacketsKnown, PacketOfCall
  <2>3. x.target = e /\ (t = 0 \/ x.target_tid = t)
    BY <2>1, <2>2 DEF OwnWork
  <2>4. x \in X
    BY <1>1, <2>3 DEF Cancelled
  <2> QED BY <1>4, <2>1, <2>4
<1>7. Kept(d.work, f.work, I)
  <2>1. d.work \in Seq(Work)
    BY FieldTypes DEF Works
  <2> QED BY <1>2, <2>1, KeptEraseAll DEF CallsCut
<1>8. ASSUME NEW u \in Tokens, NEW y \in DOMAIN d.threads[u]
      PROVE y \in DOMAIN f.threads[u] /\ Freer(d.threads[u][y], f.threads[u][y], Numbers(X))
  <2>1. d.threads[u][y] \in Thread
    BY ThreadTable
  <2>2. y \in DOMAIN f.threads[u] /\ f.threads[u][y] = Ended(d.threads[u][y], Numbers(X))
    BY <1>3, EndedThreadsFacts DEF CallsCut
  <2> QED BY <2>1, <2>2, EndedFacts DEF Freer
<1>9. \A u \in Tokens : DOMAIN f.threads[u] = DOMAIN d.threads[u]
  BY EndedThreadsFacts DEF CallsCut
<1>10. \A u \in Tokens : f.endpoints[u].used = d.endpoints[u].used
  BY FreedArenasFacts DEF CallsCut
<1>11. CallsEnd(d, f, X, I)
  BY <1>1, <1>7, <1>8, <1>9, <1>10 DEF CallsEnd, CallsCut
<1> QED BY <1>5, <1>6, <1>11, EndPaired

\* Threads and endpoints that no call involves may go.
Uninvolved(d, f) ==
  /\ f.next_transaction = d.next_transaction
  /\ f.transactions = d.transactions /\ f.work = d.work
  /\ \A u \in Tokens : \A y \in DOMAIN f.threads[u] :
       y \in DOMAIN d.threads[u] /\ f.threads[u][y] = d.threads[u][y]
  /\ \A x \in d.transactions :
       /\ thread_for(f, x.source, x.source_tid) /\ endpoint_for(f, x.target)
       /\ x.target_tid # 0 => thread_for(f, x.target, x.target_tid)

LEMMA UninvolvedPaired ==
  ASSUME NEW d \in Device, Paired(d), NEW f, Uninvolved(d, f)
  PROVE Paired(f)
<1>1. NumbersGiven(f) /\ QueuedOnce(f) /\ PacketsKnown(f)
  BY DEF Paired, Uninvolved, NumbersGiven, QueuedOnce, PacketsKnown, PacketOfCall
<1>2. ASSUME NEW x \in f.transactions PROVE CallGoes(f, x)
  <2>1. x \in d.transactions /\ CallGoes(d, x)
    BY DEF Paired, CallsGo, Uninvolved
  <2>2. /\ thread_for(f, x.source, x.source_tid) /\ endpoint_for(f, x.target)
        /\ x.target_tid # 0 => thread_for(f, x.target, x.target_tid)
    BY <2>1 DEF Uninvolved
  <2>3. f.threads[x.source][x.source_tid] = d.threads[x.source][x.source_tid]
    BY <2>2 DEF Uninvolved, thread_for, endpoint_for
  <2>4. x.target_tid # 0 =>
          f.threads[x.target][x.target_tid] = d.threads[x.target][x.target_tid]
    BY <2>2 DEF Uninvolved, thread_for, endpoint_for
  <2>5. Queues(d, x) => Queues(f, x)
    BY DEF Queues, Uninvolved
  <2>6. x.target_tid # 0 /\ Serves(d, x) => Serves(f, x)
    BY <2>2, <2>4 DEF Serves
  <2> QED BY <2>1, <2>2, <2>3, <2>5, <2>6 DEF CallGoes
<1>3. ThreadsKnow(f)
  BY DEF Paired, ThreadsKnow, Uninvolved, Calling, Serving
<1> QED BY <1>1, <1>2, <1>3 DEF Paired, CallsGo

LEMMA LeftPaired ==
  ASSUME NEW d \in Device, Paired(d), NEW e \in Tokens, NEW t \in Tids,
         NEW a \in Device, Paired(a), CallsCut(a, d, e, t),
         NEW f, WithoutThread(d, f, e, t)
  PROVE Paired(f)
<1>1. ASSUME NEW x \in d.transactions
      PROVE /\ ~(x.source = e /\ x.source_tid = t)
            /\ ~(x.target = e /\ x.target_tid = t)
            /\ thread_for(d, x.source, x.source_tid) /\ endpoint_for(d, x.target)
            /\ x.target_tid # 0 => thread_for(d, x.target, x.target_tid)
  <2>1. x \in a.transactions /\ x \notin Cancelled(a, e, t)
    BY DEF CallsCut
  <2>2. CallGoes(d, x)
    BY DEF Paired, CallsGo
  <2> QED BY <2>1, <2>2 DEF Cancelled, CallGoes, Serves
<1>2. ASSUME NEW u, NEW y, thread_for(d, u, y), ~(u = e /\ y = t)
      PROVE thread_for(f, u, y)
  <2>1. CASE u = e
    BY <1>2, <2>1 DEF WithoutThread, thread_for, endpoint_for
  <2>2. CASE u # e
    BY <1>2, <2>2 DEF WithoutThread, thread_for, endpoint_for
  <2> QED BY <2>1, <2>2
<1>3. \A u : endpoint_for(d, u) => endpoint_for(f, u)
  BY DEF WithoutThread, endpoint_for
<1>4. ASSUME NEW u \in Tokens, NEW y \in DOMAIN f.threads[u]
      PROVE y \in DOMAIN d.threads[u] /\ f.threads[u][y] = d.threads[u][y]
  <2>1. CASE u = e
    BY <1>4, <2>1 DEF WithoutThread
  <2>2. CASE u # e
    BY <1>4, <2>2 DEF WithoutThread
  <2> QED BY <2>1, <2>2
<1>5. Uninvolved(d, f)
  BY <1>1, <1>2, <1>3, <1>4 DEF Uninvolved, WithoutThread
<1> QED BY <1>5, UninvolvedPaired

LEMMA ReleasePaired ==
  ASSUME NEW d, Sound(d, 0), Paired(d), NEW e \in Tokens, NEW f, f = release_endpoint(d, e)
  PROVE Paired(f)
<1>0. d \in Device
  BY SoundFacts
<1>1. PICK g : g = Released(d, e)
  OBVIOUS
<1>2. g \in Device /\ CallsCut(d, g, e, 0)
  BY <1>1, ReleasedFacts DEF CallsCut
<1>3. Paired(g)
  <2>1. PICK t \in Tids \cup {0} : t = 0
    OBVIOUS
  <2> QED BY <1>0, <1>2, <2>1, CutPaired
<1>4. f = Emptied(Released(d, e), e)
  BY EndpointFacts
<1>5. f = Emptied(g, e)
  BY <1>1, <1>4
<1>6. /\ \A u \in Tokens \ {e} : f.endpoints[u] = g.endpoints[u] /\ f.threads[u] = g.threads[u]
      /\ DOMAIN f.threads[e] = {}
      /\ f.next_transaction = g.next_transaction
      /\ f.transactions = g.transactions /\ f.work = g.work
  BY <1>2, <1>5, EmptiedFacts
<1>7. ASSUME NEW x \in g.transactions
      PROVE /\ thread_for(f, x.source, x.source_tid) /\ endpoint_for(f, x.target)
            /\ x.target_tid # 0 => thread_for(f, x.target, x.target_tid)
  <2>1. x \in d.transactions /\ x \notin Cancelled(d, e, 0)
    BY <1>2 DEF CallsCut
  <2>2. x.source # e /\ x.target # e
    BY <2>1 DEF Cancelled
  <2>3. CallGoes(g, x)
    BY <1>3 DEF Paired, CallsGo
  <2>4. /\ thread_for(g, x.source, x.source_tid) /\ endpoint_for(g, x.target)
        /\ x.target_tid # 0 => thread_for(g, x.target, x.target_tid)
    BY <2>3 DEF CallGoes, Serves
  <2> QED BY <1>6, <2>2, <2>4 DEF thread_for, endpoint_for
<1>8. ASSUME NEW u \in Tokens, NEW y \in DOMAIN f.threads[u]
      PROVE y \in DOMAIN g.threads[u] /\ f.threads[u][y] = g.threads[u][y]
  BY <1>6, <1>8
<1>9. Uninvolved(g, f)
  BY <1>6, <1>7, <1>8 DEF Uninvolved
<1> QED BY <1>2, <1>3, <1>9, UninvolvedPaired

LEMMA ReapPaired ==
  ASSUME NEW d, Sound(d, 0), Paired(d)
  PROVE Paired(reap_closed(d))
<1> DEFINE S == {f \in Device : Sound(f, 0) /\ Paired(f)}
<1>1. d \in S
  BY SoundFacts
<1>2. ASSUME NEW f \in S, NEW e \in Tokens
      PROVE release_endpoint(f, e) \in S
  BY EndpointFacts, ReleasePaired
<1>3. reap_closed(d) \in S
  <2> HIDE DEF S
  <2> QED BY <1>1, <1>2, ReapInduct
<1> QED BY <1>3

----------------------------------------------------------------------------
(* Calls that begin, are answered and are received.                          *)

\* f is d with one more packet, which is not a call.
PacketAdded(d, f, w) ==
  /\ f.next_transaction = d.next_transaction /\ f.endpoints = d.endpoints
  /\ f.threads = d.threads /\ f.transactions = d.transactions
  /\ f.work = Append(d.work, w)

LEMMA AppendFacts ==
  ASSUME NEW d \in Device, NEW w \in Work, NEW s, s = Append(d.work, w)
  PROVE /\ s \in Seq(Work) /\ DOMAIN d.work \subseteq Nat
        /\ \A i \in DOMAIN d.work : i \in DOMAIN s /\ s[i] = d.work[i]
        /\ Len(d.work) + 1 \in DOMAIN s /\ s[Len(d.work) + 1] = w
        /\ Len(d.work) + 1 \notin DOMAIN d.work
        /\ \A i \in DOMAIN s : i \in DOMAIN d.work \/ i = Len(d.work) + 1
<1>1. d.work \in Seq(Work)
  BY FieldTypes DEF Works
<1> QED BY <1>1

LEMMA QueuedPaired ==
  ASSUME NEW d \in Device, Paired(d), NEW w \in Work, w.transaction = 0,
         NEW f, PacketAdded(d, f, w)
  PROVE Paired(f)
<1>1. PICK k : k = Len(d.work) + 1
  OBVIOUS
<1>2. /\ \A i \in DOMAIN d.work : i \in DOMAIN f.work /\ f.work[i] = d.work[i]
      /\ f.work[k] = w /\ \A i \in DOMAIN f.work : i \in DOMAIN d.work \/ i = k
  BY <1>1, AppendFacts DEF PacketAdded
<1>3. NumbersGiven(f) /\ ThreadsKnow(f)
  BY DEF Paired, PacketAdded, NumbersGiven, ThreadsKnow, Calling, Serving
<1>4. QueuedOnce(f)
  BY <1>2 DEF Paired, QueuedOnce
<1>5. PacketsKnown(f)
  BY <1>2 DEF Paired, PacketAdded, PacketsKnown, PacketOfCall
<1>6. ASSUME NEW x \in f.transactions PROVE CallGoes(f, x)
  <2>1. CallGoes(d, x)
    BY DEF Paired, CallsGo, PacketAdded
  <2>2. Queues(d, x) => Queues(f, x)
    BY <1>2 DEF Queues
  <2>3. Serves(d, x) => Serves(f, x)
    BY DEF Serves, PacketAdded, thread_for, endpoint_for
  <2> QED BY <2>1, <2>2, <2>3 DEF CallGoes, PacketAdded, thread_for, endpoint_for
<1> QED BY <1>3, <1>4, <1>5, <1>6 DEF Paired, CallsGo

LEMMA OneWayPaired ==
  ASSUME NEW d, Sound(d, 0), Paired(d), NEW n \in DOMAIN d.nodes, NEW b \in Buffers,
         Len(d.work) # PacketLimit, NEW f, f = SendOneWay(d, n, b)
  PROVE Paired(f)
<1>1. d \in Device
  BY SoundFacts
<1>2. n \in 0..NodeLimit /\ d.nodes[n].owner \in Tokens
  BY <1>1, NodeTable, BinderAssumption DEF NodeIds
<1>3. PICK w : w = Packet(d.nodes[n].owner, 0, "TRANSACTION", 0, n, b)
  OBVIOUS
<1>4. w \in Work /\ w.transaction = 0
  BY <1>2, <1>3, PacketFacts, BinderAssumption
<1>5. PacketAdded(d, f, w)
  <2>1. /\ f.next_transaction = d.next_transaction /\ f.endpoints = d.endpoints
        /\ f.threads = d.threads /\ f.transactions = d.transactions
        /\ OneWaySent(d, f, n, b)
    BY SendOneWayFacts
  <2> QED BY <1>3, <2>1 DEF PacketAdded, OneWaySent
<1> QED BY <1>1, <1>4, <1>5, QueuedPaired

\* The thread that calls is free, and its target is another endpoint.
LEMMA CallPaired ==
  ASSUME NEW d, Sound(d, 0), Paired(d), NEW e \in Tokens, NEW t \in DOMAIN d.threads[e],
         endpoint_for(d, e),
         NEW n \in DOMAIN d.nodes, NEW b \in Buffers, d.next_transaction <= TxnLimit,
         d.threads[e][t].incoming = 0, d.threads[e][t].outgoing = 0,
         endpoint_for(d, d.nodes[n].owner), d.nodes[n].owner # e,
         Len(d.work) # PacketLimit, NEW f, f = SendCall(d, e, t, n, b)
  PROVE Paired(f)
<1>0. d \in Device /\ t \in Tids
  BY SoundFacts, ThreadTable
<1>1. PICK id : id = d.next_transaction
  OBVIOUS
<1>2. id \in 1..TxnLimit
  BY <1>0, <1>1, FieldTypes DEF Counters
<1>3. PICK target \in Tokens : target = d.nodes[n].owner
  BY <1>0, NodeTable
<1>4. PICK y : y = CallRecord(id, e, t, target)
  OBVIOUS
<1>5. /\ y.id = id /\ y.source = e /\ y.source_tid = t /\ y.target = target
      /\ y.target_tid = 0
  BY <1>0, <1>2, <1>4, CallRecordFacts
<1>6. PICK w : w = Packet(target, 0, "TRANSACTION", id, 0, b)
  OBVIOUS
<1>7. w \in Work /\ w.endpoint = target /\ w.tid = 0 /\ w.transaction = id
  BY <1>2, <1>6, PacketFacts, BinderAssumption
<1>8. /\ f.next_transaction = id + 1 /\ f.endpoints = d.endpoints
      /\ \A u \in Tokens : DOMAIN f.threads[u] = DOMAIN d.threads[u]
      /\ \A u \in Tokens \ {e} : f.threads[u] = d.threads[u]
      /\ \A s \in DOMAIN d.threads[e] \ {t} : f.threads[e][s] = d.threads[e][s]
      /\ f.threads[e][t].outgoing = id
      /\ f.threads[e][t].incoming = 0
      /\ \A x : x \in f.transactions <=> x \in d.transactions \/ x = y
      /\ f.work = Append(d.work, w)
  BY <1>1, <1>3, <1>4, <1>6, SendCallFacts
<1>9. PICK k : k = Len(d.work) + 1
  OBVIOUS
<1>10. /\ \A i \in DOMAIN d.work : i \in DOMAIN f.work /\ f.work[i] = d.work[i]
       /\ k \in DOMAIN f.work /\ f.work[k] = w
       /\ \A i \in DOMAIN f.work : i \in DOMAIN d.work \/ i = k
  BY <1>0, <1>7, <1>8, <1>9, AppendFacts
<1>11. \A x \in d.transactions : x.id \in Nat /\ x.id < id /\ x.id # id
  <2>1. \A x \in d.transactions : x.id \in Nat
    BY <1>0, CallTypes
  <2> QED BY <1>1, <1>2, <2>1 DEF Paired, NumbersGiven
<1>12. \A i \in DOMAIN d.work : d.work[i].transaction # id
  BY <1>2, <1>11 DEF Paired, PacketsKnown, PacketOfCall
<1>13. NumbersGiven(f)
  <2>1. \A x \in f.transactions : x.id \in Nat /\ x.id < id + 1
    BY <1>2, <1>5, <1>8, <1>11
  <2>2. \A x, z \in f.transactions : x.id = z.id => x = z
    BY <1>5, <1>8, <1>11 DEF Paired, NumbersGiven
  <2> QED BY <1>8, <2>1, <2>2 DEF NumbersGiven
<1>14. QueuedOnce(f)
  <2> SUFFICES ASSUME NEW i \in DOMAIN f.work, NEW j \in DOMAIN f.work,
                      f.work[i].transaction = f.work[j].transaction,
                      f.work[i].transaction # 0
               PROVE i = j
    BY DEF QueuedOnce
  <2>1. CASE i \in DOMAIN d.work /\ j \in DOMAIN d.work
    BY <1>10, <2>1 DEF Paired, QueuedOnce
  <2>2. CASE ~(i \in DOMAIN d.work /\ j \in DOMAIN d.work)
    BY <1>7, <1>10, <1>12, <2>2
  <2> QED BY <2>1, <2>2
<1>15. ASSUME NEW x \in f.transactions PROVE CallGoes(f, x)
  <2>1. CASE x = y
    <3>1. thread_for(f, e, t) /\ endpoint_for(f, target) /\ e # target
      BY <1>3, <1>8 DEF thread_for, endpoint_for
    <3>2. Queues(f, x)
      BY <1>5, <1>7, <1>10, <2>1 DEF Queues
    <3> QED BY <1>5, <1>8, <2>1, <3>1, <3>2 DEF CallGoes
  <2>2. CASE x # y
    <3>1. x \in d.transactions
      BY <1>8, <2>2
    <3>2. /\ CallGoes(d, x) /\ x.id # 0 /\ x.source \in Tokens /\ x.target \in Tokens
      BY <1>0, <3>1, CallTypes DEF Paired, CallsGo
    <3>3. x.source_tid \in DOMAIN d.threads[x.source]
          /\ d.threads[x.source][x.source_tid].outgoing = x.id
      BY <3>2 DEF CallGoes, thread_for
    <3>4. ~(x.source = e /\ x.source_tid = t)
      BY <3>2, <3>3
    <3>5. f.threads[x.source][x.source_tid] = d.threads[x.source][x.source_tid]
      <4>1. CASE x.source = e
        BY <1>8, <3>3, <3>4, <4>1
      <4>2. CASE x.source # e
        BY <1>8, <3>2, <4>2
      <4> QED BY <4>1, <4>2
    <3>6. thread_for(f, x.source, x.source_tid) /\ endpoint_for(f, x.target)
      BY <1>8, <3>2 DEF CallGoes, thread_for, endpoint_for
    <3>7. Queues(d, x) => Queues(f, x)
      BY <1>10 DEF Queues
    <3>8. ASSUME Serves(d, x) PROVE Serves(f, x)
      <4>1. x.target_tid \in DOMAIN d.threads[x.target]
            /\ d.threads[x.target][x.target_tid].incoming = x.id
        BY <3>8 DEF Serves, thread_for
      <4>2. ~(x.target = e /\ x.target_tid = t)
        BY <3>2, <4>1
      <4>3. f.threads[x.target][x.target_tid] = d.threads[x.target][x.target_tid]
        <5>1. CASE x.target = e
          BY <1>8, <4>1, <4>2, <5>1
        <5>2. CASE x.target # e
          BY <1>8, <3>2, <5>2
        <5> QED BY <5>1, <5>2
      <4>4. thread_for(f, x.target, x.target_tid)
        BY <1>8, <3>2, <3>8 DEF Serves, thread_for, endpoint_for
      <4> QED BY <4>1, <4>3, <4>4 DEF Serves
    <3> QED BY <3>2, <3>3, <3>5, <3>6, <3>7, <3>8 DEF CallGoes
  <2> QED BY <2>1, <2>2
<1>16. PacketsKnown(f)
  <2> SUFFICES ASSUME NEW i \in DOMAIN f.work PROVE PacketOfCall(f, f.work[i])
    BY DEF PacketsKnown
  <2>1. CASE i \in DOMAIN d.work
    <3>1. PacketOfCall(d, f.work[i])
      BY <1>10, <2>1 DEF Paired, PacketsKnown
    <3> QED BY <1>8, <3>1 DEF PacketOfCall
  <2>2. CASE i = k
    BY <1>5, <1>7, <1>8, <1>10, <2>2 DEF PacketOfCall
  <2> QED BY <1>10, <2>1, <2>2
<1>17. ASSUME NEW u \in Tokens, NEW s \in DOMAIN f.threads[u]
       PROVE Calling(f, u, s, f.threads[u][s]) /\ Serving(f, u, s, f.threads[u][s])
  <2>1. CASE u = e /\ s = t
    BY <1>5, <1>8, <2>1 DEF Calling, Serving
  <2>2. CASE ~(u = e /\ s = t)
    <3>1. s \in DOMAIN d.threads[u]
      BY <1>8
    <3>2. f.threads[u][s] = d.threads[u][s]
      <4>1. CASE u = e
        BY <1>8, <2>2, <3>1, <4>1
      <4>2. CASE u # e
        BY <1>8, <4>2
      <4> QED BY <4>1, <4>2
    <3>3. Calling(d, u, s, f.threads[u][s]) /\ Serving(d, u, s, f.threads[u][s])
      BY <3>1, <3>2 DEF Paired, ThreadsKnow
    <3> QED BY <1>8, <3>3 DEF Calling, Serving
  <2> QED BY <2>1, <2>2
<1> QED BY <1>13, <1>14, <1>15, <1>16, <1>17 DEF Paired, CallsGo, ThreadsKnow

\* A reply ends the call x that thread t of endpoint e serves.
LEMMA ReplyPaired ==
  ASSUME NEW d, NEW e, NEW t, InCall(d, e, t), Paired(d), NEW x \in d.transactions,
         x.id = d.threads[e][t].incoming, NEW b \in Buffers,
         x.source_tid \in DOMAIN d.threads[x.source], Len(d.work) # PacketLimit,
         NEW f, f = SendReply(d, e, t, x, b)
  PROVE Paired(f)
<1>0. d \in Device /\ e \in Tokens /\ t \in DOMAIN d.threads[e] /\ t # 0
  BY InCallFacts, BinderAssumption DEF InCall
<1>1. /\ x.id # 0 /\ x.source \in Tokens /\ x.source_tid \in Tids
      /\ x.source_tid \in Tids \cup {0}
  BY <1>0, CallTypes
<1>2. InCall(f, e, t) /\ Replied(d, f, e, t, x, b)
  BY SendReplySound
<1>3. PICK w : w = Packet(x.source, x.source_tid, "REPLY", 0, 0, b)
  OBVIOUS
<1>4. w \in Work /\ w.transaction = 0
  BY <1>1, <1>3, PacketFacts, BinderAssumption
<1>5. x.target = e /\ x.target_tid = t
  <2>1. Serving(d, e, t, d.threads[e][t])
    BY <1>0 DEF Paired, ThreadsKnow
  <2>2. PICK y \in d.transactions : y.id = x.id /\ y.target = e /\ y.target_tid = t
    BY <1>1, <2>1 DEF Serving
  <2> QED BY <2>2 DEF Paired, NumbersGiven
<1>6. PICK X \in SUBSET d.transactions : X = {x}
  OBVIOUS
<1>7. Numbers(X) = {x.id}
  BY <1>6 DEF Numbers
<1>8. PICK I : I = {}
  OBVIOUS
<1>9. PICK g : g = PutQueue(f, f.next_transaction, f.transactions, d.work)
  OBVIOUS
<1>10. /\ g.next_transaction = f.next_transaction /\ g.transactions = f.transactions
       /\ g.work = d.work /\ g.endpoints = f.endpoints /\ g.threads = f.threads
       /\ g \in Device
  <2>1. f \in Device /\ f.next_transaction \in Counters /\ f.transactions \in Transactions
    BY <1>2, InCallFacts, FieldTypes
  <2>2. d.work \in Works
    BY <1>0, FieldTypes
  <2> QED BY <1>9, <2>1, <2>2, PutQueueFacts
<1>11. \A i \in DOMAIN d.work : d.work[i].transaction # x.id
  <2> SUFFICES ASSUME NEW i \in DOMAIN d.work, d.work[i].transaction = x.id PROVE FALSE
    OBVIOUS
  <2>1. PICK y \in d.transactions : y.id = x.id /\ y.target_tid = 0
    BY <1>1 DEF Paired, PacketsKnown, PacketOfCall
  <2>2. y = x
    BY <2>1 DEF Paired, NumbersGiven
  <2> QED BY <1>0, <1>5, <2>1, <2>2
<1>12. ASSUME NEW u \in Tokens, NEW y \in DOMAIN d.threads[u]
       PROVE /\ y \in DOMAIN f.threads[u]
             /\ Freer(d.threads[u][y], f.threads[u][y], {x.id})
  <2>1. PICK p : p = d.threads[u][y]
    OBVIOUS
  <2>2. PICK q : q = f.threads[u][y]
    OBVIOUS
  <2>3. /\ q.outgoing = IF u = x.source /\ y = x.source_tid THEN 0 ELSE p.outgoing
        /\ q.incoming = IF u = e /\ y = t THEN 0 ELSE p.incoming
        /\ q.dead_reply => p.dead_reply
    BY <1>2, <2>1, <2>2 DEF Replied
  <2>4. Calling(d, u, y, p) /\ Serving(d, u, y, p)
    BY <2>1 DEF Paired, ThreadsKnow
  <2>5. p.outgoing = x.id <=> u = x.source /\ y = x.source_tid
    <3>1. ASSUME p.outgoing = x.id PROVE u = x.source /\ y = x.source_tid
      BY <1>1, <2>4, <3>1 DEF Calling, Paired, NumbersGiven
    <3>2. d.threads[x.source][x.source_tid].outgoing = x.id
      BY DEF Paired, CallsGo, CallGoes
    <3> QED BY <2>1, <3>1, <3>2
  <2>6. p.incoming = x.id <=> u = e /\ y = t
    <3>1. ASSUME p.incoming = x.id PROVE u = e /\ y = t
      BY <1>1, <1>5, <2>4, <3>1 DEF Serving, Paired, NumbersGiven
    <3> QED BY <2>1, <3>1
  <2>7. Freer(p, q, {x.id})
    BY <2>3, <2>5, <2>6 DEF Freer
  <2> QED BY <1>2, <2>1, <2>2, <2>7 DEF Replied
<1>13. Kept(d.work, g.work, I)
  <2>1. d.work \in Seq(Work)
    BY <1>0, FieldTypes DEF Works
  <2> QED BY <1>8, <1>10, <2>1, KeptAll
<1>14. CallsEnd(d, g, X, I)
  <2>1. \A u \in Tokens : \A y \in DOMAIN d.threads[u] :
          y \in DOMAIN g.threads[u] /\ Freer(d.threads[u][y], g.threads[u][y], Numbers(X))
    BY <1>7, <1>10, <1>12
  <2>2. /\ g.next_transaction = d.next_transaction /\ g.transactions = d.transactions \ X
        /\ g.endpoints = d.endpoints
        /\ \A u \in Tokens : DOMAIN g.threads[u] = DOMAIN d.threads[u]
    BY <1>2, <1>6, <1>10 DEF Replied
  <2> QED BY <1>13, <2>1, <2>2 DEF CallsEnd
<1>15. Paired(g)
  BY <1>0, <1>7, <1>8, <1>11, <1>14, EndPaired
<1>16. PacketAdded(g, f, w)
  BY <1>2, <1>3, <1>10 DEF PacketAdded, Replied
<1> QED BY <1>4, <1>10, <1>15, <1>16, QueuedPaired

LEMMA ReceivedCall ==
  ASSUME NEW x \in Transaction, NEW t, NEW y, y = [x EXCEPT !.target_tid = t]
  PROVE /\ y.id = x.id /\ y.source = x.source /\ y.source_tid = x.source_tid
        /\ y.target = x.target /\ y.target_tid = t
  BY DEF Transaction

\* A thread that receives work: a call is its own from then on.
LEMMA TookPacketPaired ==
  ASSUME NEW d \in Device, Paired(d), NEW e \in Tokens, NEW t \in DOMAIN d.threads[e],
         NEW i \in DOMAIN d.work, d.work[i].transaction = 0, NEW f, Took(d, f, e, t, i)
  PROVE Paired(f)
<1>1. PICK X \in SUBSET d.transactions : X = {}
  OBVIOUS
<1>2. Numbers(X) = {}
  BY <1>1 DEF Numbers
<1>3. f.transactions = d.transactions \ X
  BY <1>1, CallTypes DEF Took, Received
<1>4. Kept(d.work, f.work, {i})
  <2>1. d.work \in Seq(Work)
    BY FieldTypes DEF Works
  <2> QED BY <2>1, KeptErase DEF Took
<1>5. ASSUME NEW u \in Tokens, NEW y \in DOMAIN d.threads[u]
      PROVE Freer(d.threads[u][y], f.threads[u][y], Numbers(X))
  <2>1. CASE u = e /\ y = t
    BY <1>2, <2>1 DEF Took, Freer
  <2>2. CASE ~(u = e /\ y = t)
    <3>1. f.threads[u][y] = d.threads[u][y]
      BY <2>2 DEF Took
    <3> QED BY <1>2, <3>1 DEF Freer
  <2> QED BY <2>1, <2>2
<1>6. /\ f.next_transaction = d.next_transaction
      /\ \A u \in Tokens : f.endpoints[u].used = d.endpoints[u].used
      /\ \A u \in Tokens : DOMAIN f.threads[u] = DOMAIN d.threads[u]
  BY DEF Took
<1>7. CallsEnd(d, f, X, {i})
  BY <1>3, <1>4, <1>5, <1>6 DEF CallsEnd
<1> QED BY <1>2, <1>7, EndPaired

LEMMA TookCallPaired ==
  ASSUME NEW d \in Device, Paired(d), NEW e \in Tokens, NEW t \in DOMAIN d.threads[e],
         t # 0, 0 \notin Tids, d.endpoints[e].used,
         NEW i \in DOMAIN d.work, d.work[i].transaction # 0, d.work[i].endpoint = e,
         d.threads[e][t].incoming = 0, d.threads[e][t].outgoing = 0,
         ~d.threads[e][t].dead_reply, NEW f, Took(d, f, e, t, i)
  PROVE Paired(f)
<1>1. PICK x \in d.transactions : /\ x.id = d.work[i].transaction /\ x.target = e
                                  /\ x.target_tid = 0
  BY DEF Paired, PacketsKnown, PacketOfCall
<1>2. PICK y : y = [x EXCEPT !.target_tid = t]
  OBVIOUS
<1>3. x \in Transaction /\ x.id # 0 /\ x.source \in Tokens
  BY CallTypes
<1>4. /\ y.id = x.id /\ y.source = x.source /\ y.source_tid = x.source_tid
      /\ y.target = e /\ y.target_tid = t
  BY <1>1, <1>2, <1>3, ReceivedCall
<1>5. /\ f.transactions = {IF z.id = x.id THEN [z EXCEPT !.target_tid = t] ELSE z :
                             z \in d.transactions}
      /\ f.work = Erase(d.work, i) /\ f.next_transaction = d.next_transaction
      /\ f.threads[e][t].incoming = x.id
      /\ f.threads[e][t].outgoing = 0 /\ ~f.threads[e][t].dead_reply
  BY <1>1 DEF Took, Received
<1>6. /\ \A u \in Tokens : f.endpoints[u].used = d.endpoints[u].used
      /\ \A u \in Tokens : DOMAIN f.threads[u] = DOMAIN d.threads[u]
      /\ \A u \in Tokens : \A s \in DOMAIN d.threads[u] :
           ~(u = e /\ s = t) => f.threads[u][s] = d.threads[u][s]
  BY DEF Took
<1>7. \A z \in d.transactions : z.id = x.id <=> z = x
  BY DEF Paired, NumbersGiven
<1>8. \A z : z \in f.transactions <=> z = y \/ (z \in d.transactions /\ z.id # x.id)
  <2>1. ASSUME NEW z, z \in f.transactions
        PROVE z = y \/ (z \in d.transactions /\ z.id # x.id)
    <3>1. PICK w \in d.transactions :
            z = IF w.id = x.id THEN [w EXCEPT !.target_tid = t] ELSE w
      BY <1>5, <2>1
    <3>2. CASE w.id = x.id
      <4>1. w = x
        BY <1>7, <3>2
      <4> QED BY <1>2, <3>1, <3>2, <4>1
    <3>3. CASE w.id # x.id
      BY <3>1, <3>3
    <3> QED BY <3>2, <3>3
  <2>2. y \in f.transactions
    BY <1>2, <1>5
  <2>3. ASSUME NEW z \in d.transactions, z.id # x.id PROVE z \in f.transactions
    BY <1>5, <2>3
  <2> QED BY <2>1, <2>2, <2>3
<1>9. PICK m \in [DOMAIN f.work -> DOMAIN d.work \ {i}] :
        /\ \A j \in DOMAIN f.work : f.work[j] = d.work[m[j]]
        /\ \A k, j \in DOMAIN f.work : m[k] = m[j] => k = j
        /\ \A k \in DOMAIN d.work \ {i} : \E j \in DOMAIN f.work : m[j] = k
  <2>1. d.work \in Seq(Work)
    BY FieldTypes DEF Works
  <2>2. Kept(d.work, f.work, {i})
    BY <1>5, <2>1, KeptErase
  <2> QED BY <2>2 DEF Kept
<1>10. \A j \in DOMAIN f.work : m[j] \in DOMAIN d.work /\ m[j] # i
  BY <1>9
<1>11. \A j \in DOMAIN f.work : f.work[j].transaction # x.id
  <2> SUFFICES ASSUME NEW j \in DOMAIN f.work, f.work[j].transaction = x.id PROVE FALSE
    OBVIOUS
  <2>1. d.work[m[j]].transaction = d.work[i].transaction
    BY <1>1, <1>9
  <2> QED BY <1>10, <2>1 DEF Paired, QueuedOnce
<1>12. NumbersGiven(f)
  <2>1. y.id < d.next_transaction
    BY <1>4 DEF Paired, NumbersGiven
  <2>2. \A z \in f.transactions : z.id < d.next_transaction
    BY <1>8, <2>1 DEF Paired, NumbersGiven
  <2>3. \A w, z \in f.transactions : w.id = z.id => w = z
    BY <1>4, <1>8 DEF Paired, NumbersGiven
  <2> QED BY <1>5, <2>2, <2>3 DEF NumbersGiven
<1>13. QueuedOnce(f)
  <2> SUFFICES ASSUME NEW k \in DOMAIN f.work, NEW j \in DOMAIN f.work,
                      f.work[k].transaction = f.work[j].transaction,
                      f.work[k].transaction # 0
               PROVE k = j
    BY DEF QueuedOnce
  <2>1. m[k] = m[j]
    BY <1>9, <1>10 DEF Paired, QueuedOnce
  <2> QED BY <1>9, <2>1
<1>14. ASSUME NEW z \in d.transactions
       PROVE /\ thread_for(f, z.source, z.source_tid) /\ endpoint_for(f, z.target)
             /\ f.threads[z.source][z.source_tid].outgoing = z.id /\ z.source # z.target
  <2>1. CallGoes(d, z) /\ z.source \in Tokens /\ z.id # 0
    BY CallTypes DEF Paired, CallsGo
  <2>2. z.source_tid \in DOMAIN d.threads[z.source]
        /\ d.threads[z.source][z.source_tid].outgoing = z.id
    BY <2>1 DEF CallGoes, thread_for
  <2>3. ~(z.source = e /\ z.source_tid = t)
    BY <2>1, <2>2
  <2>4. f.threads[z.source][z.source_tid] = d.threads[z.source][z.source_tid]
    BY <1>6, <2>1, <2>2, <2>3
  <2>5. thread_for(f, z.source, z.source_tid) /\ endpoint_for(f, z.target)
    BY <1>6, <2>1 DEF CallGoes, thread_for, endpoint_for
  <2> QED BY <2>1, <2>2, <2>4, <2>5 DEF CallGoes
<1>15. ASSUME NEW z \in f.transactions PROVE CallGoes(f, z)
  <2>1. CASE z = y
    <3>1. /\ thread_for(f, z.source, z.source_tid) /\ endpoint_for(f, z.target)
          /\ f.threads[z.source][z.source_tid].outgoing = z.id /\ z.source # z.target
      BY <1>1, <1>4, <1>14, <2>1
    <3>2. Serves(f, z)
      BY <1>4, <1>5, <1>6, <2>1 DEF Serves, thread_for, endpoint_for
    <3> QED BY <1>4, <2>1, <3>1, <3>2 DEF CallGoes
  <2>2. CASE z # y
    <3>1. z \in d.transactions /\ z.id # x.id
      BY <1>8, <2>2
    <3>2. CallGoes(d, z) /\ z.target \in Tokens /\ z.id # 0
      BY <3>1, CallTypes DEF Paired, CallsGo
    <3>3. ASSUME Queues(d, z) PROVE Queues(f, z)
      <4>1. PICK k \in DOMAIN d.work : d.work[k].transaction = z.id
        BY <3>3 DEF Queues
      <4>2. k # i
        BY <1>1, <3>1, <4>1
      <4> QED BY <1>9, <4>1, <4>2 DEF Queues
    <3>4. ASSUME Serves(d, z) PROVE Serves(f, z)
      <4>1. z.target_tid \in DOMAIN d.threads[z.target]
            /\ d.threads[z.target][z.target_tid].incoming = z.id
        BY <3>4 DEF Serves, thread_for
      <4>2. ~(z.target = e /\ z.target_tid = t)
        BY <3>2, <4>1
      <4>3. f.threads[z.target][z.target_tid] = d.threads[z.target][z.target_tid]
        BY <1>6, <3>2, <4>1, <4>2
      <4>4. thread_for(f, z.target, z.target_tid)
        BY <1>6, <3>2, <3>4 DEF Serves, thread_for, endpoint_for
      <4> QED BY <4>1, <4>3, <4>4 DEF Serves
    <3> QED BY <1>14, <3>1, <3>2, <3>3, <3>4 DEF CallGoes
  <2> QED BY <2>1, <2>2
<1>16. PacketsKnown(f)
  <2> SUFFICES ASSUME NEW j \in DOMAIN f.work, f.work[j].transaction # 0
               PROVE /\ f.work[j].tid = 0
                     /\ \E z \in f.transactions :
                          /\ z.id = f.work[j].transaction
                          /\ z.target = f.work[j].endpoint /\ z.target_tid = 0
    BY DEF PacketsKnown, PacketOfCall
  <2>1. PacketOfCall(d, f.work[j])
    BY <1>9, <1>10 DEF Paired, PacketsKnown
  <2>2. PICK z \in d.transactions : /\ z.id = f.work[j].transaction
                                    /\ z.target = f.work[j].endpoint /\ z.target_tid = 0
    BY <2>1 DEF PacketOfCall
  <2>3. z \in f.transactions
    BY <1>8, <1>11, <2>2
  <2> QED BY <2>1, <2>2, <2>3 DEF PacketOfCall
<1>17. ASSUME NEW u \in Tokens, NEW s \in DOMAIN f.threads[u]
       PROVE Calling(f, u, s, f.threads[u][s]) /\ Serving(f, u, s, f.threads[u][s])
  <2>1. CASE u = e /\ s = t
    <3>1. y \in f.transactions
      BY <1>8
    <3> QED BY <1>4, <1>5, <2>1, <3>1 DEF Calling, Serving
  <2>2. CASE ~(u = e /\ s = t)
    <3>1. s \in DOMAIN d.threads[u] /\ f.threads[u][s] = d.threads[u][s]
      BY <1>6, <2>2
    <3>2. PICK th : th = f.threads[u][s]
      OBVIOUS
    <3>3. Calling(d, u, s, th) /\ Serving(d, u, s, th)
      BY <3>1, <3>2 DEF Paired, ThreadsKnow
    <3>4. Calling(f, u, s, th)
      <4> SUFFICES ASSUME th.outgoing # 0
                   PROVE \E z \in f.transactions :
                           z.id = th.outgoing /\ z.source = u /\ z.source_tid = s
        BY DEF Calling
      <4>1. PICK z \in d.transactions :
              z.id = th.outgoing /\ z.source = u /\ z.source_tid = s
        BY <3>3 DEF Calling
      <4>2. CASE z = x
        BY <1>4, <1>8, <4>1, <4>2
      <4>3. CASE z # x
        BY <1>7, <1>8, <4>1, <4>3
      <4> QED BY <4>2, <4>3
    <3>5. s # 0
      BY <3>1, ThreadTable
    <3>6. Serving(f, u, s, th)
      BY <1>1, <1>7, <1>8, <3>3, <3>5 DEF Serving
    <3> QED BY <3>2, <3>4, <3>6
  <2> QED BY <2>1, <2>2
<1> QED BY <1>12, <1>13, <1>15, <1>16, <1>17 DEF Paired, CallsGo, ThreadsKnow

LEMMA TakesWorkPaired ==
  ASSUME NEW d, NEW e, NEW t, InCall(d, e, t), Paired(d), NEW f, TakesWork(d, e, t, f)
  PROVE Paired(f)
<1>1. /\ d \in Device /\ e \in Tokens /\ t \in DOMAIN d.threads[e] /\ t \in Tids
      /\ t # 0 /\ 0 \notin Tids /\ d.endpoints[e].used
  BY InCallFacts, BinderAssumption DEF InCall, endpoint_for
<1>2. PICK i : i \in work_for(d, e, t, FALSE) /\ f = TakeWork(d, e, t, i)
  BY DEF TakesWork
<1>3. /\ i \in DOMAIN d.work /\ d.work[i].endpoint = e
      /\ Addressed(d.work[i].tid, t, d.threads[e][t], FALSE)
  BY <1>2 DEF work_for
<1>4. Took(d, f, e, t, i)
  BY <1>2, <1>3, TakeWorkSound
<1>5. CASE d.work[i].transaction = 0
  BY <1>1, <1>3, <1>4, <1>5, TookPacketPaired
<1>6. CASE d.work[i].transaction # 0
  <2>1. d.work[i].tid = 0
    BY <1>3, <1>6 DEF Paired, PacketsKnown, PacketOfCall
  <2>2. /\ d.threads[e][t].incoming = 0 /\ d.threads[e][t].outgoing = 0
        /\ ~d.threads[e][t].dead_reply
    BY <1>1, <1>3, <2>1 DEF Addressed, accepts_process_work
  <2> QED BY <1>1, <1>3, <1>4, <1>6, <2>2, TookCallPaired
<1> QED BY <1>5, <1>6

\* What a command or a read did keeps the calls paired.
LEMMA EffectPaired ==
  ASSUME NEW d, NEW e, NEW t, InCall(d, e, t), Paired(d), NEW g, CallEffect(d, e, t, g)
  PROVE Paired(g)
<1>0. d \in Device
  BY InCallFacts
<1>1. CASE SameFlow(d, g)
  BY <1>0, <1>1, FlowPaired
<1>2. CASE TakesWork(d, e, t, g)
  BY <1>2, TakesWorkPaired
<1>3. ASSUME NEW r, SameTalk(d, r), NEW f, SameFlow(f, g), Sound(f, 0),
             Paired(r) => Paired(f)
      PROVE Paired(g)
  <2>1. Paired(r)
    BY <1>0, <1>3, TalkPaired
  <2>2. f \in Device
    BY <1>3, SoundFacts
  <2> QED BY <1>3, <2>1, <2>2, FlowPaired
<1>4. CASE TransferEffect(d, e, t, g) /\ ~SameFlow(d, g)
  <2>1. PICK r, f, n, b :
       /\ SameTalk(d, r) /\ SameFlow(f, g) /\ InCall(r, e, t) /\ Sound(f, 0)
       /\ n \in DOMAIN r.nodes /\ b \in Buffers /\ Len(r.work) # PacketLimit
       /\ endpoint_for(r, r.nodes[n].owner)
       /\ \/ f = SendOneWay(r, n, b)
          \/ /\ f = SendCall(r, e, t, n, b) /\ r.next_transaction <= TxnLimit
             /\ r.threads[e][t].incoming = 0 /\ r.threads[e][t].outgoing = 0
             /\ r.nodes[n].owner # e
    BY <1>4 DEF TransferEffect, Reservation
  <2>2. /\ Sound(r, 0) /\ endpoint_for(r, e) /\ t \in DOMAIN r.threads[e] /\ e \in Tokens
    BY <2>1 DEF InCall, endpoint_for
  <2>3. ASSUME Paired(r) PROVE Paired(f)
    <3>1. CASE f = SendOneWay(r, n, b)
      BY <2>1, <2>2, <2>3, <3>1, OneWayPaired
    <3>2. CASE f # SendOneWay(r, n, b)
      BY <2>1, <2>2, <2>3, <3>2, CallPaired
    <3> QED BY <3>1, <3>2
  <2> QED BY <1>3, <2>1, <2>3
<1>5. CASE ReplyEffect(d, e, t, g) /\ ~SameFlow(d, g)
  <2>1. PICK r, f, x, b :
       /\ SameTalk(d, r) /\ SameFlow(f, g) /\ InCall(r, e, t) /\ Sound(f, 0)
       /\ x \in r.transactions /\ x.id = r.threads[e][t].incoming /\ b \in Buffers
       /\ x.source_tid \in DOMAIN r.threads[x.source] /\ Len(r.work) # PacketLimit
       /\ f = SendReply(r, e, t, x, b)
    BY <1>5 DEF ReplyEffect, Reservation
  <2>2. Paired(r) => Paired(f)
    BY <2>1, ReplyPaired
  <2> QED BY <1>3, <2>1, <2>2
<1>6. ASSUME NEW b, FreeEffect(d, e, b, g), ~SameFlow(d, g) PROVE Paired(g)
  <2>1. PICK f : SameTalk(d, f) /\ Sound(f, 0) /\ SameFlow(f, g)
    BY <1>6 DEF FreeEffect
  <2>2. Paired(f) /\ f \in Device
    BY <1>0, <2>1, TalkPaired, SoundFacts
  <2> QED BY <2>1, <2>2, FlowPaired
<1> QED BY <1>1, <1>2, <1>4, <1>5, <1>6 DEF CallEffect

----------------------------------------------------------------------------
(* The buffers that packets hold, and the turns of one-way calls.            *)

Published(d, e, b) == d.endpoints[e].arena[b] = "delivered"
Fills(w, e, b) == w.endpoint = e /\ w.buffer = b
BuffersOnce(d) ==
  \A i, j \in DOMAIN d.work : Fills(d.work[i], d.work[j].endpoint, d.work[j].buffer) => i = j
ReservedQueued(d) ==
  \A e \in Tokens : \A b \in Buffers :
    d.endpoints[e].arena[b] = "reserved" => \E i \in DOMAIN d.work : Fills(d.work[i], e, b)
\* A one-way call is for any thread of the owner of its node, as long as it is there.
OneWayPacket(d, w) ==
  w.async_node # 0 =>
    /\ w.tid = 0 /\ w.transaction = 0 /\ w.async_node \in Given(d)
    /\ w.async_node \in DOMAIN d.nodes => d.nodes[w.async_node].owner = w.endpoint
Receivable(d, w) ==
  endpoint_for(d, w.endpoint) /\ (w.tid # 0 => thread_for(d, w.endpoint, w.tid))
PacketHeld(d, w) ==
  /\ Receivable(d, w) /\ d.endpoints[w.endpoint].arena[w.buffer] = "reserved"
  /\ OneWayPacket(d, w)
PacketsHeld(d) == \A i \in DOMAIN d.work : PacketHeld(d, d.work[i])
FirstOf(d, n, i) ==
  /\ d.work[i].async_node = n
  /\ \A j \in DOMAIN d.work : d.work[j].async_node = n => i <= j
\* a is the active buffer of node n, o the node's owner: it is the one of the first
\* call that is queued, or its receiver has not freed it ...
TurnOfFirst(d, n, o, a) ==
  \A i \in DOMAIN d.work : FirstOf(d, n, i) =>
    a = d.work[i].buffer \/ (a # 0 /\ Published(d, o, a))
\* ... and it is a queued call's or one that was published.
TurnTaken(d, n, o, a) ==
  a # 0 /\ endpoint_for(d, o) =>
    \/ Published(d, o, a)
    \/ \E i \in DOMAIN d.work : d.work[i].async_node = n /\ d.work[i].buffer = a
NodeTurn(d, n, o, a) == TurnOfFirst(d, n, o, a) /\ TurnTaken(d, n, o, a)
NodeTurns(d) ==
  \A n \in DOMAIN d.nodes : NodeTurn(d, n, d.nodes[n].owner, d.nodes[n].async_buffer)
Owned(d) == BuffersOnce(d) /\ ReservedQueued(d) /\ PacketsHeld(d) /\ NodeTurns(d)

LEMMA WorkTypes ==
  ASSUME NEW d \in Device, NEW i \in DOMAIN d.work
  PROVE /\ i \in Nat /\ d.work[i] \in Work
        /\ d.work[i].endpoint \in Tokens /\ d.work[i].buffer \in Buffers
        /\ d.work[i].buffer # 0 /\ d.work[i].async_node \in Nat
<1>1. d.work \in Seq(Work)
  BY FieldTypes DEF Works
<1>2. i \in Nat /\ d.work[i] \in Work
  BY <1>1
<1> QED BY <1>2, BinderAssumption DEF Work, Buffers

LEMMA TurnTypes ==
  ASSUME NEW d \in Device, NEW n \in DOMAIN d.nodes
  PROVE /\ d.nodes[n].owner \in Tokens /\ n # 0
        /\ d.nodes[n].async_buffer # 0 => d.nodes[n].async_buffer \in Buffers
<1>1. d.nodes[n].owner \in Tokens /\ n # 0 /\ d.nodes[n] \in GoodNode
  BY NodeTable
<1>2. d.nodes[n].async_buffer \in 0..BufferLimit
  BY <1>1 DEF GoodNode, Node
<1> QED BY <1>1, <1>2, BinderAssumption DEF Buffers

\* Endpoint u is still there, and the buffers of the packets at I have state v.
StaysUsed(d, f, u, I, v) ==
  /\ f.endpoints[u].used /\ d.endpoints[u].used
  /\ \A b \in Buffers : f.endpoints[u].arena[b] =
       IF Freed(d, I, u, b) THEN v ELSE d.endpoints[u].arena[b]
\* Endpoint u is gone, or it is a new one.
NotUsed(d, f, u) ==
  /\ \A b \in Buffers : f.endpoints[u].arena[b] # "reserved"
  /\ \/ ~f.endpoints[u].used
     \/ ~d.endpoints[u].used /\ \A n \in DOMAIN d.nodes : d.nodes[n].owner # u
\* A one-way call leaves the queue with its target, or when it is its turn.
OneWayEnds(f, w, v) ==
  w.async_node # 0 =>
    \/ ~endpoint_for(f, w.endpoint)
    \/ v = "delivered" /\ (w.async_node \in DOMAIN f.nodes =>
                             f.nodes[w.async_node].async_buffer = w.buffer)
TurnStays(d, f, n) ==
  \/ /\ n \in DOMAIN d.nodes /\ f.nodes[n].owner = d.nodes[n].owner
     /\ f.nodes[n].async_buffer = d.nodes[n].async_buffer
  \/ n \notin Given(d) /\ f.nodes[n].async_buffer = 0
\* f is d when the packets at the positions I have left the queue.
PacketsGo(d, f, I, v) ==
  /\ Given(d) \subseteq Given(f)
  /\ I \subseteq DOMAIN d.work /\ Kept(d.work, f.work, I)
  /\ \A j \in DOMAIN f.work : Receivable(f, f.work[j])
  /\ \A u \in Tokens : StaysUsed(d, f, u, I, v) \/ NotUsed(d, f, u)
  /\ \A n \in DOMAIN f.nodes : TurnStays(d, f, n)
  /\ \A i \in I : OneWayEnds(f, d.work[i], v)

LEMMA GoOwned ==
  ASSUME NEW d \in Device, Owned(d), NEW f \in Device, NEW I,
         NEW v \in {"free", "delivered"}, PacketsGo(d, f, I, v)
  PROVE Owned(f)
<1>1. PICK m \in [DOMAIN f.work -> DOMAIN d.work \ I] :
        /\ \A j \in DOMAIN f.work : f.work[j] = d.work[m[j]]
        /\ \A i, j \in DOMAIN f.work : (i < j => m[i] < m[j]) /\ (m[i] = m[j] => i = j)
        /\ \A k \in DOMAIN d.work \ I : \E j \in DOMAIN f.work : m[j] = k
  BY DEF PacketsGo, Kept
<1>2. \A j \in DOMAIN f.work : m[j] \in DOMAIN d.work /\ m[j] \notin I
  BY <1>1
<1>3. BuffersOnce(f)
  <2> SUFFICES ASSUME NEW i \in DOMAIN f.work, NEW j \in DOMAIN f.work,
                      Fills(f.work[i], f.work[j].endpoint, f.work[j].buffer)
               PROVE i = j
    BY DEF BuffersOnce
  <2>1. m[i] = m[j]
    BY <1>1, <1>2 DEF Owned, BuffersOnce
  <2> QED BY <1>1, <2>1
<1>4. ASSUME NEW u \in Tokens, NEW b \in Buffers, NEW i \in DOMAIN d.work,
             d.work[i].endpoint = u, d.work[i].buffer = b, i \notin I
      PROVE ~Freed(d, I, u, b)
  BY <1>4 DEF Freed, PacketsGo, Owned, BuffersOnce, Fills
<1>5. ASSUME NEW u \in Tokens, f.endpoints[u].used, d.endpoints[u].used
      PROVE StaysUsed(d, f, u, I, v)
  BY <1>5 DEF PacketsGo, NotUsed
<1>6. ReservedQueued(f)
  <2> SUFFICES ASSUME NEW e \in Tokens, NEW b \in Buffers,
                      f.endpoints[e].arena[b] = "reserved"
               PROVE \E j \in DOMAIN f.work : Fills(f.work[j], e, b)
    BY DEF ReservedQueued
  <2>1. ~Freed(d, I, e, b) /\ d.endpoints[e].arena[b] = "reserved"
    BY DEF PacketsGo, StaysUsed, NotUsed
  <2>2. PICK i \in DOMAIN d.work : Fills(d.work[i], e, b)
    BY <2>1 DEF Owned, ReservedQueued
  <2>3. i \notin I
    BY <2>1, <2>2 DEF Freed, Fills
  <2> QED BY <1>1, <2>2, <2>3
<1>7. ASSUME NEW j \in DOMAIN f.work
      PROVE PacketHeld(f, f.work[j]) /\ PacketHeld(d, f.work[j])
  <2>1. PICK w \in Work : w = f.work[j]
    BY WorkTypes
  <2>2. w = d.work[m[j]] /\ m[j] \in DOMAIN d.work /\ m[j] \notin I
    BY <1>1, <1>2, <2>1
  <2>3. PacketHeld(d, w) /\ w.endpoint \in Tokens /\ w.buffer \in Buffers
    BY <2>2, WorkTypes DEF Owned, PacketsHeld
  <2>4. Receivable(f, w)
    BY <2>1 DEF PacketsGo
  <2>5. StaysUsed(d, f, w.endpoint, I, v)
    BY <1>5, <2>3, <2>4 DEF PacketHeld, Receivable, endpoint_for
  <2>6. f.endpoints[w.endpoint].arena[w.buffer] = "reserved"
    BY <1>4, <2>2, <2>3, <2>5 DEF StaysUsed, PacketHeld
  <2>7. OneWayPacket(f, w)
    BY <2>3 DEF PacketHeld, OneWayPacket, PacketsGo, TurnStays
  <2> QED BY <2>1, <2>3, <2>4, <2>6, <2>7 DEF PacketHeld
<1>8. ASSUME NEW u \in Tokens, NEW b \in Buffers, f.endpoints[u].used, d.endpoints[u].used,
             Published(d, u, b)
      PROVE Published(f, u, b)
  <2>1. ~Freed(d, I, u, b)
    BY <1>8 DEF Freed, Published, PacketsGo, Owned, PacketsHeld, PacketHeld
  <2> QED BY <1>5, <1>8, <2>1 DEF StaysUsed, Published
<1>9. ASSUME NEW i \in I, NEW n \in DOMAIN f.nodes, n \in DOMAIN d.nodes,
             d.work[i].async_node = n, endpoint_for(f, d.nodes[n].owner)
      PROVE /\ v = "delivered" /\ f.nodes[n].async_buffer = d.work[i].buffer
            /\ Published(f, d.nodes[n].owner, d.work[i].buffer)
  <2>1. i \in DOMAIN d.work /\ n # 0
    BY TurnTypes DEF PacketsGo
  <2>2. PICK w \in Work : w = d.work[i]
    BY <2>1, WorkTypes
  <2>3. w.endpoint = d.nodes[n].owner /\ endpoint_for(d, w.endpoint)
        /\ w.endpoint \in Tokens /\ w.buffer \in Buffers /\ w.async_node = n
    BY <1>9, <2>1, <2>2, WorkTypes DEF Owned, PacketsHeld, PacketHeld, OneWayPacket, Receivable
  <2>4. v = "delivered" /\ f.nodes[n].async_buffer = w.buffer
    BY <1>9, <2>1, <2>2, <2>3 DEF PacketsGo, OneWayEnds
  <2>5. StaysUsed(d, f, w.endpoint, I, v) /\ Freed(d, I, w.endpoint, w.buffer)
    BY <1>5, <1>9, <2>2, <2>3 DEF endpoint_for, Freed
  <2>6. Published(f, w.endpoint, w.buffer)
    BY <2>3, <2>4, <2>5 DEF StaysUsed, Published
  <2> QED BY <2>2, <2>3, <2>4, <2>6
<1>10. ASSUME NEW n \in DOMAIN f.nodes, n \in DOMAIN d.nodes, NEW o \in Tokens,
              o = d.nodes[n].owner, NEW a, a = d.nodes[n].async_buffer, a # 0 => a \in Buffers,
              f.nodes[n].async_buffer = a, f.nodes[n].owner = o
       PROVE TurnOfFirst(f, n, o, a)
  <2> SUFFICES ASSUME NEW i \in DOMAIN f.work, FirstOf(f, n, i)
               PROVE a = f.work[i].buffer \/ (a # 0 /\ Published(f, o, a))
    BY DEF TurnOfFirst
  <2>1. f.work[i].async_node = n /\ n # 0
    BY TurnTypes DEF FirstOf
  <2>2. f.work[i].endpoint = o /\ endpoint_for(f, o) /\ endpoint_for(d, o)
    BY <1>7, <1>10, <2>1 DEF PacketHeld, OneWayPacket, Receivable
  <2>3. CASE \E k \in I : d.work[k].async_node = n
    <3>1. PICK k \in I : d.work[k].async_node = n
      BY <2>3
    <3>2. a = d.work[k].buffer /\ Published(f, o, d.work[k].buffer) /\ k \in DOMAIN d.work
      BY <1>9, <1>10, <2>2, <3>1 DEF PacketsGo
    <3> QED BY <3>2, WorkTypes
  <2>4. CASE ~\E k \in I : d.work[k].async_node = n
    <3>1. ASSUME NEW k \in DOMAIN d.work, d.work[k].async_node = n PROVE m[i] <= k
      <4>1. k \notin I
        BY <2>4, <3>1
      <4>2. PICK j \in DOMAIN f.work : m[j] = k
        BY <1>1, <4>1
      <4>3. f.work[j].async_node = n
        BY <1>1, <3>1, <4>2
      <4>4. i <= j
        BY <4>3 DEF FirstOf
      <4>5. i \in Nat /\ j \in Nat /\ m[i] \in Nat /\ k \in Nat
        BY <1>2, WorkTypes
      <4>6. i = j \/ i < j
        BY <4>4, <4>5
      <4> QED BY <1>1, <4>2, <4>5, <4>6
    <3>2. FirstOf(d, n, m[i]) /\ m[i] \in DOMAIN d.work /\ f.work[i] = d.work[m[i]]
      BY <1>1, <1>2, <2>1, <3>1 DEF FirstOf
    <3>3. TurnOfFirst(d, n, o, a)
      BY <1>10 DEF Owned, NodeTurns, NodeTurn
    <3>4. a = f.work[i].buffer \/ (a # 0 /\ Published(d, o, a))
      BY <3>2, <3>3 DEF TurnOfFirst
    <3> QED BY <1>8, <1>10, <2>2, <3>4 DEF endpoint_for
  <2> QED BY <2>3, <2>4
<1>11. ASSUME NEW n \in DOMAIN f.nodes, n \in DOMAIN d.nodes, NEW o \in Tokens,
              o = d.nodes[n].owner, NEW a, a = d.nodes[n].async_buffer, a # 0 => a \in Buffers,
              f.nodes[n].async_buffer = a
       PROVE TurnTaken(f, n, o, a)
  <2> SUFFICES ASSUME a # 0, endpoint_for(f, o)
               PROVE \/ Published(f, o, a)
                     \/ \E j \in DOMAIN f.work : f.work[j].async_node = n /\ f.work[j].buffer = a
    BY DEF TurnTaken
  <2>1. endpoint_for(d, o)
    BY <1>11 DEF PacketsGo, StaysUsed, NotUsed, endpoint_for
  <2>2. TurnTaken(d, n, o, a)
    BY <1>11 DEF Owned, NodeTurns, NodeTurn
  <2>3. CASE Published(d, o, a)
    BY <1>8, <1>11, <2>1, <2>3 DEF endpoint_for
  <2>4. CASE ~Published(d, o, a)
    <3>1. PICK k \in DOMAIN d.work : d.work[k].async_node = n /\ d.work[k].buffer = a
      BY <2>1, <2>2, <2>4 DEF TurnTaken
    <3>2. CASE k \in I
      BY <1>9, <1>11, <3>1, <3>2
    <3>3. CASE k \notin I
      BY <1>1, <3>1, <3>3
    <3> QED BY <3>2, <3>3
  <2> QED BY <2>3, <2>4
<1>12. ASSUME NEW n \in DOMAIN f.nodes, n \notin Given(d), NEW o
       PROVE NodeTurn(f, n, o, 0)
  <2>1. n # 0
    BY TurnTypes
  <2>2. \A j \in DOMAIN f.work : f.work[j].async_node # n
    BY <1>7, <1>12, <2>1 DEF PacketHeld, OneWayPacket
  <2> QED BY <2>2 DEF NodeTurn, TurnOfFirst, TurnTaken, FirstOf
<1>13. ASSUME NEW n \in DOMAIN f.nodes
       PROVE NodeTurn(f, n, f.nodes[n].owner, f.nodes[n].async_buffer)
  <2>1. PICK o \in Tokens : o = f.nodes[n].owner
    BY TurnTypes
  <2>2. PICK a : a = f.nodes[n].async_buffer
    OBVIOUS
  <2>3. a # 0 => a \in Buffers
    BY <2>2, TurnTypes
  <2>4. \/ n \in DOMAIN d.nodes /\ o = d.nodes[n].owner /\ a = d.nodes[n].async_buffer
        \/ n \notin Given(d) /\ a = 0
    BY <2>1, <2>2 DEF PacketsGo, TurnStays
  <2>5. NodeTurn(f, n, o, a)
    <3>1. CASE n \notin Given(d) /\ a = 0
      BY <1>12, <3>1
    <3>2. CASE n \in DOMAIN d.nodes /\ o = d.nodes[n].owner /\ a = d.nodes[n].async_buffer
      BY <1>10, <1>11, <2>1, <2>2, <2>3, <3>2 DEF NodeTurn
    <3> QED BY <2>4, <3>1, <3>2
  <2> QED BY <2>1, <2>2, <2>5
<1> QED BY <1>3, <1>6, <1>7, <1>13 DEF Owned, PacketsHeld, NodeTurns

\* What may have become of the one-way calls queued in d.
OneWayStays(d, f) ==
  \A i \in DOMAIN d.work : LET w == d.work[i] IN
    w.async_node # 0 => w \in Range(f.work) \/ ~f.endpoints[w.endpoint].used
OneWayMoves(d, f) ==
  \A i \in DOMAIN d.work : LET w == d.work[i] IN
    w.async_node # 0 => \/ w \in Range(f.work) \/ Published(f, w.endpoint, w.buffer)
                        \/ ~f.endpoints[w.endpoint].used
NoneOpens(d, f) == \A u \in Tokens : f.endpoints[u].used => d.endpoints[u].used

LEMMA GoMoves ==
  ASSUME NEW d \in Device, Owned(d), NEW f, NEW I,
         NEW v \in {"free", "delivered"}, PacketsGo(d, f, I, v)
  PROVE OneWayMoves(d, f) /\ (v = "free" => OneWayStays(d, f))
<1>1. ASSUME NEW i \in DOMAIN d.work, i \notin I PROVE d.work[i] \in Range(f.work)
  <2>1. PICK j \in DOMAIN f.work : f.work[j] = d.work[i]
    BY <1>1 DEF PacketsGo, Kept
  <2> QED BY <2>1 DEF Range
<1>2. ASSUME NEW i \in DOMAIN d.work, i \in I, d.work[i].async_node # 0
      PROVE LET w == d.work[i] IN
            \/ ~f.endpoints[w.endpoint].used
            \/ v = "delivered" /\ Published(f, w.endpoint, w.buffer)
  <2>1. PICK w \in Work : w = d.work[i]
    BY WorkTypes
  <2>2. w.endpoint \in Tokens /\ w.buffer \in Buffers /\ d.endpoints[w.endpoint].used
    BY <2>1, WorkTypes DEF Owned, PacketsHeld, PacketHeld, Receivable, endpoint_for
  <2>3. OneWayEnds(f, w, v)
    BY <1>2, <2>1 DEF PacketsGo
  <2>4. CASE ~f.endpoints[w.endpoint].used
    BY <2>1, <2>4
  <2>5. CASE f.endpoints[w.endpoint].used
    <3>1. v = "delivered"
      BY <1>2, <2>1, <2>2, <2>3, <2>5 DEF OneWayEnds, endpoint_for
    <3>2. StaysUsed(d, f, w.endpoint, I, v)
      BY <2>2, <2>5 DEF PacketsGo, NotUsed
    <3>3. Freed(d, I, w.endpoint, w.buffer)
      BY <1>2, <2>1 DEF Freed
    <3> QED BY <2>1, <2>2, <3>1, <3>2, <3>3 DEF StaysUsed, Published
  <2> QED BY <2>4, <2>5
<1> QED BY <1>1, <1>2 DEF OneWayMoves, OneWayStays

LEMMA StaysTrans ==
  ASSUME NEW d \in Device, NEW f, NEW g, NoneOpens(f, g), OneWayStays(d, f), OneWayStays(f, g)
  PROVE OneWayStays(d, g)
<1> SUFFICES ASSUME NEW i \in DOMAIN d.work, d.work[i].async_node # 0
             PROVE d.work[i] \in Range(g.work) \/ ~g.endpoints[d.work[i].endpoint].used
  BY DEF OneWayStays
<1>1. d.work[i].endpoint \in Tokens
  BY WorkTypes
<1>2. CASE d.work[i] \in Range(f.work)
  <2>1. PICK j \in DOMAIN f.work : f.work[j] = d.work[i]
    BY <1>2 DEF Range
  <2> QED BY <2>1 DEF OneWayStays
<1>3. CASE d.work[i] \notin Range(f.work)
  BY <1>1, <1>3 DEF OneWayStays, NoneOpens
<1> QED BY <1>2, <1>3

LEMMA MovesTrans ==
  ASSUME NEW d \in Device, NEW f, NEW g, NoneOpens(f, g), OneWayStays(d, f), OneWayMoves(f, g)
  PROVE OneWayMoves(d, g)
<1> SUFFICES ASSUME NEW i \in DOMAIN d.work, d.work[i].async_node # 0
             PROVE LET w == d.work[i] IN
                   \/ w \in Range(g.work) \/ Published(g, w.endpoint, w.buffer)
                   \/ ~g.endpoints[w.endpoint].used
  BY DEF OneWayMoves
<1>1. d.work[i].endpoint \in Tokens
  BY WorkTypes
<1>2. CASE d.work[i] \in Range(f.work)
  <2>1. PICK j \in DOMAIN f.work : f.work[j] = d.work[i]
    BY <1>2 DEF Range
  <2> QED BY <2>1 DEF OneWayMoves
<1>3. CASE d.work[i] \notin Range(f.work)
  BY <1>1, <1>3 DEF OneWayStays, NoneOpens
<1> QED BY <1>2, <1>3

LEMMA FlowMoves ==
  ASSUME NEW d \in Device, NEW f, NEW g, OneWayMoves(d, f), SameFlow(f, g)
  PROVE OneWayMoves(d, g)
<1> SUFFICES ASSUME NEW i \in DOMAIN d.work, d.work[i].async_node # 0
             PROVE LET w == d.work[i] IN
                   \/ w \in Range(g.work) \/ Published(g, w.endpoint, w.buffer)
                   \/ ~g.endpoints[w.endpoint].used
  BY DEF OneWayMoves
<1>1. d.work[i].endpoint \in Tokens /\ d.work[i].buffer \in Buffers
  BY WorkTypes
<1>2. g.work = f.work
  BY DEF SameFlow, SameTalk
<1>3. \A u \in Tokens : /\ g.endpoints[u].used = f.endpoints[u].used
                        /\ \A b \in Buffers : g.endpoints[u].arena[b] = f.endpoints[u].arena[b]
  BY DEF SameFlow, SameBuffers
<1> QED BY <1>1, <1>2, <1>3 DEF OneWayMoves, Published

LEMMA KeptMoves ==
  ASSUME NEW d, NEW f, \A i \in DOMAIN d.work : i \in DOMAIN f.work /\ f.work[i] = d.work[i]
  PROVE OneWayMoves(d, f)
  BY DEF OneWayMoves, Range

\* Packets are received as long as the threads and endpoints are there.
LEMMA TurnsStay ==
  ASSUME NEW d, NEW f, SameTurns(d, f) \/ OldNodes(d, f)
  PROVE Given(d) \subseteq Given(f) /\ \A n \in DOMAIN f.nodes : TurnStays(d, f, n)
<1>1. CASE SameTurns(d, f)
  BY <1>1 DEF SameTurns, SameNode, TurnStays
<1>2. CASE OldNodes(d, f)
  BY <1>2 DEF OldNodes, Given, TurnStays
<1> QED BY <1>1, <1>2

LEMMA TalkReceives ==
  ASSUME NEW d \in Device, Owned(d), NEW f, SameTalk(d, f)
  PROVE \A i \in DOMAIN d.work : Receivable(f, d.work[i])
<1> TAKE i \in DOMAIN d.work
<1>1. Receivable(d, d.work[i])
  BY DEF Owned, PacketsHeld, PacketHeld
<1> QED BY <1>1 DEF Receivable, endpoint_for, thread_for, SameTalk

\* Nobody sends, receives, drops or frees a packet; endpoints may be new.
LEMMA QuietGo ==
  ASSUME NEW d \in Device, Owned(d), NEW f, f.work = d.work,
         \A i \in DOMAIN d.work : Receivable(f, d.work[i]),
         SameTurns(d, f),
         \A u \in Tokens : \/ NotUsed(d, f, u)
                           \/ /\ f.endpoints[u].used = d.endpoints[u].used
                              /\ \A b \in Buffers :
                                   f.endpoints[u].arena[b] = d.endpoints[u].arena[b]
  PROVE PacketsGo(d, f, {}, "free")
<1>1. Kept(d.work, f.work, {})
  <2>1. d.work \in Seq(Work)
    BY FieldTypes DEF Works
  <2> QED BY <2>1, KeptAll
<1>2. ASSUME NEW u \in Tokens, ~NotUsed(d, f, u)
      PROVE StaysUsed(d, f, u, {}, "free")
  <2>1. /\ f.endpoints[u].used = d.endpoints[u].used
        /\ \A b \in Buffers : f.endpoints[u].arena[b] = d.endpoints[u].arena[b]
    BY <1>2
  <2>2. \A b \in Buffers : ~Freed(d, {}, u, b)
    BY DEF Freed
  <2>3. d.endpoints[u].used
    <3> SUFFICES ASSUME ~d.endpoints[u].used PROVE FALSE
      OBVIOUS
    <3>1. PICK b \in Buffers : f.endpoints[u].arena[b] = "reserved"
      BY <1>2, <2>1 DEF NotUsed
    <3>2. PICK i \in DOMAIN d.work : Fills(d.work[i], u, b)
      BY <2>1, <3>1 DEF Owned, ReservedQueued
    <3> QED BY <3>2 DEF Owned, PacketsHeld, PacketHeld, Receivable, endpoint_for, Fills
  <2> QED BY <2>1, <2>2, <2>3 DEF StaysUsed
<1> QED BY <1>1, <1>2, TurnsStay DEF PacketsGo

LEMMA FlowOwned ==
  ASSUME NEW d \in Device, Owned(d), NEW f \in Device, SameFlow(d, f)
  PROVE Owned(f) /\ OneWayMoves(d, f) /\ OneWayStays(d, f)
<1>1. SameTalk(d, f) /\ SameBuffers(d, f) /\ SameTurns(d, f) /\ f.work = d.work
  BY DEF SameFlow, SameTalk
<1>2. \A i \in DOMAIN d.work : Receivable(f, d.work[i])
  BY <1>1, TalkReceives
<1>3. PacketsGo(d, f, {}, "free")
  BY <1>1, <1>2, QuietGo DEF SameBuffers
<1> QED BY <1>3, GoOwned, GoMoves

\* The active buffer of node n once packet w is queued: its own, or w's if there
\* was none.
TurnJoins(d, f, n, w) ==
  \E a : /\ \/ n \in DOMAIN d.nodes /\ f.nodes[n].owner = d.nodes[n].owner
               /\ a = d.nodes[n].async_buffer
            \/ n \notin Given(d) /\ a = 0
         /\ f.nodes[n].async_buffer = IF w.async_node = n /\ a = 0 THEN w.buffer ELSE a
\* f is d with the packet w queued, for which a free buffer was reserved.
Joins(d, f, w) ==
  /\ f.work = Append(d.work, w) /\ BufferTaken(d, f, w.endpoint, w.buffer)
  /\ Given(d) \subseteq Given(f)
  /\ \A i \in DOMAIN d.work : Receivable(f, d.work[i])
  /\ Receivable(f, w) /\ OneWayPacket(f, w)
  /\ \A n \in DOMAIN f.nodes : TurnJoins(d, f, n, w)

LEMMA JoinOwned ==
  ASSUME NEW d \in Device, Owned(d), NEW f \in Device, NEW w \in Work, Joins(d, f, w)
  PROVE Owned(f) /\ OneWayMoves(d, f)
<1>1. PICK k : k = Len(d.work) + 1
  OBVIOUS
<1>2. /\ \A i \in DOMAIN d.work : i \in DOMAIN f.work /\ f.work[i] = d.work[i]
      /\ k \in DOMAIN f.work /\ f.work[k] = w /\ k \notin DOMAIN d.work
      /\ \A i \in DOMAIN f.work : i \in DOMAIN d.work \/ i = k
  BY <1>1, AppendFacts DEF Joins
<1>3. \A i \in DOMAIN d.work : i \in Nat /\ k \in Nat /\ i < k
  BY <1>1, FieldTypes DEF Works
<1>4. w.endpoint \in Tokens /\ w.buffer \in Buffers /\ w.buffer # 0
  BY BinderAssumption DEF Work, Buffers
<1>5. /\ d.endpoints[w.endpoint].arena[w.buffer] = "free"
      /\ f.endpoints[w.endpoint].arena[w.buffer] = "reserved"
      /\ \A e \in Tokens : f.endpoints[e].used = d.endpoints[e].used
      /\ \A e \in Tokens : \A c \in Buffers :
           (e # w.endpoint \/ c # w.buffer) =>
             f.endpoints[e].arena[c] = d.endpoints[e].arena[c]
  BY DEF Joins, BufferTaken, BufferIs
<1>6. ASSUME NEW i \in DOMAIN d.work
      PROVE /\ d.endpoints[d.work[i].endpoint].arena[d.work[i].buffer] = "reserved"
            /\ ~Fills(d.work[i], w.endpoint, w.buffer) /\ OneWayPacket(d, d.work[i])
            /\ PacketHeld(d, d.work[i])
  BY <1>5 DEF Owned, PacketsHeld, PacketHeld, Fills
<1>7. BuffersOnce(f)
  <2> SUFFICES ASSUME NEW i \in DOMAIN f.work, NEW j \in DOMAIN f.work,
                      Fills(f.work[i], f.work[j].endpoint, f.work[j].buffer)
               PROVE i = j
    BY DEF BuffersOnce
  <2>1. CASE i \in DOMAIN d.work /\ j \in DOMAIN d.work
    BY <1>2, <2>1 DEF Owned, BuffersOnce
  <2>2. CASE ~(i \in DOMAIN d.work /\ j \in DOMAIN d.work)
    BY <1>2, <1>6, <2>2 DEF Fills
  <2> QED BY <2>1, <2>2
<1>8. ReservedQueued(f)
  <2> SUFFICES ASSUME NEW e \in Tokens, NEW b \in Buffers,
                      f.endpoints[e].arena[b] = "reserved"
               PROVE \E i \in DOMAIN f.work : Fills(f.work[i], e, b)
    BY DEF ReservedQueued
  <2>1. CASE e = w.endpoint /\ b = w.buffer
    BY <1>2, <2>1 DEF Fills
  <2>2. CASE ~(e = w.endpoint /\ b = w.buffer)
    <3>1. d.endpoints[e].arena[b] = "reserved"
      BY <1>5, <2>2
    <3> QED BY <1>2, <3>1 DEF Owned, ReservedQueued
  <2> QED BY <2>1, <2>2
<1>9. ASSUME NEW i \in DOMAIN f.work PROVE PacketHeld(f, f.work[i])
  <2>1. CASE i = k
    BY <1>2, <1>5, <2>1 DEF PacketHeld, Joins
  <2>2. CASE i \in DOMAIN d.work
    <3>1. PICK p \in Work : p = d.work[i]
      BY <2>2, WorkTypes
    <3>2. p.endpoint \in Tokens /\ p.buffer \in Buffers
      BY <2>2, <3>1, WorkTypes
    <3>3. f.endpoints[p.endpoint].arena[p.buffer] = "reserved"
      BY <1>5, <1>6, <2>2, <3>1, <3>2 DEF Fills
    <3>4. OneWayPacket(f, p)
      BY <1>6, <2>2, <3>1 DEF OneWayPacket, Joins, TurnJoins
    <3>5. Receivable(f, p)
      BY <2>2, <3>1 DEF Joins
    <3> QED BY <1>2, <2>2, <3>1, <3>3, <3>4, <3>5 DEF PacketHeld
  <2> QED BY <1>2, <2>1, <2>2
<1>10. \A e \in Tokens : \A b \in Buffers : Published(d, e, b) => Published(f, e, b)
  BY <1>5 DEF Published
<1>11. ASSUME NEW n \in DOMAIN f.nodes, n \notin Given(d), NEW o
       PROVE NodeTurn(f, n, o, IF w.async_node = n THEN w.buffer ELSE 0)
  <2>1. n # 0
    BY TurnTypes
  <2>2. \A j \in DOMAIN d.work : d.work[j].async_node # n
    BY <1>6, <1>11, <2>1 DEF OneWayPacket
  <2>3. CASE w.async_node = n
    BY <1>2, <2>2, <2>3 DEF NodeTurn, TurnOfFirst, TurnTaken, FirstOf
  <2>4. CASE w.async_node # n
    BY <1>2, <2>2, <2>4 DEF NodeTurn, TurnOfFirst, TurnTaken, FirstOf
  <2> QED BY <2>3, <2>4
<1>12. ASSUME NEW n \in DOMAIN f.nodes, n \in DOMAIN d.nodes, NEW o \in Tokens,
              o = d.nodes[n].owner, f.nodes[n].owner = o, NEW a,
              a = d.nodes[n].async_buffer, a # 0 => a \in Buffers,
              NEW c, c = IF w.async_node = n /\ a = 0 THEN w.buffer ELSE a
       PROVE NodeTurn(f, n, o, c)
  <2>1. TurnOfFirst(d, n, o, a) /\ TurnTaken(d, n, o, a) /\ n # 0
    BY <1>12, TurnTypes DEF Owned, NodeTurns, NodeTurn
  <2>2. ASSUME NEW i \in DOMAIN f.work, FirstOf(f, n, i)
        PROVE c = f.work[i].buffer \/ (c # 0 /\ Published(f, o, c))
    <3>1. CASE i \in DOMAIN d.work
      <4>1. FirstOf(d, n, i)
        BY <1>2, <2>2, <3>1 DEF FirstOf
      <4>2. a = d.work[i].buffer \/ (a # 0 /\ Published(d, o, a))
        BY <2>1, <3>1, <4>1 DEF TurnOfFirst
      <4>3. d.work[i].buffer # 0
        BY <3>1, WorkTypes
      <4>4. c = a
        BY <1>12, <4>2, <4>3
      <4> QED BY <1>2, <1>10, <1>12, <3>1, <4>2, <4>4
    <3>2. CASE i = k
      <4>1. \A j \in DOMAIN d.work : d.work[j].async_node # n
        BY <1>2, <1>3, <2>2, <3>2 DEF FirstOf
      <4>2. w.async_node = n
        BY <1>2, <2>2, <3>2 DEF FirstOf
      <4>3. CASE a = 0
        BY <1>2, <1>12, <3>2, <4>2, <4>3
      <4>4. CASE a # 0
        <5>1. endpoint_for(f, o)
          BY <1>12, <2>1, <4>2 DEF Joins, OneWayPacket, Receivable
        <5>2. endpoint_for(d, o)
          BY <1>5, <5>1 DEF endpoint_for
        <5>3. Published(d, o, a)
          BY <2>1, <4>1, <4>4, <5>2 DEF TurnTaken
        <5> QED BY <1>10, <1>12, <4>4, <5>3
      <4> QED BY <4>3, <4>4
    <3> QED BY <1>2, <3>1, <3>2
  <2>3. ASSUME c # 0, endpoint_for(f, o)
        PROVE \/ Published(f, o, c)
              \/ \E i \in DOMAIN f.work : f.work[i].async_node = n /\ f.work[i].buffer = c
    <3>1. CASE a = 0
      BY <1>2, <1>12, <2>3, <3>1
    <3>2. CASE a # 0
      <4>1. endpoint_for(d, o) /\ c = a
        BY <1>5, <1>12, <2>3, <3>2 DEF endpoint_for
      <4> QED BY <1>2, <1>10, <1>12, <2>1, <3>2, <4>1 DEF TurnTaken
    <3> QED BY <3>1, <3>2
  <2> QED BY <2>2, <2>3 DEF NodeTurn, TurnOfFirst, TurnTaken
<1>13. ASSUME NEW n \in DOMAIN f.nodes
       PROVE NodeTurn(f, n, f.nodes[n].owner, f.nodes[n].async_buffer)
  <2>1. PICK a : /\ \/ n \in DOMAIN d.nodes /\ f.nodes[n].owner = d.nodes[n].owner
                       /\ a = d.nodes[n].async_buffer
                    \/ n \notin Given(d) /\ a = 0
                 /\ f.nodes[n].async_buffer = IF w.async_node = n /\ a = 0
                                              THEN w.buffer ELSE a
    BY DEF Joins, TurnJoins
  <2>2. CASE n \notin Given(d) /\ a = 0
    <3>1. f.nodes[n].async_buffer = IF w.async_node = n THEN w.buffer ELSE 0
      BY <2>1, <2>2
    <3> QED BY <1>11, <2>2, <3>1
  <2>3. CASE n \in DOMAIN d.nodes /\ f.nodes[n].owner = d.nodes[n].owner
             /\ a = d.nodes[n].async_buffer
    <3>1. d.nodes[n].owner \in Tokens /\ (a # 0 => a \in Buffers)
      BY <2>3, TurnTypes
    <3> QED BY <1>12, <2>1, <2>3, <3>1
  <2> QED BY <2>1, <2>2, <2>3
<1>14. OneWayMoves(d, f)
  BY <1>2, KeptMoves
<1> QED BY <1>7, <1>8, <1>9, <1>13, <1>14 DEF Owned, PacketsHeld, NodeTurns

\* free_packet: the nodes whose active buffer is freed go on to their next call.
LEMMA FreeOwned ==
  ASSUME NEW d, Sound(d, 0), Owned(d), NEW e \in Tokens, NEW b \in Buffers,
         d.endpoints[e].arena[b] = "delivered", NEW f, f = BufferFreed(d, e, b)
  PROVE Owned(f) /\ OneWayMoves(d, f)
<1>0. d \in Device
  BY SoundFacts
<1>1. /\ f \in Device /\ f.nodes = NextCalls(d, e, b) /\ f.next_node = d.next_node
      /\ f.threads = d.threads /\ f.work = d.work /\ SameOwners(d, f)
      /\ f.endpoints = SetArena(d, e, b, "free").endpoints
  BY BufferFreedFacts
<1>2. /\ f.endpoints[e].arena[b] = "free"
      /\ \A u \in Tokens : f.endpoints[u].used = d.endpoints[u].used
      /\ \A u \in Tokens : \A c \in Buffers :
           (u # e \/ c # b) => f.endpoints[u].arena[c] = d.endpoints[u].arena[c]
  <2>1. PICK v \in States : v = "free"
    BY DEF States
  <2>2. PICK h : h = SetArena(d, e, b, v)
    OBVIOUS
  <2>3. /\ \A u \in Tokens \ {e} : h.endpoints[u] = d.endpoints[u]
        /\ \A c \in Buffers \ {b} : h.endpoints[e].arena[c] = d.endpoints[e].arena[c]
        /\ h.endpoints[e].arena[b] = v
    BY <1>0, <2>2, SetArenaFacts
  <2> QED BY <1>1, <2>1, <2>2, <2>3 DEF SameOwners
<1>3. /\ DOMAIN f.nodes = DOMAIN d.nodes
      /\ \A n \in DOMAIN d.nodes :
           /\ f.nodes[n].owner = d.nodes[n].owner
           /\ f.nodes[n].async_buffer =
                IF d.nodes[n].owner = e /\ d.nodes[n].async_buffer = b
                THEN NextAsync(d, n) ELSE d.nodes[n].async_buffer
  BY <1>0, <1>1, NextCallsFacts DEF SameNode
<1>4. BuffersOnce(f) /\ ReservedQueued(f)
  <2>1. \A u \in Tokens : \A c \in Buffers :
          f.endpoints[u].arena[c] = "reserved" => d.endpoints[u].arena[c] = "reserved"
    BY <1>2
  <2> QED BY <1>1, <2>1 DEF Owned, BuffersOnce, ReservedQueued
<1>5. ASSUME NEW i \in DOMAIN f.work PROVE PacketHeld(f, f.work[i])
  <2>1. PICK w \in Work : w = f.work[i] /\ w = d.work[i] /\ PacketHeld(d, w)
                          /\ w.endpoint \in Tokens /\ w.buffer \in Buffers
    BY <1>0, <1>1, WorkTypes DEF Owned, PacketsHeld
  <2>2. f.endpoints[w.endpoint].arena[w.buffer] = "reserved"
    BY <1>2, <2>1 DEF PacketHeld
  <2>3. Receivable(f, w)
    BY <1>1, <1>2, <2>1 DEF PacketHeld, Receivable, thread_for, endpoint_for
  <2>4. OneWayPacket(f, w)
    BY <1>1, <1>3, <2>1 DEF PacketHeld, OneWayPacket, Given
  <2> QED BY <2>1, <2>2, <2>3, <2>4 DEF PacketHeld
<1>6. ASSUME NEW n \in DOMAIN f.nodes
      PROVE NodeTurn(f, n, f.nodes[n].owner, f.nodes[n].async_buffer)
  <2>1. PICK o \in Tokens : o = d.nodes[n].owner /\ o = f.nodes[n].owner
    BY <1>0, <1>3, TurnTypes
  <2>2. PICK a : a = d.nodes[n].async_buffer
    OBVIOUS
  <2>3. a # 0 => a \in Buffers
    BY <1>0, <1>3, <2>2, TurnTypes
  <2>4. PICK c : c = f.nodes[n].async_buffer
    OBVIOUS
  <2>5. CASE o = e /\ a = b
    <3>1. c = NextAsync(d, n)
      BY <1>3, <2>1, <2>2, <2>4, <2>5
    <3>2. CASE c = 0
      <4>1. \A i \in DOMAIN d.work : d.work[i].async_node # n
        BY <1>0, <3>1, <3>2, NextAsyncFacts
      <4>2. NodeTurn(f, n, o, c)
        BY <1>1, <3>2, <4>1 DEF NodeTurn, TurnOfFirst, TurnTaken, FirstOf
      <4> QED BY <2>1, <2>4, <4>2
    <3>3. CASE c # 0
      <4>1. PICK k \in DOMAIN d.work :
              /\ d.work[k].async_node = n /\ c = d.work[k].buffer
              /\ \A j \in DOMAIN d.work : d.work[j].async_node = n => k <= j
        BY <1>0, <3>1, <3>3, NextAsyncFacts
      <4>2. ASSUME NEW i \in DOMAIN d.work, FirstOf(f, n, i) PROVE i = k
        <5>1. i <= k /\ k <= i
          BY <1>1, <4>1, <4>2 DEF FirstOf
        <5>2. i \in Nat /\ k \in Nat
          BY <1>0, <4>1, WorkTypes
        <5> QED BY <5>1, <5>2
      <4>3. NodeTurn(f, n, o, c)
        BY <1>1, <4>1, <4>2 DEF NodeTurn, TurnOfFirst, TurnTaken
      <4> QED BY <2>1, <2>4, <4>3
    <3> QED BY <3>2, <3>3
  <2>6. CASE ~(o = e /\ a = b)
    <3>1. c = a
      BY <1>3, <2>1, <2>2, <2>4, <2>6
    <3>2. TurnOfFirst(d, n, o, a) /\ TurnTaken(d, n, o, a)
      BY <1>3, <2>1, <2>2 DEF Owned, NodeTurns, NodeTurn
    <3>3. a # 0 /\ Published(d, o, a) => Published(f, o, a)
      BY <1>2, <2>3, <2>6 DEF Published
    <3>4. endpoint_for(f, o) => endpoint_for(d, o)
      BY <1>2 DEF endpoint_for
    <3>5. TurnOfFirst(f, n, o, a)
      BY <1>1, <3>2, <3>3 DEF TurnOfFirst, FirstOf
    <3>6. TurnTaken(f, n, o, a)
      BY <1>1, <3>2, <3>3, <3>4 DEF TurnTaken
    <3> QED BY <2>1, <2>4, <3>1, <3>5, <3>6 DEF NodeTurn
  <2> QED BY <2>5, <2>6
<1>7. OneWayMoves(d, f)
  BY <1>1, KeptMoves
<1> QED BY <1>4, <1>5, <1>6, <1>7 DEF Owned, PacketsHeld, NodeTurns

\* read_work: a one-way call that is received is its node's active one.
LEMMA TakesOwned ==
  ASSUME NEW d, NEW e, NEW t, InCall(d, e, t), Owned(d), NEW f, TakesWork(d, e, t, f)
  PROVE Owned(f) /\ OneWayMoves(d, f)
<1>0. d \in Device /\ e \in Tokens
  BY InCallFacts
<1>1. PICK i : i \in work_for(d, e, t, FALSE) /\ f = TakeWork(d, e, t, i)
  BY DEF TakesWork
<1>2. PICK w : w = d.work[i]
  OBVIOUS
<1>3. /\ i \in DOMAIN d.work /\ w.endpoint = e
      /\ w.async_node # 0 => /\ w.async_node \in DOMAIN d.nodes
                             /\ d.nodes[w.async_node].async_buffer = w.buffer
  BY <1>1, <1>2 DEF work_for
<1>4. Took(d, f, e, t, i) /\ f \in Device
  BY <1>1, <1>3, TakeWorkSound, InCallFacts
<1>5. w \in Work /\ w.buffer \in Buffers /\ PacketHeld(d, w)
  BY <1>0, <1>2, <1>3, WorkTypes DEF Owned, PacketsHeld
<1>6. /\ BufferIs(d, f, e, w.buffer, "delivered") /\ SameTurns(d, f)
      /\ f.work = Erase(d.work, i)
      /\ \A u \in Tokens : f.endpoints[u].used = d.endpoints[u].used
      /\ \A u \in Tokens : DOMAIN f.threads[u] = DOMAIN d.threads[u]
  BY <1>2, <1>4 DEF Took
<1>7. Kept(d.work, f.work, {i})
  <2>1. d.work \in Seq(Work)
    BY <1>0, FieldTypes DEF Works
  <2> QED BY <1>3, <1>6, <2>1, KeptErase
<1>8. \A j \in DOMAIN f.work : Receivable(f, f.work[j])
  <2> TAKE j \in DOMAIN f.work
  <2>1. PICK k \in DOMAIN d.work : f.work[j] = d.work[k]
    BY <1>7 DEF Kept
  <2>2. Receivable(d, f.work[j])
    BY <2>1 DEF Owned, PacketsHeld, PacketHeld
  <2> QED BY <1>6, <2>2 DEF Receivable, thread_for, endpoint_for
<1>9. ASSUME NEW u \in Tokens
      PROVE StaysUsed(d, f, u, {i}, "delivered") \/ NotUsed(d, f, u)
  <2>1. \A b \in Buffers : Freed(d, {i}, u, b) <=> (u = e /\ b = w.buffer)
    BY <1>2, <1>3 DEF Freed
  <2>2. \A b \in Buffers : f.endpoints[u].arena[b] =
          IF Freed(d, {i}, u, b) THEN "delivered" ELSE d.endpoints[u].arena[b]
    BY <1>6, <2>1 DEF BufferIs
  <2>3. CASE d.endpoints[u].used
    BY <1>6, <2>2, <2>3 DEF StaysUsed
  <2>4. CASE ~d.endpoints[u].used
    <3>1. \A b \in Buffers : d.endpoints[u].arena[b] # "reserved"
      BY <2>4 DEF Owned, ReservedQueued, PacketsHeld, PacketHeld, Receivable, endpoint_for,
                  Fills
    <3>2. \A b \in Buffers : f.endpoints[u].arena[b] # "reserved"
      BY <2>2, <3>1
    <3> QED BY <1>6, <2>4, <3>2 DEF NotUsed
  <2> QED BY <2>3, <2>4
<1>10. OneWayEnds(f, w, "delivered")
  <2>1. ASSUME w.async_node # 0, w.async_node \in DOMAIN f.nodes
        PROVE f.nodes[w.async_node].async_buffer = w.buffer
    <3>1. w.async_node \in Given(d)
      BY <1>5, <2>1 DEF PacketHeld, OneWayPacket
    <3> QED BY <1>3, <1>6, <2>1, <3>1 DEF SameTurns
  <2> QED BY <2>1 DEF OneWayEnds
<1>11. PacketsGo(d, f, {i}, "delivered")
  BY <1>2, <1>3, <1>6, <1>7, <1>8, <1>9, <1>10, TurnsStay DEF PacketsGo
<1> QED BY <1>0, <1>4, <1>11, GoOwned, GoMoves

\* cancel_transactions for thread t: no one-way call is addressed to a thread.
LEMMA CutOwned ==
  ASSUME NEW d \in Device, Owned(d), NEW e \in Tokens, NEW t \in Tids,
         NEW f \in Device, CallsCut(d, f, e, t), OldNodes(d, f)
  PROVE Owned(f) /\ OneWayStays(d, f)
<1>1. PICK I : I = CancelledWork(d, e, t)
  OBVIOUS
<1>2. I \subseteq DOMAIN d.work /\ Kept(d.work, f.work, I)
  <2>1. d.work \in Seq(Work)
    BY FieldTypes DEF Works
  <2> QED BY <1>1, <2>1, KeptEraseAll DEF CallsCut, CancelledWork
<1>3. \A u \in Tokens : /\ DOMAIN f.threads[u] = DOMAIN d.threads[u]
                        /\ f.endpoints[u].used = d.endpoints[u].used
                        /\ \A b \in Buffers : f.endpoints[u].arena[b] =
                             IF Freed(d, I, u, b) THEN "free" ELSE d.endpoints[u].arena[b]
  BY <1>1, EndedThreadsFacts, FreedArenasFacts DEF CallsCut
<1>4. \A j \in DOMAIN f.work : Receivable(f, f.work[j])
  <2> TAKE j \in DOMAIN f.work
  <2>1. PICK k \in DOMAIN d.work : f.work[j] = d.work[k]
    BY <1>2 DEF Kept
  <2>2. Receivable(d, f.work[j])
    BY <2>1 DEF Owned, PacketsHeld, PacketHeld
  <2> QED BY <1>3, <2>2 DEF Receivable, thread_for, endpoint_for
<1>5. ASSUME NEW u \in Tokens
      PROVE StaysUsed(d, f, u, I, "free") \/ NotUsed(d, f, u)
  <2>1. CASE d.endpoints[u].used
    BY <1>3, <2>1 DEF StaysUsed
  <2>2. CASE ~d.endpoints[u].used
    <3>1. \A b \in Buffers : d.endpoints[u].arena[b] # "reserved"
      BY <2>2 DEF Owned, ReservedQueued, PacketsHeld, PacketHeld, Receivable, endpoint_for,
                  Fills
    <3>2. \A b \in Buffers : f.endpoints[u].arena[b] # "reserved"
      BY <1>3, <3>1
    <3> QED BY <1>3, <2>2, <3>2 DEF NotUsed
  <2> QED BY <2>1, <2>2
<1>6. ASSUME NEW i \in I PROVE OneWayEnds(f, d.work[i], "free")
  <2>1. ASSUME d.work[i].async_node # 0 PROVE FALSE
    <3>1. d.work[i].tid = 0 /\ d.work[i].transaction = 0
      BY <1>2, <2>1 DEF Owned, PacketsHeld, PacketHeld, OneWayPacket
    <3>2. 0 \notin CancelledIds(d, e, t)
      BY CallTypes DEF CancelledIds, Cancelled
    <3>3. t # 0
      BY BinderAssumption
    <3> QED BY <1>1, <3>1, <3>2, <3>3 DEF CancelledWork, OwnWork
  <2> QED BY <2>1 DEF OneWayEnds
<1>7. PacketsGo(d, f, I, "free")
  BY <1>2, <1>4, <1>5, <1>6, TurnsStay DEF PacketsGo
<1> QED BY <1>7, GoOwned, GoMoves

\* The slots of endpoints that are not used.
LEMMA UnusedIdle ==
  ASSUME NEW d, Owned(d), NEW u \in Tokens, ~d.endpoints[u].used
  PROVE \A b \in Buffers : d.endpoints[u].arena[b] # "reserved"
  BY DEF Owned, ReservedQueued, PacketsHeld, PacketHeld, Receivable, endpoint_for, Fills

\* f is r with the packet w queued; one for a node is its active call if none was.
Enqueued(r, f, w) ==
  /\ f.work = Append(r.work, w) /\ f.endpoints = r.endpoints
  /\ f.next_node = r.next_node
  /\ \A u \in Tokens : DOMAIN f.threads[u] = DOMAIN r.threads[u]
  /\ \A n \in DOMAIN f.nodes :
       /\ n \in DOMAIN r.nodes /\ f.nodes[n].owner = r.nodes[n].owner
       /\ f.nodes[n].async_buffer = IF w.async_node = n /\ r.nodes[n].async_buffer = 0
                                    THEN w.buffer ELSE r.nodes[n].async_buffer

LEMMA EnqueuedOwned ==
  ASSUME NEW d \in Device, Owned(d), NEW f \in Device, NEW w \in Work, NEW r,
         Reservation(d, r, w.endpoint, w.buffer), Enqueued(r, f, w),
         Receivable(r, w), OneWayPacket(r, w)
  PROVE Owned(f) /\ OneWayMoves(d, f) /\ NoneOpens(d, f)
<1>1. SameTalk(d, r) /\ SameTurns(d, r) /\ BufferTaken(d, r, w.endpoint, w.buffer)
  BY DEF Reservation
<1>2. w.endpoint \in Tokens /\ (w.async_node = 0 \/ w.async_node # 0)
  BY DEF Work
<1>3. f.work = Append(d.work, w)
  BY <1>1 DEF Enqueued, SameTalk
<1>4. BufferTaken(d, f, w.endpoint, w.buffer)
  BY <1>1 DEF Enqueued, BufferTaken, BufferIs
<1>5. Given(f) = Given(r) /\ Given(d) \subseteq Given(r)
  BY <1>1 DEF Enqueued, Given, SameTurns
<1>6. \A e, t : /\ e \in Tokens => (thread_for(r, e, t) => thread_for(f, e, t))
                /\ endpoint_for(r, e) => endpoint_for(f, e)
  BY DEF thread_for, endpoint_for, Enqueued
<1>7. \A i \in DOMAIN d.work : Receivable(f, d.work[i])
  BY <1>1, <1>6, TalkReceives, WorkTypes DEF Receivable
<1>8. Receivable(f, w)
  BY <1>2, <1>6 DEF Receivable
<1>9. OneWayPacket(f, w)
  BY <1>5 DEF OneWayPacket, Enqueued
<1>10. ASSUME NEW n \in DOMAIN f.nodes PROVE TurnJoins(d, f, n, w)
  <2>1. PICK a : a = r.nodes[n].async_buffer
    OBVIOUS
  <2>2. /\ n \in DOMAIN r.nodes /\ f.nodes[n].owner = r.nodes[n].owner
        /\ f.nodes[n].async_buffer = IF w.async_node = n /\ a = 0 THEN w.buffer ELSE a
    BY <2>1 DEF Enqueued
  <2>3. \/ n \in DOMAIN d.nodes /\ f.nodes[n].owner = d.nodes[n].owner
             /\ a = d.nodes[n].async_buffer
        \/ n \notin Given(d) /\ a = 0
    BY <1>1, <2>1, <2>2 DEF SameTurns, SameNode
  <2> QED BY <2>2, <2>3 DEF TurnJoins
<1>11. Joins(d, f, w)
  BY <1>3, <1>4, <1>5, <1>7, <1>8, <1>9, <1>10 DEF Joins
<1>12. NoneOpens(d, f)
  BY <1>4 DEF BufferTaken, BufferIs, NoneOpens
<1> QED BY <1>11, <1>12, JoinOwned

LEMMA PacketIs ==
  ASSUME NEW u \in Tokens, NEW t \in Tids \cup {0}, NEW c \in {"TRANSACTION", "REPLY"},
         NEW i \in 0..TxnLimit, NEW n \in 0..NodeLimit, NEW b \in Buffers,
         NEW w, w = Packet(u, t, c, i, n, b)
  PROVE /\ w \in Work /\ w.endpoint = u /\ w.tid = t /\ w.transaction = i
        /\ w.async_node = n /\ w.buffer = b
  BY PacketFacts DEF Packet

LEMMA NodeActive ==
  ASSUME NEW p \in Node, NEW a, NEW q, q = [p EXCEPT !.async_buffer = a]
  PROVE q.owner = p.owner /\ q.async_buffer = a
  BY DEF Node

LEMMA OneWayOwned ==
  ASSUME NEW d \in Device, Owned(d), NEW r, Sound(r, 0), NEW n \in DOMAIN r.nodes,
         NEW b \in Buffers, Reservation(d, r, r.nodes[n].owner, b),
         endpoint_for(r, r.nodes[n].owner), Len(r.work) # PacketLimit,
         NEW f, f = SendOneWay(r, n, b)
  PROVE Owned(f) /\ OneWayMoves(d, f) /\ NoneOpens(d, f)
<1>1. r \in Device /\ NodesKnown(r)
  BY SoundFacts
<1>2. n \in 0..NodeLimit /\ n # 0 /\ r.nodes[n].owner \in Tokens /\ r.nodes[n] \in Node
  <2>1. n \in NodeIds /\ r.nodes[n] \in GoodNode /\ r.nodes[n].owner \in Tokens
    BY <1>1, NodeTable
  <2>2. n \in 0..NodeLimit /\ n # 0
    BY <2>1, BinderAssumption DEF NodeIds
  <2>3. r.nodes[n] \in Node
    BY <2>1 DEF GoodNode
  <2> QED BY <2>1, <2>2, <2>3
<1>3. PICK u \in Tokens : u = r.nodes[n].owner
  BY <1>2
<1>4. PICK w : w = Packet(u, 0, "TRANSACTION", 0, n, b)
  OBVIOUS
<1>5. /\ w \in Work /\ w.endpoint = u /\ w.tid = 0 /\ w.transaction = 0
      /\ w.async_node = n /\ w.buffer = b
  BY <1>2, <1>4, PacketIs, BinderAssumption
<1>6. /\ f \in Device /\ f.work = Append(r.work, w) /\ f.endpoints = r.endpoints
      /\ f.next_node = r.next_node /\ f.threads = r.threads
      /\ DOMAIN f.nodes = DOMAIN r.nodes
      /\ \A m \in DOMAIN r.nodes : m # n => f.nodes[m] = r.nodes[m]
      /\ f.nodes[n] = [r.nodes[n] EXCEPT !.async_buffer = ActiveBuffer(r, n, b)]
  BY <1>3, <1>4, SendOneWayFacts DEF OneWaySent
<1>7. f.nodes[n].owner = r.nodes[n].owner /\ f.nodes[n].async_buffer = ActiveBuffer(r, n, b)
  <2>1. r.nodes[n] \in Node
    BY <1>2
  <2>2. f.nodes[n] = [r.nodes[n] EXCEPT !.async_buffer = ActiveBuffer(r, n, b)]
    BY <1>6
  <2> QED BY <2>1, <2>2 DEF Node
<1>8. Enqueued(r, f, w)
  <2>1. ASSUME NEW m \in DOMAIN f.nodes
        PROVE /\ m \in DOMAIN r.nodes /\ f.nodes[m].owner = r.nodes[m].owner
              /\ f.nodes[m].async_buffer = IF w.async_node = m /\ r.nodes[m].async_buffer = 0
                                           THEN w.buffer ELSE r.nodes[m].async_buffer
    <3>1. CASE m = n
      BY <1>5, <1>7, <3>1 DEF ActiveBuffer
    <3>2. CASE m # n
      BY <1>5, <1>6, <2>1, <3>2
    <3> QED BY <3>1, <3>2
  <2> QED BY <1>6, <2>1 DEF Enqueued
<1>9. Receivable(r, w) /\ OneWayPacket(r, w)
  <2>1. n \in Given(r)
    BY <1>1, <1>2 DEF NodesKnown, Given
  <2> QED BY <1>3, <1>5, <2>1 DEF Receivable, OneWayPacket
<1> QED BY <1>3, <1>5, <1>6, <1>8, <1>9, EnqueuedOwned

LEMMA CallOwned ==
  ASSUME NEW d \in Device, Owned(d), NEW r, Sound(r, 0), NEW e \in Tokens,
         NEW t \in DOMAIN r.threads[e], NEW n \in DOMAIN r.nodes,
         NEW b \in Buffers, Reservation(d, r, r.nodes[n].owner, b),
         endpoint_for(r, r.nodes[n].owner), Len(r.work) # PacketLimit,
         r.next_transaction <= TxnLimit, NEW f, f = SendCall(r, e, t, n, b)
  PROVE Owned(f) /\ OneWayMoves(d, f) /\ NoneOpens(d, f)
<1>1. r \in Device
  BY SoundFacts
<1>2. PICK u \in Tokens : u = r.nodes[n].owner
  BY <1>1, NodeTable
<1>3. PICK id \in 0..TxnLimit : id = r.next_transaction
  <2>1. r.next_transaction \in 0..TxnLimit
    BY <1>1, FieldTypes DEF Counters
  <2> QED BY <2>1
<1>4. PICK w : w = Packet(u, 0, "TRANSACTION", id, 0, b)
  OBVIOUS
<1>5. w \in Work /\ w.endpoint = u /\ w.tid = 0 /\ w.async_node = 0 /\ w.buffer = b
  BY <1>4, PacketIs, BinderAssumption
<1>6. /\ f \in Device /\ f.work = Append(r.work, w) /\ f.endpoints = r.endpoints
      /\ f.next_node = r.next_node /\ f.nodes = r.nodes
      /\ \A v \in Tokens : DOMAIN f.threads[v] = DOMAIN r.threads[v]
  BY <1>2, <1>3, <1>4, SendCallFacts DEF SameObjects, SameOwners
<1>7. Enqueued(r, f, w)
  <2>1. \A m \in DOMAIN r.nodes : m # 0
    BY <1>1, NodeTable, BinderAssumption DEF NodeIds
  <2> QED BY <1>5, <1>6, <2>1 DEF Enqueued
<1>8. Receivable(r, w) /\ OneWayPacket(r, w)
  BY <1>2, <1>5 DEF Receivable, OneWayPacket
<1> QED BY <1>2, <1>5, <1>6, <1>7, <1>8, EnqueuedOwned

LEMMA ReplyNodes ==
  ASSUME NEW d, NEW e, NEW t, InCall(d, e, t), NEW x \in d.transactions, NEW b \in Buffers,
         NEW f, f = SendReply(d, e, t, x, b)
  PROVE f.nodes = d.nodes /\ f.next_node = d.next_node
<1>1. d \in Device
  BY InCallFacts
<1>2. PICK g : g = [d EXCEPT !.threads[e][t].incoming = 0]
  OBVIOUS
<1>3. g.nodes = d.nodes /\ g.next_node = d.next_node
  BY <1>1, <1>2 DEF Device
<1>4. f.nodes = g.nodes /\ f.next_node = g.next_node
  BY <1>1, <1>2 DEF SendReply, Device
<1> QED BY <1>3, <1>4

LEMMA ReplyOwned ==
  ASSUME NEW d \in Device, Owned(d), NEW r, NEW e, NEW t, InCall(r, e, t), Paired(r),
         NEW x \in r.transactions, NEW b \in Buffers, Reservation(d, r, x.source, b),
         x.source_tid \in DOMAIN r.threads[x.source], Len(r.work) # PacketLimit,
         NEW f, f = SendReply(r, e, t, x, b)
  PROVE Owned(f) /\ OneWayMoves(d, f) /\ NoneOpens(d, f)
<1>1. r \in Device /\ x.source \in Tokens /\ x.source_tid \in Tids \cup {0}
  BY InCallFacts, CallTypes
<1>2. PICK w : w = Packet(x.source, x.source_tid, "REPLY", 0, 0, b)
  OBVIOUS
<1>3. /\ w \in Work /\ w.endpoint = x.source /\ w.tid = x.source_tid
      /\ w.async_node = 0 /\ w.buffer = b
  BY <1>1, <1>2, PacketIs, BinderAssumption
<1>4. f \in Device /\ Replied(r, f, e, t, x, b)
  BY SendReplySound, InCallFacts
<1>5. f.nodes = r.nodes /\ f.next_node = r.next_node
  BY ReplyNodes
<1>6. Enqueued(r, f, w)
  <2>1. \A m \in DOMAIN r.nodes : m # 0
    BY <1>1, NodeTable, BinderAssumption DEF NodeIds
  <2> QED BY <1>2, <1>3, <1>4, <1>5, <2>1 DEF Enqueued, Replied
<1>7. thread_for(r, x.source, x.source_tid) /\ endpoint_for(r, x.source)
  BY DEF Paired, CallsGo, CallGoes, thread_for
<1>8. Receivable(r, w) /\ OneWayPacket(r, w)
  BY <1>3, <1>7 DEF Receivable, OneWayPacket
<1> QED BY <1>3, <1>4, <1>6, <1>8, EnqueuedOwned

LEMMA FlowOpens ==
  ASSUME NEW d, NEW f, NEW g, NoneOpens(d, f), SameFlow(f, g)
  PROVE NoneOpens(d, g)
  BY DEF NoneOpens, SameFlow, SameBuffers

LEMMA FlowNone ==
  ASSUME NEW d, NEW f, SameFlow(d, f)
  PROVE NoneOpens(d, f)
  BY DEF NoneOpens, SameFlow, SameBuffers

\* What happened to the one-way calls when d became f.
Moved(d, f) == f \in Device /\ Owned(f) /\ OneWayMoves(d, f) /\ NoneOpens(d, f)

LEMMA MovedFlow ==
  ASSUME NEW d \in Device, NEW f, Moved(d, f), NEW g \in Device, SameFlow(f, g)
  PROVE Moved(d, g)
<1>1. Owned(g)
  BY FlowOwned DEF Moved
<1>2. OneWayMoves(d, g)
  BY FlowMoves DEF Moved
<1>3. NoneOpens(d, g)
  BY FlowOpens DEF Moved
<1> QED BY <1>1, <1>2, <1>3 DEF Moved

LEMMA FlowMoved ==
  ASSUME NEW d \in Device, Owned(d), NEW f \in Device, SameFlow(d, f)
  PROVE Moved(d, f)
  BY FlowOwned, FlowNone DEF Moved

LEMMA FreeMoved ==
  ASSUME NEW d, Sound(d, 0), Owned(d), NEW e \in Tokens, NEW b \in Buffers,
         d.endpoints[e].arena[b] = "delivered", NEW f, f = BufferFreed(d, e, b)
  PROVE Moved(d, f)
<1>1. Owned(f) /\ OneWayMoves(d, f)
  BY FreeOwned
<1>2. d \in Device
  BY SoundFacts
<1>3. f \in Device /\ SameOwners(d, f)
  BY <1>2, BufferFreedFacts
<1> QED BY <1>1, <1>3 DEF Moved, NoneOpens, SameOwners

LEMMA TakesMoved ==
  ASSUME NEW d, NEW e, NEW t, InCall(d, e, t), Owned(d), NEW f, TakesWork(d, e, t, f)
  PROVE Moved(d, f)
<1>1. Owned(f) /\ OneWayMoves(d, f)
  BY TakesOwned
<1>2. PICK i : i \in work_for(d, e, t, FALSE) /\ f = TakeWork(d, e, t, i)
  BY DEF TakesWork
<1>3. i \in DOMAIN d.work /\ d.work[i].endpoint = e
  BY <1>2 DEF work_for
<1>4. Took(d, f, e, t, i) /\ f \in Device
  BY <1>2, <1>3, TakeWorkSound, InCallFacts
<1> QED BY <1>1, <1>4 DEF Moved, NoneOpens, Took

\* What a command or a read did.
LEMMA EffectOwned ==
  ASSUME NEW d, NEW e, NEW t, InCall(d, e, t), Paired(d), Owned(d),
         NEW g \in Device, CallEffect(d, e, t, g)
  PROVE Moved(d, g)
<1>0. d \in Device /\ Sound(d, 0) /\ e \in Tokens
  BY InCallFacts DEF InCall
<1>1. CASE SameFlow(d, g)
  BY <1>0, <1>1, FlowMoved
<1>2. CASE TakesWork(d, e, t, g)
  BY <1>2, TakesMoved
<1>3. CASE TransferEffect(d, e, t, g) /\ ~SameFlow(d, g)
  <2>1. PICK r, f, n, b :
       /\ Reservation(d, r, r.nodes[n].owner, b) /\ SameFlow(f, g)
       /\ InCall(r, e, t) /\ Sound(f, 0)
       /\ n \in DOMAIN r.nodes /\ b \in Buffers /\ Len(r.work) # PacketLimit
       /\ endpoint_for(r, r.nodes[n].owner)
       /\ \/ f = SendOneWay(r, n, b)
          \/ f = SendCall(r, e, t, n, b) /\ r.next_transaction <= TxnLimit
    BY <1>3 DEF TransferEffect
  <2>2. Sound(r, 0) /\ t \in DOMAIN r.threads[e] /\ f \in Device
    BY <2>1, SoundFacts DEF InCall
  <2>3. Moved(d, f)
    <3>1. CASE f = SendOneWay(r, n, b)
      BY <1>0, <2>1, <2>2, <3>1, OneWayOwned DEF Moved
    <3>2. CASE f # SendOneWay(r, n, b)
      BY <1>0, <2>1, <2>2, <3>2, CallOwned DEF Moved
    <3> QED BY <3>1, <3>2
  <2> QED BY <1>0, <2>1, <2>3, MovedFlow
<1>4. CASE ReplyEffect(d, e, t, g) /\ ~SameFlow(d, g)
  <2>1. PICK r, f, x, b :
       /\ Reservation(d, r, x.source, b) /\ SameFlow(f, g)
       /\ InCall(r, e, t) /\ Sound(f, 0)
       /\ x \in r.transactions /\ b \in Buffers
       /\ x.source_tid \in DOMAIN r.threads[x.source] /\ Len(r.work) # PacketLimit
       /\ f = SendReply(r, e, t, x, b)
    BY <1>4 DEF ReplyEffect
  <2>2. Paired(r)
    BY <1>0, <2>1, TalkPaired DEF Reservation
  <2>3. f \in Device
    BY <2>1, SoundFacts
  <2>4. Moved(d, f)
    BY <1>0, <2>1, <2>2, <2>3, ReplyOwned DEF Moved
  <2> QED BY <1>0, <2>1, <2>4, MovedFlow
<1>5. ASSUME NEW b \in Buffers, FreeEffect(d, e, b, g), ~SameFlow(d, g) PROVE Moved(d, g)
  <2>1. PICK f : /\ d.endpoints[e].arena[b] = "delivered" /\ f = BufferFreed(d, e, b)
                 /\ SameFlow(f, g)
    BY <1>5 DEF FreeEffect
  <2>2. Moved(d, f)
    BY <1>0, <2>1, FreeMoved
  <2> QED BY <1>0, <2>1, <2>2, MovedFlow
<1> QED BY <1>1, <1>2, <1>3, <1>4, <1>5 DEF CallEffect

\* Endpoint e goes: its packets, and those of the calls it takes part in, leave.
LEMMA ReleaseOwned ==
  ASSUME NEW d, Sound(d, 0), Owned(d), NEW e \in Tokens, NEW f, f = release_endpoint(d, e)
  PROVE Owned(f) /\ OneWayStays(d, f) /\ NoneOpens(d, f)
<1>0. d \in Device
  BY SoundFacts
<1>1. PICK g : g = Released(d, e)
  OBVIOUS
<1>2. PICK I : I = CancelledWork(d, e, 0)
  OBVIOUS
<1>3. /\ g \in Device /\ g.work = EraseAll(d.work, I) /\ g.endpoints = FreedArenas(d, I)
      /\ g.threads = EndedThreads(d, CancelledIds(d, e, 0))
  BY <1>1, <1>2, ReleasedFacts
<1>4. f \in Device /\ f = Emptied(g, e) /\ OldNodes(d, f)
  BY <1>1, EndpointFacts
<1>5. /\ \A u \in Tokens \ {e} : f.endpoints[u] = g.endpoints[u] /\ f.threads[u] = g.threads[u]
      /\ f.endpoints[e] = NoEndpoint /\ ~f.endpoints[e].used /\ f.work = g.work
  BY <1>3, <1>4, EmptiedFacts
<1>6. I \subseteq DOMAIN d.work /\ Kept(d.work, f.work, I)
  <2>1. d.work \in Seq(Work)
    BY <1>0, FieldTypes DEF Works
  <2> QED BY <1>2, <1>3, <1>5, <2>1, KeptEraseAll DEF CancelledWork
<1>7. \A u \in Tokens : /\ DOMAIN g.threads[u] = DOMAIN d.threads[u]
                        /\ g.endpoints[u].used = d.endpoints[u].used
                        /\ \A b \in Buffers : g.endpoints[u].arena[b] =
                             IF Freed(d, I, u, b) THEN "free" ELSE d.endpoints[u].arena[b]
  BY <1>0, <1>3, EndedThreadsFacts, FreedArenasFacts
<1>8. \A b \in Buffers : f.endpoints[e].arena[b] = "free"
  BY <1>5 DEF NoEndpoint
<1>9. \A j \in DOMAIN f.work : Receivable(f, f.work[j])
  <2> TAKE j \in DOMAIN f.work
  <2>1. PICK k \in DOMAIN d.work \ I : f.work[j] = d.work[k]
    BY <1>6 DEF Kept
  <2>2. Receivable(d, f.work[j])
    BY <2>1 DEF Owned, PacketsHeld, PacketHeld
  <2>3. f.work[j].endpoint # e
    BY <1>2, <2>1 DEF CancelledWork, OwnWork
  <2> QED BY <1>5, <1>7, <2>2, <2>3 DEF Receivable, thread_for, endpoint_for
<1>10. ASSUME NEW u \in Tokens
       PROVE StaysUsed(d, f, u, I, "free") \/ NotUsed(d, f, u)
  <2>1. CASE u = e
    BY <1>5, <1>8, <2>1 DEF NotUsed
  <2>2. CASE u # e /\ d.endpoints[u].used
    BY <1>5, <1>7, <2>2 DEF StaysUsed
  <2>3. CASE u # e /\ ~d.endpoints[u].used
    <3>1. \A b \in Buffers : d.endpoints[u].arena[b] # "reserved"
      BY <2>3, UnusedIdle
    <3>2. \A b \in Buffers : f.endpoints[u].arena[b] # "reserved"
      BY <1>5, <1>7, <2>3, <3>1
    <3> QED BY <1>5, <1>7, <2>3, <3>2 DEF NotUsed
  <2> QED BY <2>1, <2>2, <2>3
<1>11. ASSUME NEW i \in I PROVE OneWayEnds(f, d.work[i], "free")
  <2>1. ASSUME d.work[i].async_node # 0 PROVE d.work[i].endpoint = e
    <3>1. d.work[i].transaction = 0
      BY <1>6, <2>1 DEF Owned, PacketsHeld, PacketHeld, OneWayPacket
    <3>2. 0 \notin CancelledIds(d, e, 0)
      BY <1>0, CallTypes DEF CancelledIds, Cancelled
    <3> QED BY <1>2, <3>1, <3>2 DEF CancelledWork, OwnWork
  <2> QED BY <1>5, <2>1 DEF OneWayEnds, endpoint_for
<1>12. PacketsGo(d, f, I, "free")
  BY <1>4, <1>6, <1>9, <1>10, <1>11, TurnsStay DEF PacketsGo
<1>13. NoneOpens(d, f)
  BY <1>5, <1>7 DEF NoneOpens
<1> QED BY <1>0, <1>4, <1>12, <1>13, GoOwned, GoMoves

\* What reap_closed leaves of the one-way calls.
Stayed(d, f) ==
  /\ Sound(f, 0) /\ Owned(f) /\ OneWayStays(d, f) /\ NoneOpens(d, f)
  /\ f.next_token = d.next_token

LEMMA ReapOwned ==
  ASSUME NEW d, Sound(d, 0), Owned(d)
  PROVE Stayed(d, reap_closed(d))
<1> DEFINE S == {f \in Device : Stayed(d, f)}
<1>0. d \in Device
  BY SoundFacts
<1>1. d \in S
  <2>1. OneWayStays(d, d) /\ NoneOpens(d, d)
    BY <1>0, FlowRefl, FlowOwned DEF NoneOpens
  <2> QED BY <1>0, <2>1 DEF Stayed
<1>2. ASSUME NEW f \in S, NEW e \in Tokens
      PROVE release_endpoint(f, e) \in S
  <2>1. PICK g : g = release_endpoint(f, e)
    OBVIOUS
  <2>2. Sound(g, 0) /\ g \in Device /\ OldNodes(f, g)
    BY <2>1, EndpointFacts DEF Stayed
  <2>3. Owned(g) /\ OneWayStays(f, g) /\ NoneOpens(f, g)
    BY <2>1, ReleaseOwned DEF Stayed
  <2>4. OneWayStays(d, g)
    BY <1>0, <2>3, StaysTrans DEF Stayed
  <2>5. NoneOpens(d, g)
    BY <2>3 DEF Stayed, NoneOpens
  <2>6. g.next_token = d.next_token
    BY <2>2 DEF OldNodes, Stayed
  <2> QED BY <2>1, <2>2, <2>3, <2>4, <2>5, <2>6 DEF Stayed
<1>3. reap_closed(d) \in S
  <2> HIDE DEF S
  <2> QED BY <1>1, <1>2, ReapInduct
<1> QED BY <1>3

\* A thread that left its calls takes no packet with it.
LEMMA LeftOwned ==
  ASSUME NEW d \in Device, Owned(d), NEW e \in Tokens, NEW t \in Tids,
         NEW a \in Device, CallsCut(a, d, e, t),
         NEW f \in Device, WithoutThread(d, f, e, t)
  PROVE Moved(d, f) /\ OneWayStays(d, f)
<1>1. ASSUME NEW i \in DOMAIN d.work PROVE ~(d.work[i].endpoint = e /\ d.work[i].tid = t)
  <2>1. a.work \in Seq(Work)
    BY FieldTypes DEF Works
  <2>2. Kept(a.work, d.work, CancelledWork(a, e, t))
    BY <2>1, KeptEraseAll DEF CallsCut
  <2>3. PICK k \in DOMAIN a.work \ CancelledWork(a, e, t) : d.work[i] = a.work[k]
    BY <2>2 DEF Kept
  <2> QED BY <2>3 DEF CancelledWork, OwnWork
<1>2. \A i \in DOMAIN d.work : Receivable(f, d.work[i])
  <2> TAKE i \in DOMAIN d.work
  <2>1. PICK w : w = d.work[i]
    OBVIOUS
  <2>2. Receivable(d, w) /\ ~(w.endpoint = e /\ w.tid = t)
    BY <1>1, <2>1 DEF Owned, PacketsHeld, PacketHeld
  <2>3. endpoint_for(f, w.endpoint)
    BY <2>2 DEF Receivable, WithoutThread, endpoint_for
  <2>4. ASSUME w.tid # 0 PROVE thread_for(f, w.endpoint, w.tid)
    <3>1. w.tid \in DOMAIN d.threads[w.endpoint] /\ w.endpoint \in Tokens
      BY <2>2, <2>4 DEF Receivable, thread_for, endpoint_for
    <3>2. CASE w.endpoint = e
      BY <2>2, <2>3, <3>1, <3>2 DEF WithoutThread, thread_for
    <3>3. CASE w.endpoint # e
      BY <2>3, <3>1, <3>3 DEF WithoutThread, thread_for
    <3> QED BY <3>2, <3>3
  <2> QED BY <2>1, <2>3, <2>4 DEF Receivable
<1>3. SameTurns(d, f) /\ f.work = d.work /\ f.endpoints = d.endpoints
  BY DEF WithoutThread
<1>4. PacketsGo(d, f, {}, "free")
  BY <1>2, <1>3, QuietGo
<1>5. NoneOpens(d, f)
  BY <1>3 DEF NoneOpens
<1> QED BY <1>4, <1>5, GoOwned, GoMoves DEF Moved

\* A new endpoint has no packets.
LEMMA FreshOwned ==
  ASSUME NEW d \in Device, Owned(d), NEW f \in Device, SameTalk(d, f), SameTurns(d, f),
         NEW e \in Tokens, Fresh(d, f, e)
  PROVE Owned(f)
<1>1. \A i \in DOMAIN d.work : Receivable(f, d.work[i])
  BY TalkReceives
<1>2. ASSUME NEW u \in Tokens
      PROVE \/ NotUsed(d, f, u)
            \/ /\ f.endpoints[u].used = d.endpoints[u].used
               /\ \A b \in Buffers : f.endpoints[u].arena[b] = d.endpoints[u].arena[b]
  BY DEF Fresh, NotUsed
<1>3. PacketsGo(d, f, {}, "free")
  BY <1>1, <1>2, QuietGo DEF SameTalk
<1> QED BY <1>3, GoOwned

\* The tokens of endpoints are not given twice.
LEMMA OpenMoves ==
  ASSUME NEW d, Sound(d, 0), Owned(d), NEW f, Stayed(d, f), NEW g, SameTalk(f, g),
         NEW e \in Tokens, Fresh(f, g, e)
  PROVE OneWayMoves(d, g)
<1>0. d \in Device
  BY SoundFacts
<1> SUFFICES ASSUME NEW i \in DOMAIN d.work, d.work[i].async_node # 0
             PROVE LET w == d.work[i] IN
                   \/ w \in Range(g.work) \/ Published(g, w.endpoint, w.buffer)
                   \/ ~g.endpoints[w.endpoint].used
  BY DEF OneWayMoves
<1>1. PICK u \in Tokens : u = d.work[i].endpoint
  BY <1>0, WorkTypes
<1>2. d.endpoints[u].used
  BY <1>1 DEF Owned, PacketsHeld, PacketHeld, Receivable, endpoint_for
<1>3. u # e
  <2>1. u < d.next_token /\ d.next_token <= e
    BY <1>2 DEF Sound, Known, TokensGiven, Fresh, Stayed
  <2>2. u \in Nat /\ e \in Nat /\ d.next_token \in Nat
    BY <1>0, FieldTypes DEF Tokens, Counters
  <2> QED BY <2>1, <2>2
<1>4. d.work[i] \in Range(f.work) \/ ~f.endpoints[u].used
  BY <1>1 DEF Stayed, OneWayStays
<1>5. g.work = f.work /\ g.endpoints[u] = f.endpoints[u]
  BY <1>3 DEF SameTalk, Fresh
<1> QED BY <1>1, <1>4, <1>5

LEMMA CreatedOwned == Owned(Created)
<1>1. PICK d : d = Created
  OBVIOUS
<1>2. d.work = <<>> /\ d.nodes = <<>> /\ \A e \in Tokens : d.endpoints[e] = NoEndpoint
  BY <1>1 DEF Created
<1>3. DOMAIN d.work = {} /\ DOMAIN d.nodes = {}
  BY <1>2
<1>4. \A e \in Tokens : \A b \in Buffers : d.endpoints[e].arena[b] = "free"
  BY <1>2 DEF NoEndpoint
<1>5. Owned(d)
  BY <1>3, <1>4 DEF Owned, BuffersOnce, ReservedQueued, PacketsHeld, NodeTurns
<1> QED BY <1>1, <1>5

----------------------------------------------------------------------------
(* Every entry point keeps the calls paired.                                 *)

DevicePaired == Paired(dev)

LEMMA ReapedPaired ==
  ASSUME DeviceSound, DevicePaired, NEW d, d = reap_closed(dev)
  PROVE d \in Device /\ Sound(d, 0) /\ Paired(d)
<1>1. Sound(d, 0)
  BY ReapSound DEF DeviceSound
<1>2. Paired(d)
  BY ReapPaired DEF DeviceSound, DevicePaired
<1> QED BY <1>1, <1>2, SoundFacts

LEMMA EnterPaired ==
  ASSUME DeviceSound, DevicePaired, NEW e, e \in Tokens, NEW t,
         CanEnter(reap_closed(dev), e, t), NEW f, f = admit_thread(reap_closed(dev), e, t)
  PROVE InCall(f, e, t) /\ Paired(f)
<1>1. PICK d : d = reap_closed(dev)
  OBVIOUS
<1>2. d \in Device /\ Paired(d)
  BY <1>1, ReapedPaired
<1>3. InCall(f, e, t) /\ SameFlow(d, f)
  BY <1>1, EnterSound DEF DeviceSound
<1> QED BY <1>2, <1>3, FlowPaired

LEMMA LeavePaired ==
  ASSUME NEW d, NEW e, NEW t, InCall(d, e, t), Paired(d), NEW f, f = Leave(d, e, t)
  PROVE Paired(f)
<1>1. d \in Device
  BY InCallFacts
<1>2. SameFlow(d, f)
  BY LeaveSound
<1> QED BY <1>1, <1>2, FlowPaired

LEMMA RunsPaired ==
  ASSUME DeviceSound, DevicePaired, NEW e \in Tokens, NEW t, Runs(e, t)
  PROVE DevicePaired'
<1>1. PICK f, g : /\ Commanded(e, t, f, g)
                  /\ InCall(f, e, t) => InCall(g, e, t) /\ CallEffect(f, e, t, g)
  BY DEF Runs
<1>2. InCall(f, e, t) /\ Paired(f)
  BY <1>1, EnterPaired DEF Commanded
<1>3. InCall(g, e, t) /\ Paired(g)
  BY <1>1, <1>2, EffectPaired
<1>4. PICK h : h = dev'
  OBVIOUS
<1>5. Paired(h)
  BY <1>1, <1>3, <1>4, LeavePaired DEF Commanded
<1> QED BY <1>4, <1>5 DEF DevicePaired

LEMMA SleepPaired ==
  ASSUME DeviceSound, DevicePaired, NEW e \in Tokens, NEW t, Sleep(e, t)
  PROVE DevicePaired'
<1>1. PICK d : d = reap_closed(dev)
  OBVIOUS
<1>2. PICK h : h = dev'
  OBVIOUS
<1>3. CanEnter(d, e, t) /\ t \in DOMAIN d.threads[e] /\ h = Asleep(d, e, t)
  BY <1>1, <1>2 DEF Sleep, Asleep
<1>4. InCall(d, e, t)
  BY <1>1, <1>3, EnterSound DEF DeviceSound, InCall
<1>5. SameFlow(d, h)
  BY <1>3, <1>4, FlagSound DEF CanEnter, StillIn
<1>6. Paired(h)
  BY <1>1, <1>5, ReapedPaired, FlowPaired
<1> QED BY <1>2, <1>6 DEF DevicePaired

LEMMA PollPaired ==
  ASSUME DeviceSound, DevicePaired, NEW e \in Tokens, NEW t, Poll(e, t)
  PROVE DevicePaired'
<1>1. PICK d : d = reap_closed(dev)
  OBVIOUS
<1>2. PICK h : h = dev'
  OBVIOUS
<1>3. InCall(d, e, t)
  BY <1>1, WakeSound DEF Poll
<1>4. h = d \/ \E g \in read_work(d, e, t) : h = Leave(g, e, t)
  BY <1>1, <1>2 DEF Poll
<1>5. Paired(d)
  BY <1>1, ReapedPaired
<1>6. ASSUME NEW g \in read_work(d, e, t), h = Leave(g, e, t) PROVE Paired(h)
  <2>1. InCall(g, e, t) /\ CallEffect(d, e, t, g)
    BY <1>3, ReadSound DEF CallEffect
  <2>2. Paired(g)
    BY <1>3, <1>5, <2>1, EffectPaired
  <2> QED BY <1>6, <2>1, <2>2, LeavePaired
<1>7. Paired(h)
  BY <1>4, <1>5, <1>6
<1> QED BY <1>2, <1>7 DEF DevicePaired

LEMMA InterruptedPaired ==
  ASSUME DeviceSound, DevicePaired, NEW e \in Tokens, NEW t, Interrupted(e, t)
  PROVE DevicePaired'
<1>1. PICK d : d = reap_closed(dev)
  OBVIOUS
<1>2. PICK h : h = dev'
  OBVIOUS
<1>3. InCall(d, e, t)
  BY <1>1, WakeSound DEF Interrupted
<1>4. h = Leave(d, e, t)
  BY <1>1, <1>2 DEF Interrupted
<1>5. Paired(h)
  BY <1>1, <1>3, <1>4, ReapedPaired, LeavePaired
<1> QED BY <1>2, <1>5 DEF DevicePaired

LEMMA EventsPaired ==
  ASSUME DeviceSound, DevicePaired, NEW e \in Tokens, NEW t, Events(e, t)
  PROVE DevicePaired'
<1>1. PICK d : d = reap_closed(dev)
  OBVIOUS
<1>2. PICK h : h = dev'
  OBVIOUS
<1>3. Admissible(d, e, t) /\ h = admit_thread(d, e, t)
  BY <1>1, <1>2 DEF Events, Admissible
<1>4. d \in Device /\ Sound(d, 0) /\ Paired(d)
  BY <1>1, ReapedPaired
<1>5. SameFlow(d, h)
  BY <1>3, <1>4, AdmitSound
<1>6. Paired(h)
  BY <1>4, <1>5, FlowPaired
<1> QED BY <1>2, <1>6 DEF DevicePaired

LEMMA ThreadExitPaired ==
  ASSUME DeviceSound, DevicePaired, NEW e \in Tokens, NEW t, ThreadExit(e, t)
  PROVE DevicePaired'
<1>1. PICK d : d = reap_closed(dev)
  OBVIOUS
<1>2. PICK a : a = admit_thread(d, e, t)
  OBVIOUS
<1>3. PICK f : f = cancel_transactions(a, e, t)
  OBVIOUS
<1>4. CanEnter(d, e, t)
  BY <1>1 DEF ThreadExit
<1>5. InCall(a, e, t) /\ Paired(a)
  BY <1>1, <1>2, <1>4, EnterPaired
<1>6. a \in Device /\ t \in Tids
  BY <1>5, InCallFacts
<1>7. f \in Device /\ Bounded(f) /\ Keeps(a, f)
  BY <1>3, <1>5, InCallFacts, CancelFacts
<1>8. Sound(f, 0)
  BY <1>5, <1>7, KeepsSound DEF InCall
<1>9. CallsCut(a, f, e, t)
  <2>1. /\ f.threads = EndedThreads(a, CancelledIds(a, e, t))
        /\ f.next_transaction = a.next_transaction
        /\ f.transactions = a.transactions \ Cancelled(a, e, t)
        /\ f.work = EraseAll(a.work, CancelledWork(a, e, t))
        /\ f.endpoints = FreedArenas(a, CancelledWork(a, e, t))
    BY <1>3, <1>5, InCallFacts, CancelFacts
  <2> QED BY <2>1 DEF CallsCut
<1>10. Paired(f)
  BY <1>5, <1>6, <1>9, CutPaired
<1>11. PICK h : h = dev'
  OBVIOUS
<1>12. h = Left(f, e, t)
  BY <1>1, <1>2, <1>3, <1>7, <1>11, ExitSteps
<1>13. WithoutThread(f, h, e, t)
  BY <1>8, <1>12, LeftSound
<1>14. Paired(h)
  BY <1>5, <1>6, <1>7, <1>9, <1>10, <1>13, LeftPaired
<1> QED BY <1>11, <1>14 DEF DevicePaired

LEMMA OpenPaired ==
  ASSUME DeviceSound, DevicePaired, NEW p \in Procs, Open(p)
  PROVE DevicePaired'
<1>1. PICK d : d = reap_closed(dev)
  OBVIOUS
<1>2. PICK h : h = dev'
  OBVIOUS
<1>3. d.next_token <= TokenLimit /\ h = open(d, p)
  BY <1>1, <1>2 DEF Open
<1>4. d \in Device /\ Sound(d, 0) /\ Paired(d)
  BY <1>1, ReapedPaired
<1>5. SameTalk(d, h)
  BY <1>3, <1>4, OpenSound
<1>6. Paired(h)
  BY <1>4, <1>5, TalkPaired
<1> QED BY <1>2, <1>6 DEF DevicePaired

LEMMA ClosePaired ==
  ASSUME DeviceSound, DevicePaired, NEW e \in Tokens, Close(e)
  PROVE DevicePaired'
<1>1. PICK f : f = Closed(dev, e)
  OBVIOUS
<1>2. PICK h : h = dev'
  OBVIOUS
<1>3. \A t \in DOMAIN dev.threads[e] : ~dev.threads[e][t].active
  BY DEF Close
<1>4. h = reap_closed(f)
  BY <1>1, <1>2 DEF Close, Closed
<1>5. Sound(f, 0) /\ SameFlow(dev, f)
  BY <1>1, <1>3, ClosedSound DEF DeviceSound
<1>6. Paired(f)
  BY <1>5, SoundFacts, FlowPaired DEF DeviceSound, DevicePaired
<1>7. Paired(h)
  BY <1>4, <1>5, <1>6, ReapPaired
<1> QED BY <1>2, <1>7 DEF DevicePaired

LEMMA MmapPaired ==
  ASSUME DeviceSound, DevicePaired, NEW e \in Tokens, Mmap(e)
  PROVE DevicePaired'
<1>1. PICK d : d = reap_closed(dev)
  OBVIOUS
<1>2. PICK h : h = dev'
  OBVIOUS
<1>3. PICK m \in {None, "intact", "torn", "gone"} : m = "intact"
  OBVIOUS
<1>4. h = Mapped(d, e, m)
  BY <1>1, <1>2, <1>3 DEF Mmap, mmap, Mapped
<1>5. d \in Device /\ Sound(d, 0) /\ Paired(d)
  BY <1>1, ReapedPaired
<1>6. Paired(h)
  BY <1>4, <1>5, MappedSound, FlowPaired
<1> QED BY <1>2, <1>6 DEF DevicePaired

LEMMA UnmapPaired ==
  ASSUME DeviceSound, DevicePaired, NEW e \in Tokens, NEW part, part \in {"torn", "gone"},
         Unmap(e, part)
  PROVE DevicePaired'
<1>1. PICK h : h = dev'
  OBVIOUS
<1>2. h = Mapped(dev, e, part)
  BY <1>1 DEF Unmap, Mapped
<1>3. part \in {None, "intact", "torn", "gone"}
  OBVIOUS
<1>4. SameFlow(dev, h)
  BY <1>2, <1>3, MappedSound DEF DeviceSound
<1>5. Paired(h)
  BY <1>4, SoundFacts, FlowPaired DEF DeviceSound, DevicePaired
<1> QED BY <1>1, <1>5 DEF DevicePaired

LEMMA NonblockingPaired ==
  ASSUME DeviceSound, DevicePaired, NEW e \in Tokens, NEW enabled \in BOOLEAN,
         set_nonblocking(e, enabled)
  PROVE DevicePaired'
<1>1. PICK h : h = dev'
  OBVIOUS
<1>2. h = Blocking(dev, e, enabled)
  BY <1>1 DEF set_nonblocking, Blocking
<1>3. SameFlow(dev, h)
  BY <1>2, BlockingSound DEF DeviceSound
<1>4. Paired(h)
  BY <1>3, SoundFacts, FlowPaired DEF DeviceSound, DevicePaired
<1> QED BY <1>1, <1>4 DEF DevicePaired

LEMMA RefusedPaired ==
  ASSUME DeviceSound, DevicePaired, Refused
  PROVE DevicePaired'
<1>1. PICK h : h = dev'
  OBVIOUS
<1>2. Paired(h)
  BY <1>1, ReapedPaired DEF Refused
<1> QED BY <1>1, <1>2 DEF DevicePaired

LEMMA StepPaired ==
  ASSUME DeviceSound, DevicePaired, [Next]_dev
  PROVE DevicePaired'
<1>1. CASE UNCHANGED dev
  BY <1>1 DEF DevicePaired
<1>2. ASSUME NEW p \in Procs, Open(p) PROVE DevicePaired'
  BY <1>2, OpenPaired
<1>3. CASE Refused
  BY <1>3, RefusedPaired
<1>4. ASSUME NEW e \in Tokens, Close(e) \/ Mmap(e) PROVE DevicePaired'
  BY <1>4, ClosePaired, MmapPaired
<1>5. ASSUME NEW e \in Tokens, NEW part \in {"torn", "gone"}, Unmap(e, part)
      PROVE DevicePaired'
  BY <1>5, UnmapPaired
<1>6. ASSUME NEW e \in Tokens, NEW enabled \in BOOLEAN, set_nonblocking(e, enabled)
      PROVE DevicePaired'
  BY <1>6, NonblockingPaired
<1>7. ASSUME NEW e \in Tokens, NEW t \in Tids, ThreadStep(e, t) PROVE DevicePaired'
  BY <1>7, ThreadStepRuns, RunsPaired, ThreadExitPaired, SleepPaired, PollPaired,
     InterruptedPaired, EventsPaired
<1> QED BY <1>1, <1>2, <1>3, <1>4, <1>5, <1>6, <1>7 DEF Next

LEMMA CreatedPaired == Paired(Created)
<1>1. PICK d : d = Created
  OBVIOUS
<1>2. /\ d.transactions = {} /\ d.work = <<>>
      /\ \A e \in Tokens : DOMAIN d.threads[e] = {}
  BY <1>1 DEF Created
<1>3. DOMAIN d.work = {}
  BY <1>2
<1>4. Paired(d)
  BY <1>2, <1>3 DEF Paired, NumbersGiven, QueuedOnce, CallsGo, PacketsKnown, ThreadsKnow
<1> QED BY <1>1, <1>4

----------------------------------------------------------------------------
(* The theorem.                                                              *)

LEMMA PairedCalls ==
  ASSUME DeviceSound, DevicePaired
  PROVE CallsPaired
<1>0. dev \in Device
  BY SoundFacts DEF DeviceSound
<1>1. ASSUME NEW x \in dev.transactions
      PROVE /\ Callers(x.id) = {<<x.source, x.source_tid>>}
            /\ endpoint_for(dev, x.target) /\ x.source # x.target
            /\ IF x.target_tid = 0
               THEN /\ Cardinality(QueuedFor(x.id)) = 1
                    /\ \A i \in QueuedFor(x.id) : dev.work[i].endpoint = x.target
               ELSE /\ QueuedFor(x.id) = {}
                    /\ thread_for(dev, x.target, x.target_tid)
                    /\ dev.threads[x.target][x.target_tid].incoming = x.id
  <2>1. CallGoes(dev, x) /\ x.source \in Tokens /\ x.source_tid \in Tids /\ x.id # 0
    BY <1>0, CallTypes DEF DevicePaired, Paired, CallsGo
  <2>2. ASSUME NEW e \in Tokens, NEW t \in Tids, thread_for(dev, e, t),
               dev.threads[e][t].outgoing = x.id
        PROVE e = x.source /\ t = x.source_tid
    <3>1. t \in DOMAIN dev.threads[e]
      BY <2>2 DEF thread_for
    <3>2. Calling(dev, e, t, dev.threads[e][t])
      BY <3>1 DEF DevicePaired, Paired, ThreadsKnow
    <3> QED BY <2>1, <2>2, <3>2 DEF Calling, DevicePaired, Paired, NumbersGiven
  <2>3. thread_for(dev, x.source, x.source_tid)
        /\ dev.threads[x.source][x.source_tid].outgoing = x.id
    BY <2>1 DEF CallGoes
  <2>4. Callers(x.id) = {<<x.source, x.source_tid>>}
    BY <2>1, <2>2, <2>3 DEF Callers
  <2>5. \A i \in QueuedFor(x.id) : /\ i \in DOMAIN dev.work /\ dev.work[i].transaction = x.id
                                   /\ dev.work[i].endpoint = x.target /\ x.target_tid = 0
    <3> TAKE i \in QueuedFor(x.id)
    <3>1. i \in DOMAIN dev.work /\ dev.work[i].transaction = x.id
      BY DEF QueuedFor
    <3>2. PICK y \in dev.transactions : /\ y.id = x.id /\ y.target = dev.work[i].endpoint
                                        /\ y.target_tid = 0
      BY <2>1, <3>1 DEF DevicePaired, Paired, PacketsKnown, PacketOfCall
    <3>3. y = x
      BY <3>2 DEF DevicePaired, Paired, NumbersGiven
    <3> QED BY <3>1, <3>2, <3>3
  <2>6. CASE x.target_tid = 0
    <3>1. PICK k \in DOMAIN dev.work : dev.work[k].transaction = x.id
      BY <2>1, <2>6 DEF CallGoes, Queues
    <3>2. \A i \in QueuedFor(x.id) : i = k
      BY <2>1, <2>5, <3>1 DEF DevicePaired, Paired, QueuedOnce
    <3>3. QueuedFor(x.id) = {k}
      BY <3>1, <3>2 DEF QueuedFor
    <3>4. Cardinality(QueuedFor(x.id)) = 1
      BY <3>3, FS_Singleton
    <3> QED BY <2>1, <2>4, <2>5, <2>6, <3>4 DEF CallGoes
  <2>7. CASE x.target_tid # 0
    <3>1. QueuedFor(x.id) = {}
      BY <2>5, <2>7
    <3> QED BY <2>1, <2>4, <2>7, <3>1 DEF CallGoes, Serves
  <2> QED BY <2>6, <2>7
<1>2. ASSUME NEW e \in Tokens, NEW t \in DOMAIN dev.threads[e]
      PROVE LET th == dev.threads[e][t] IN
            /\ th.active => dev.endpoints[e].opened
            /\ th.incoming = 0 \/ (th.outgoing = 0 /\ ~th.dead_reply)
            /\ \A id \in {th.incoming, th.outgoing} \ {0} :
                 \E x \in dev.transactions :
                   /\ x.id = id
                   /\ id = th.incoming => x.target = e /\ x.target_tid = t
  <2>1. PICK th : th = dev.threads[e][t]
    OBVIOUS
  <2>2. Calling(dev, e, t, th) /\ Serving(dev, e, t, th)
    BY <2>1 DEF DevicePaired, Paired, ThreadsKnow
  <2>3. th.active => dev.endpoints[e].opened
    BY <2>1 DEF DeviceSound, Sound, Known, SleepersOpen
  <2>4. th.incoming = 0 \/ (th.outgoing = 0 /\ ~th.dead_reply)
    BY <2>2 DEF Serving
  <2>5. ASSUME NEW id \in {th.incoming, th.outgoing} \ {0}
        PROVE \E x \in dev.transactions :
                /\ x.id = id /\ (id = th.incoming => x.target = e /\ x.target_tid = t)
    <3>1. CASE id = th.incoming
      BY <2>2, <3>1 DEF Serving
    <3>2. CASE id # th.incoming
      BY <2>2, <3>2 DEF Calling
    <3> QED BY <3>1, <3>2
  <2> QED BY <2>1, <2>3, <2>4, <2>5
<1>3. ASSUME NEW i \in DOMAIN dev.work, dev.work[i].transaction # 0
      PROVE \E x \in dev.transactions : x.id = dev.work[i].transaction
  BY <1>3 DEF DevicePaired, Paired, PacketsKnown, PacketOfCall
<1> QED BY <1>1, <1>2, <1>3 DEF CallsPaired

\* transfer_packet, reply_packet, read_work and cancel_transactions: a caller
\* waits for a call exactly as long as the call is queued once for an endpoint
\* that exists or served by the one thread that knows it, whatever the number of
\* processes, threads, endpoints and calls.
THEOREM NoCallerIsStranded == Spec => []CallsPaired
<1>1. Init => DeviceSound /\ DevicePaired
  BY CreatedSound, CreatedPaired DEF Init, DeviceSound, DevicePaired
<1>2. DeviceSound /\ DevicePaired /\ [Next]_dev => DeviceSound' /\ DevicePaired'
  BY StepKeeps, StepPaired
<1>3. DeviceSound /\ DevicePaired => CallsPaired
  BY PairedCalls
<1> QED BY <1>1, <1>2, <1>3, PTL DEF Spec

----------------------------------------------------------------------------
(* Every entry point keeps the buffers and the turns.                        *)

DeviceOwned == Owned(dev)

\* No one-way call was received when d became f.
Still(d, f) == f \in Device /\ Owned(f) /\ OneWayStays(d, f) /\ NoneOpens(d, f)

LEMMA FlowStill ==
  ASSUME NEW d \in Device, Owned(d), NEW f \in Device, SameFlow(d, f)
  PROVE Still(d, f)
  BY FlowOwned, FlowNone DEF Still

LEMMA StillTrans ==
  ASSUME NEW d \in Device, NEW f, Still(d, f), NEW g, Still(f, g)
  PROVE Still(d, g)
<1>1. OneWayStays(d, g)
  BY StaysTrans DEF Still
<1>2. NoneOpens(d, g)
  BY DEF Still, NoneOpens
<1> QED BY <1>1, <1>2 DEF Still

LEMMA StillMoved ==
  ASSUME NEW d \in Device, NEW f, Still(d, f), NEW g, Moved(f, g)
  PROVE Moved(d, g)
<1>1. OneWayMoves(d, g)
  BY MovesTrans DEF Still, Moved
<1>2. NoneOpens(d, g)
  BY DEF Still, Moved, NoneOpens
<1> QED BY <1>1, <1>2 DEF Moved

LEMMA StillIsMoved ==
  ASSUME NEW d \in Device, NEW f, Still(d, f)
  PROVE Moved(d, f)
  BY DEF Still, Moved, OneWayStays, OneWayMoves

LEMMA ReapedOwned ==
  ASSUME DeviceSound, DevicePaired, DeviceOwned, NEW d, d = reap_closed(dev)
  PROVE /\ dev \in Device /\ d \in Device /\ Sound(d, 0) /\ Paired(d) /\ Owned(d)
        /\ Stayed(dev, d) /\ Still(dev, d)
<1>1. dev \in Device /\ d \in Device /\ Sound(d, 0) /\ Paired(d)
  BY ReapedPaired, SoundFacts DEF DeviceSound
<1>2. Stayed(dev, d)
  BY ReapOwned DEF DeviceSound, DeviceOwned
<1> QED BY <1>1, <1>2 DEF Stayed, Still

LEMMA EnterOwned ==
  ASSUME DeviceSound, DevicePaired, DeviceOwned, NEW e, e \in Tokens, NEW t,
         CanEnter(reap_closed(dev), e, t), NEW f, f = admit_thread(reap_closed(dev), e, t)
  PROVE InCall(f, e, t) /\ Paired(f) /\ Still(dev, f)
<1>1. PICK d : d = reap_closed(dev)
  OBVIOUS
<1>2. dev \in Device /\ d \in Device /\ Owned(d) /\ Still(dev, d)
  BY <1>1, ReapedOwned
<1>3. InCall(f, e, t) /\ SameFlow(d, f)
  BY <1>1, EnterSound DEF DeviceSound
<1>4. f \in Device
  BY <1>3, InCallFacts
<1>5. Still(dev, f)
  BY <1>2, <1>3, <1>4, FlowStill, StillTrans
<1> QED BY <1>3, <1>5, EnterPaired

LEMMA LeaveOwned ==
  ASSUME NEW d \in Device, NEW g, Moved(d, g), NEW e, NEW t, InCall(g, e, t),
         NEW f, f = Leave(g, e, t)
  PROVE Moved(d, f)
<1>1. f \in Device /\ SameFlow(g, f)
  BY LeaveSound, SoundFacts
<1> QED BY <1>1, MovedFlow

LEMMA RunsOwned ==
  ASSUME DeviceSound, DevicePaired, DeviceOwned, NEW e \in Tokens, NEW t, Runs(e, t)
  PROVE Moved(dev, dev')
<1>1. PICK f, g : /\ Commanded(e, t, f, g)
                  /\ InCall(f, e, t) => InCall(g, e, t) /\ CallEffect(f, e, t, g)
  BY DEF Runs
<1>2. dev \in Device
  BY SoundFacts DEF DeviceSound
<1>3. InCall(f, e, t) /\ Paired(f) /\ Still(dev, f)
  BY <1>1, EnterOwned DEF Commanded
<1>4. InCall(g, e, t) /\ g \in Device /\ f \in Device
  BY <1>1, <1>3, InCallFacts
<1>5. Moved(f, g)
  BY <1>1, <1>3, <1>4, EffectOwned DEF Still
<1>6. PICK h : h = dev'
  OBVIOUS
<1>7. Moved(f, h)
  BY <1>1, <1>4, <1>5, <1>6, LeaveOwned DEF Commanded
<1> QED BY <1>2, <1>3, <1>6, <1>7, StillMoved

LEMMA SleepOwned ==
  ASSUME DeviceSound, DevicePaired, DeviceOwned, NEW e \in Tokens, NEW t, Sleep(e, t)
  PROVE Moved(dev, dev')
<1>1. PICK d : d = reap_closed(dev)
  OBVIOUS
<1>2. PICK h : h = dev'
  OBVIOUS
<1>3. CanEnter(d, e, t) /\ t \in DOMAIN d.threads[e] /\ h = Asleep(d, e, t)
  BY <1>1, <1>2 DEF Sleep, Asleep
<1>4. InCall(d, e, t)
  BY <1>1, <1>3, EnterSound DEF DeviceSound, InCall
<1>5. SameFlow(d, h) /\ h \in Device
  BY <1>3, <1>4, FlagSound, InCallFacts DEF CanEnter, StillIn
<1>6. Still(dev, d) /\ d \in Device /\ Owned(d) /\ dev \in Device
  BY <1>1, ReapedOwned
<1>7. Moved(d, h)
  BY <1>5, <1>6, FlowMoved
<1> QED BY <1>2, <1>6, <1>7, StillMoved

LEMMA PollOwned ==
  ASSUME DeviceSound, DevicePaired, DeviceOwned, NEW e \in Tokens, NEW t, Poll(e, t)
  PROVE Moved(dev, dev')
<1>1. PICK d : d = reap_closed(dev)
  OBVIOUS
<1>2. PICK h : h = dev'
  OBVIOUS
<1>3. InCall(d, e, t)
  BY <1>1, WakeSound DEF Poll
<1>4. h = d \/ \E g \in read_work(d, e, t) : h = Leave(g, e, t)
  BY <1>1, <1>2 DEF Poll
<1>5. Still(dev, d) /\ d \in Device /\ Owned(d) /\ Paired(d) /\ dev \in Device
  BY <1>1, ReapedOwned
<1>6. ASSUME NEW g \in read_work(d, e, t), h = Leave(g, e, t) PROVE Moved(dev, h)
  <2>1. InCall(g, e, t) /\ CallEffect(d, e, t, g) /\ g \in Device
    BY <1>3, ReadSound, InCallFacts DEF CallEffect
  <2>2. Moved(d, g)
    BY <1>3, <1>5, <2>1, EffectOwned
  <2>3. Moved(d, h)
    BY <1>5, <1>6, <2>1, <2>2, LeaveOwned
  <2> QED BY <1>5, <2>3, StillMoved
<1>7. Moved(dev, d)
  BY <1>5, StillIsMoved
<1> QED BY <1>2, <1>4, <1>6, <1>7

LEMMA InterruptedOwned ==
  ASSUME DeviceSound, DevicePaired, DeviceOwned, NEW e \in Tokens, NEW t, Interrupted(e, t)
  PROVE Moved(dev, dev')
<1>1. PICK d : d = reap_closed(dev)
  OBVIOUS
<1>2. PICK h : h = dev'
  OBVIOUS
<1>3. InCall(d, e, t)
  BY <1>1, WakeSound DEF Interrupted
<1>4. h = Leave(d, e, t)
  BY <1>1, <1>2 DEF Interrupted
<1>5. dev \in Device /\ Still(dev, d)
  BY <1>1, ReapedOwned
<1>6. Moved(dev, h)
  BY <1>3, <1>4, <1>5, StillIsMoved, LeaveOwned
<1> QED BY <1>2, <1>6

LEMMA EventsOwned ==
  ASSUME DeviceSound, DevicePaired, DeviceOwned, NEW e \in Tokens, NEW t, Events(e, t)
  PROVE Moved(dev, dev')
<1>1. PICK d : d = reap_closed(dev)
  OBVIOUS
<1>2. PICK h : h = dev'
  OBVIOUS
<1>3. Admissible(d, e, t) /\ h = admit_thread(d, e, t)
  BY <1>1, <1>2 DEF Events, Admissible
<1>4. d \in Device /\ Sound(d, 0) /\ Owned(d) /\ dev \in Device /\ Still(dev, d)
  BY <1>1, ReapedOwned
<1>5. SameFlow(d, h) /\ h \in Device
  BY <1>3, <1>4, AdmitSound, InCallFacts
<1>6. Moved(d, h)
  BY <1>4, <1>5, FlowMoved
<1> QED BY <1>2, <1>4, <1>6, StillMoved

LEMMA ThreadExitOwned ==
  ASSUME DeviceSound, DevicePaired, DeviceOwned, NEW e \in Tokens, NEW t, ThreadExit(e, t)
  PROVE Moved(dev, dev')
<1>1. PICK d : d = reap_closed(dev)
  OBVIOUS
<1>2. PICK a : a = admit_thread(d, e, t)
  OBVIOUS
<1>3. PICK f : f = cancel_transactions(a, e, t)
  OBVIOUS
<1>4. CanEnter(d, e, t)
  BY <1>1 DEF ThreadExit
<1>5. InCall(a, e, t) /\ Still(dev, a)
  BY <1>1, <1>2, <1>4, EnterOwned
<1>6. a \in Device /\ t \in Tids /\ Owned(a) /\ dev \in Device
  BY <1>5, InCallFacts, SoundFacts DEF DeviceSound, Still
<1>7. f \in Device /\ Bounded(f) /\ Keeps(a, f) /\ OldNodes(a, f)
  BY <1>3, <1>5, InCallFacts, CancelFacts
<1>8. Sound(f, 0)
  BY <1>5, <1>7, KeepsSound DEF InCall
<1>9. CallsCut(a, f, e, t)
  <2>1. /\ f.threads = EndedThreads(a, CancelledIds(a, e, t))
        /\ f.next_transaction = a.next_transaction
        /\ f.transactions = a.transactions \ Cancelled(a, e, t)
        /\ f.work = EraseAll(a.work, CancelledWork(a, e, t))
        /\ f.endpoints = FreedArenas(a, CancelledWork(a, e, t))
    BY <1>3, <1>5, InCallFacts, CancelFacts
  <2> QED BY <2>1 DEF CallsCut
<1>10. Still(a, f)
  <2>1. Owned(f) /\ OneWayStays(a, f)
    BY <1>6, <1>7, <1>9, CutOwned
  <2>2. NoneOpens(a, f)
    BY <1>6, <1>9, FreedArenasFacts DEF CallsCut, NoneOpens
  <2> QED BY <1>7, <2>1, <2>2 DEF Still
<1>11. PICK h : h = dev'
  OBVIOUS
<1>12. h = Left(f, e, t)
  BY <1>1, <1>2, <1>3, <1>7, <1>11, ExitSteps
<1>13. WithoutThread(f, h, e, t) /\ h \in Device
  BY <1>8, <1>12, LeftSound, SoundFacts
<1>14. Moved(f, h)
  BY <1>6, <1>7, <1>9, <1>10, <1>13, LeftOwned DEF Still
<1>15. Still(dev, f)
  BY <1>5, <1>6, <1>10, StillTrans
<1> QED BY <1>6, <1>11, <1>14, <1>15, StillMoved

LEMMA OpenOwned ==
  ASSUME DeviceSound, DevicePaired, DeviceOwned, NEW p \in Procs, Open(p)
  PROVE DeviceOwned' /\ OneWayMoves(dev, dev')
<1>1. PICK d : d = reap_closed(dev)
  OBVIOUS
<1>2. PICK h : h = dev'
  OBVIOUS
<1>3. d.next_token <= TokenLimit /\ h = open(d, p)
  BY <1>1, <1>2 DEF Open
<1>4. d \in Device /\ Sound(d, 0) /\ Owned(d) /\ Stayed(dev, d)
  BY <1>1, ReapedOwned
<1>5. Sound(h, 0) /\ SameTalk(d, h) /\ SameTurns(d, h) /\ \E e \in Tokens : Fresh(d, h, e)
  BY <1>3, <1>4, OpenSound
<1>6. PICK e \in Tokens : Fresh(d, h, e)
  BY <1>5
<1>7. Owned(h)
  BY <1>4, <1>5, <1>6, SoundFacts, FreshOwned
<1>8. OneWayMoves(dev, h)
  BY <1>4, <1>5, <1>6, OpenMoves DEF DeviceSound, DeviceOwned
<1> QED BY <1>2, <1>7, <1>8 DEF DeviceOwned

LEMMA CloseOwned ==
  ASSUME DeviceSound, DevicePaired, DeviceOwned, NEW e \in Tokens, Close(e)
  PROVE Moved(dev, dev')
<1>1. PICK f : f = Closed(dev, e)
  OBVIOUS
<1>2. PICK h : h = dev'
  OBVIOUS
<1>3. \A t \in DOMAIN dev.threads[e] : ~dev.threads[e][t].active
  BY DEF Close
<1>4. h = reap_closed(f)
  BY <1>1, <1>2 DEF Close, Closed
<1>5. Sound(f, 0) /\ SameFlow(dev, f)
  BY <1>1, <1>3, ClosedSound DEF DeviceSound
<1>6. dev \in Device /\ f \in Device
  BY <1>5, SoundFacts DEF DeviceSound
<1>7. Still(dev, f)
  BY <1>5, <1>6, FlowStill DEF DeviceOwned
<1>8. Stayed(f, h)
  BY <1>4, <1>5, <1>7, ReapOwned DEF Still
<1>9. Still(f, h)
  BY <1>8, SoundFacts DEF Stayed, Still
<1> QED BY <1>2, <1>6, <1>7, <1>9, StillTrans, StillIsMoved

LEMMA MmapOwned ==
  ASSUME DeviceSound, DevicePaired, DeviceOwned, NEW e \in Tokens, Mmap(e)
  PROVE Moved(dev, dev')
<1>1. PICK d : d = reap_closed(dev)
  OBVIOUS
<1>2. PICK h : h = dev'
  OBVIOUS
<1>3. PICK m \in {None, "intact", "torn", "gone"} : m = "intact"
  OBVIOUS
<1>4. h = Mapped(d, e, m)
  BY <1>1, <1>2, <1>3 DEF Mmap, mmap, Mapped
<1>5. d \in Device /\ Sound(d, 0) /\ Owned(d) /\ dev \in Device /\ Still(dev, d)
  BY <1>1, ReapedOwned
<1>6. SameFlow(d, h) /\ h \in Device
  BY <1>4, <1>5, MappedSound, SoundFacts
<1>7. Moved(d, h)
  BY <1>5, <1>6, FlowMoved
<1> QED BY <1>2, <1>5, <1>7, StillMoved

LEMMA UnmapOwned ==
  ASSUME DeviceSound, DevicePaired, DeviceOwned, NEW e \in Tokens,
         NEW part, part \in {"torn", "gone"}, Unmap(e, part)
  PROVE Moved(dev, dev')
<1>1. PICK h : h = dev'
  OBVIOUS
<1>2. h = Mapped(dev, e, part)
  BY <1>1 DEF Unmap, Mapped
<1>3. part \in {None, "intact", "torn", "gone"}
  OBVIOUS
<1>4. SameFlow(dev, h) /\ h \in Device /\ dev \in Device
  BY <1>2, <1>3, MappedSound, SoundFacts DEF DeviceSound
<1> QED BY <1>1, <1>4, FlowMoved DEF DeviceOwned

LEMMA NonblockingOwned ==
  ASSUME DeviceSound, DevicePaired, DeviceOwned, NEW e \in Tokens, NEW enabled \in BOOLEAN,
         set_nonblocking(e, enabled)
  PROVE Moved(dev, dev')
<1>1. PICK h : h = dev'
  OBVIOUS
<1>2. h = Blocking(dev, e, enabled)
  BY <1>1 DEF set_nonblocking, Blocking
<1>3. SameFlow(dev, h) /\ h \in Device /\ dev \in Device
  BY <1>2, BlockingSound, SoundFacts DEF DeviceSound
<1> QED BY <1>1, <1>3, FlowMoved DEF DeviceOwned

LEMMA RefusedOwned ==
  ASSUME DeviceSound, DevicePaired, DeviceOwned, Refused
  PROVE Moved(dev, dev')
<1>1. PICK h : h = dev'
  OBVIOUS
<1>2. Still(dev, h) /\ dev \in Device
  BY <1>1, ReapedOwned DEF Refused
<1> QED BY <1>1, <1>2, StillIsMoved

LEMMA StepOwned ==
  ASSUME DeviceSound, DevicePaired, DeviceOwned, [Next]_dev
  PROVE DeviceOwned' /\ OneWayMoves(dev, dev')
<1>0. ASSUME Moved(dev, dev') PROVE DeviceOwned' /\ OneWayMoves(dev, dev')
  BY <1>0 DEF Moved, DeviceOwned
<1>1. CASE UNCHANGED dev
  <2>1. PICK h : h = dev' /\ h = dev
    BY <1>1
  <2>2. h \in Device /\ dev \in Device
    BY <2>1, SoundFacts DEF DeviceSound
  <2>3. Moved(dev, h)
    BY <2>1, <2>2, FlowRefl, FlowMoved DEF DeviceOwned
  <2> QED BY <1>0, <2>1, <2>3
<1>2. ASSUME NEW p \in Procs, Open(p) PROVE DeviceOwned' /\ OneWayMoves(dev, dev')
  BY <1>2, OpenOwned
<1>3. CASE Refused
  BY <1>0, <1>3, RefusedOwned
<1>4. ASSUME NEW e \in Tokens, Close(e) \/ Mmap(e)
      PROVE DeviceOwned' /\ OneWayMoves(dev, dev')
  BY <1>0, <1>4, CloseOwned, MmapOwned
<1>5. ASSUME NEW e \in Tokens, NEW part \in {"torn", "gone"}, Unmap(e, part)
      PROVE DeviceOwned' /\ OneWayMoves(dev, dev')
  BY <1>0, <1>5, UnmapOwned
<1>6. ASSUME NEW e \in Tokens, NEW enabled \in BOOLEAN, set_nonblocking(e, enabled)
      PROVE DeviceOwned' /\ OneWayMoves(dev, dev')
  BY <1>0, <1>6, NonblockingOwned
<1>7. ASSUME NEW e \in Tokens, NEW t \in Tids, ThreadStep(e, t)
      PROVE DeviceOwned' /\ OneWayMoves(dev, dev')
  BY <1>0, <1>7, ThreadStepRuns, RunsOwned, ThreadExitOwned, SleepOwned, PollOwned,
     InterruptedOwned, EventsOwned
<1> QED BY <1>1, <1>2, <1>3, <1>4, <1>5, <1>6, <1>7 DEF Next

LEMMA OwnedBuffers ==
  ASSUME DeviceSound, DeviceOwned
  PROVE BuffersOwned
<1>0. dev \in Device
  BY SoundFacts DEF DeviceSound
<1>1. ASSUME NEW e \in Tokens, NEW b \in Buffers
      PROVE Cardinality({i \in DOMAIN dev.work :
                           dev.work[i].endpoint = e /\ dev.work[i].buffer = b})
              = IF dev.endpoints[e].arena[b] = "reserved" THEN 1 ELSE 0
  <2>1. PICK Q : Q = {i \in DOMAIN dev.work :
                        dev.work[i].endpoint = e /\ dev.work[i].buffer = b}
    OBVIOUS
  <2>2. \A i : i \in Q <=> i \in DOMAIN dev.work /\ Fills(dev.work[i], e, b)
    BY <2>1 DEF Fills
  <2>3. CASE dev.endpoints[e].arena[b] = "reserved"
    <3>1. PICK i \in DOMAIN dev.work : Fills(dev.work[i], e, b)
      BY <2>3 DEF DeviceOwned, Owned, ReservedQueued
    <3>2. \A j \in Q : j = i
      BY <2>2, <3>1 DEF DeviceOwned, Owned, BuffersOnce, Fills
    <3>3. Q = {i}
      BY <2>2, <3>1, <3>2
    <3>4. Cardinality(Q) = 1
      BY <3>3, FS_Singleton
    <3> QED BY <2>1, <2>3, <3>4
  <2>4. CASE dev.endpoints[e].arena[b] # "reserved"
    <3>1. Q = {}
      BY <2>2, <2>4 DEF DeviceOwned, Owned, PacketsHeld, PacketHeld, Fills
    <3>2. Cardinality(Q) = 0
      BY <3>1, FS_EmptySet
    <3> QED BY <2>1, <2>4, <3>2
  <2> QED BY <2>3, <2>4
<1>2. ASSUME NEW i \in DOMAIN dev.work
      PROVE Receivable(dev, dev.work[i])
  BY DEF DeviceOwned, Owned, PacketsHeld, PacketHeld
<1> QED BY <1>1, <1>2 DEF BuffersOwned, Receivable

LEMMA OwnedTurns ==
  ASSUME DeviceSound, DeviceOwned
  PROVE OneWayInTurn
<1>0. dev \in Device
  BY SoundFacts DEF DeviceSound
<1> SUFFICES ASSUME NEW n \in DOMAIN dev.nodes
             PROVE LET node == dev.nodes[n]
                       Q == {i \in DOMAIN dev.work : dev.work[i].async_node = n}
                   IN /\ Q # {} =>
                           \/ node.async_buffer = dev.work[Min(Q)].buffer
                           \/ /\ node.async_buffer # 0
                              /\ Delivered(node.owner, node.async_buffer)
                      /\ node.async_buffer # 0 /\ ~node.dead =>
                           dev.endpoints[node.owner].arena[node.async_buffer] # "free"
  BY DEF OneWayInTurn
<1>1. PICK o \in Tokens : o = dev.nodes[n].owner
  BY <1>0, TurnTypes
<1>2. PICK a : a = dev.nodes[n].async_buffer
  OBVIOUS
<1>3. PICK Q : Q = {i \in DOMAIN dev.work : dev.work[i].async_node = n}
  OBVIOUS
<1>4. TurnOfFirst(dev, n, o, a) /\ TurnTaken(dev, n, o, a) /\ n # 0
  BY <1>0, <1>1, <1>2, TurnTypes DEF DeviceOwned, Owned, NodeTurns, NodeTurn
<1>5. ASSUME Q # {}
      PROVE a = dev.work[Min(Q)].buffer \/ (a # 0 /\ Delivered(o, a))
  <2>1. Q \in SUBSET Nat
    BY <1>0, <1>3, WorkTypes
  <2>2. PICK i : i = Min(Q)
    OBVIOUS
  <2>3. i \in Q /\ \A k \in Q : i <= k
    BY <1>5, <2>1, <2>2, MinIn
  <2>4. i \in DOMAIN dev.work /\ FirstOf(dev, n, i)
    BY <1>3, <2>3 DEF FirstOf
  <2>5. a = dev.work[i].buffer \/ (a # 0 /\ Published(dev, o, a))
    BY <1>4, <2>4 DEF TurnOfFirst
  <2> QED BY <2>2, <2>5 DEF Published, Delivered
<1>6. ASSUME a # 0, ~dev.nodes[n].dead
      PROVE dev.endpoints[o].arena[a] # "free"
  <2>1. endpoint_for(dev, o)
    BY <1>1, <1>6 DEF DeviceSound, Sound, Known, NodesOwned
  <2>2. CASE Published(dev, o, a)
    BY <2>2 DEF Published
  <2>3. CASE ~Published(dev, o, a)
    <3>1. PICK i \in DOMAIN dev.work :
            dev.work[i].async_node = n /\ dev.work[i].buffer = a
      BY <1>4, <1>6, <2>1, <2>3 DEF TurnTaken
    <3>2. PacketHeld(dev, dev.work[i]) /\ dev.work[i].endpoint = o
      BY <1>1, <1>4, <3>1 DEF DeviceOwned, Owned, PacketsHeld, PacketHeld, OneWayPacket
    <3> QED BY <3>1, <3>2 DEF PacketHeld
  <2> QED BY <2>2, <2>3
<1> QED BY <1>1, <1>2, <1>3, <1>5, <1>6

AgreedInv == DeviceSound /\ DevicePaired /\ DeviceOwned

LEMMA AgreedInit ==
  ASSUME Init
  PROVE AgreedInv
  BY CreatedSound, CreatedPaired, CreatedOwned
  DEF Init, AgreedInv, DeviceSound, DevicePaired, DeviceOwned

LEMMA AgreedStep ==
  ASSUME AgreedInv, [Next]_dev
  PROVE AgreedInv' /\ OneWayMoves(dev, dev')
<1>1. DeviceSound'
  BY StepKeeps DEF AgreedInv
<1>2. DevicePaired'
  BY StepPaired DEF AgreedInv
<1>3. DeviceOwned' /\ OneWayMoves(dev, dev')
  BY StepOwned DEF AgreedInv
<1> QED BY <1>1, <1>2, <1>3 DEF AgreedInv

\* reserve_payload, read_work, free_packet, cancel_transactions and release_endpoint:
\* the buffers a queued packet will fill are reserved, each for one packet, and
\* packets are only queued for endpoints and threads that exist, whatever the
\* number of processes, threads, endpoints and buffers.
THEOREM ReservedIsQueued == Spec => []BuffersOwned
<1>1. Init => AgreedInv
  BY AgreedInit
<1>2. AgreedInv /\ [Next]_dev => AgreedInv'
  BY AgreedStep
<1>3. AgreedInv => BuffersOwned
  BY OwnedBuffers DEF AgreedInv
<1> QED BY <1>1, <1>2, <1>3, PTL DEF Spec

\* transfer_packet, work_for and free_packet: the one-way calls of a node are
\* received one at a time, in order, and the next one can be as soon as the
\* receiver has freed the last one.
THEOREM OneAtATime == Spec => []OneWayInTurn
<1>1. Init => AgreedInv
  BY AgreedInit
<1>2. AgreedInv /\ [Next]_dev => AgreedInv'
  BY AgreedStep
<1>3. AgreedInv => OneWayInTurn
  BY OwnedTurns DEF AgreedInv
<1> QED BY <1>1, <1>2, <1>3, PTL DEF Spec

\* cancel_transactions and release_endpoint: an accepted one-way call is delivered
\* unless its target goes, whatever becomes of its sender.
THEOREM AcceptedIsKept == Spec => OneWayKept
<1> DEFINE Remains == \A i \in DOMAIN dev.work :
       LET w == dev.work[i] IN
       w.async_node # 0 => \/ w \in Range(dev'.work)
                           \/ dev'.endpoints[w.endpoint].arena[w.buffer] = "delivered"
                           \/ ~dev'.endpoints[w.endpoint].used
<1>1. Init => AgreedInv
  BY AgreedInit
<1>2. AgreedInv /\ [Next]_dev => AgreedInv' /\ [Remains]_dev
  <2> SUFFICES ASSUME AgreedInv, [Next]_dev PROVE AgreedInv' /\ Remains
    OBVIOUS
  <2>1. AgreedInv' /\ OneWayMoves(dev, dev')
    BY AgreedStep
  <2> QED BY <2>1 DEF OneWayMoves, Published
<1> QED BY <1>1, <1>2, PTL DEF Spec, OneWayKept

----------------------------------------------------------------------------
(* The commands that change a subscription.                                  *)

\* What may become of a slot that stays with its subscriber.
SlotMoves(a, b) ==
  a.endpoint # 0 /\ b.endpoint = a.endpoint =>
    /\ a.state = "delivered" /\ b.state = "clear_queued" => a.clearing
    /\ a.state \in {"delivered", "acknowledged"} => b.state \notin {"armed", "queued"}
    /\ a.state = "queued" => b.state \in {"queued", "delivered"}
SlotsMove(d, f) == \A i \in Slots : SlotMoves(d.deaths[i], f.deaths[i])
LinksMove(d, f) == f \in Device /\ Subscribed(f, 0) /\ SlotsMove(d, f)

LEMMA StaysMove ==
  ASSUME NEW d \in Device, TokensGiven(d), Subscribed(d, 0), NEW f \in Device, LinksStay(d, f)
  PROVE LinksMove(d, f)
<1>1. Subscribed(f, 0)
  BY LinksKeep
<1>2. ASSUME NEW i \in Slots PROVE SlotMoves(d.deaths[i], f.deaths[i])
  <2>1. f.deaths[i] = d.deaths[i] \/ f.deaths[i] = NoDeath
    BY DEF LinksStay, SlotStays, SlotEnds
  <2> QED BY <2>1 DEF SlotMoves, NoDeath
<1> QED BY <1>1, <1>2 DEF LinksMove, SlotsMove

\* Only slot i, and who has it, changes.
DeathKept(r, q, i) == /\ q.owner = r.owner
                      /\ q.death = r.death \/ {r.death, q.death} \subseteq {0, i}
SlotChanges(d, f, i) ==
  /\ Places(d, f)
  /\ DOMAIN f.references = DOMAIN d.references
  /\ \A k \in DOMAIN d.references : DeathKept(d.references[k], f.references[k], i)
  /\ \A j \in Slots \ {i} : f.deaths[j] = d.deaths[j]
SlotSet(f, i) ==
  /\ SlotGood(f, 0, i)
  /\ \A k : Attached(f, k, i) => LinkGood(f, k)
  /\ \A j, k : Attached(f, j, i) /\ Attached(f, k, i) => j = k

LEMMA ChangedSlot ==
  ASSUME NEW d \in Device, TokensGiven(d), Subscribed(d, 0), NEW i \in Slots,
         NEW f \in Device, SlotChanges(d, f, i), SlotSet(f, i)
  PROVE Subscribed(f, 0)
<1>0. i # 0
  BY DeathTypes
<1>1. ASSUME NEW j \in Slots \ {i}, NEW k PROVE Attached(f, k, j) <=> Attached(d, k, j)
  <2>1. j # 0
    BY <1>1, DeathTypes
  <2> QED BY <1>0, <1>1, <2>1 DEF SlotChanges, DeathKept, Attached
<1>2. ASSUME NEW k \in DOMAIN f.references PROVE LinkGood(f, k)
  <2>1. CASE f.references[k].death = i
    BY <2>1 DEF SlotSet, Attached
  <2>2. CASE f.references[k].death # i
    <3>1. LinkGood(d, k) /\ k \in DOMAIN d.references
      BY DEF SlotChanges, Subscribed
    <3>2. f.references[k].owner = d.references[k].owner
      BY <3>1 DEF SlotChanges, DeathKept
    <3>3. d.references[k].owner < f.next_token
      <4>1. /\ d.next_token \in Nat /\ f.next_token \in Nat /\ d.next_token <= f.next_token
            /\ d.references[k].owner \in Tokens
        BY <3>1, DeathTypes DEF SlotChanges, Places
      <4>2. d.references[k].owner \in Nat
        BY <4>1, BinderAssumption DEF Tokens
      <4> QED BY <3>1, <4>1, <4>2 DEF LinkGood
    <3>4. CASE f.references[k].death = 0
      BY <3>2, <3>3, <3>4 DEF LinkGood
    <3>5. CASE f.references[k].death # 0
      <4>1. PICK j \in Slots \ {i} : j = f.references[k].death
        BY <2>2, <3>5, DeathTypes
      <4>2. f.deaths[j] = d.deaths[j]
        BY DEF SlotChanges
      <4>3. d.references[k].death = j
        BY <1>1, <4>1 DEF Attached
      <4>4. j # 0
        BY <3>5, <4>1
      <4> QED BY <3>1, <3>2, <3>3, <4>1, <4>2, <4>3, <4>4 DEF LinkGood
    <3> QED BY <3>4, <3>5
  <2> QED BY <2>1, <2>2
<1>3. SlotsOwn(f)
  <2>1. ASSUME NEW j \in Slots, NEW k, NEW l, Attached(f, k, j), Attached(f, l, j)
        PROVE k = l
    <3>1. CASE j = i
      BY <2>1, <3>1 DEF SlotSet
    <3>2. CASE j # i
      BY <1>1, <2>1, <3>2 DEF Subscribed, SlotsOwn
    <3> QED BY <3>1, <3>2
  <2> QED BY <2>1 DEF SlotsOwn
<1>4. ASSUME NEW j \in Slots PROVE SlotGood(f, 0, j)
  <2>1. CASE j = i
    BY <2>1 DEF SlotSet
  <2>2. CASE j # i
    <3>1. Unattached(f, j) <=> Unattached(d, j)
      BY <1>1, <2>2 DEF Attached, Unattached
    <3>2. SlotGood(d, 0, j) /\ Places(d, f) /\ f.deaths[j] = d.deaths[j]
      BY <2>2 DEF Subscribed, SlotChanges
    <3> QED BY <3>1, <3>2, SlotKept
  <2> QED BY <2>1, <2>2
<1> QED BY <1>2, <1>3, <1>4 DEF Subscribed

\* A subscription goes on, or completes for a thread of its endpoint.
GoesOn(a, v) ==
  /\ v.endpoint = a.endpoint /\ v.owner = a.owner /\ v.clearing = a.clearing
  /\ v.tid = a.tid
  /\ a.state \notin {"armed", "clear_queued"} /\ v.state \notin {"armed", "clear_queued"}
Completes(d, a, v) ==
  /\ v.endpoint = a.endpoint /\ v.owner = a.owner /\ v.clearing = a.clearing
  /\ v.state = "clear_queued" /\ a.clearing
  /\ v.tid # 0 => thread_for(d, v.endpoint, v.tid)

LEMMA StateLinks ==
  ASSUME NEW d, Sound(d, 0), Subscribed(d, 0), NEW i \in Slots, NEW v \in Death,
         GoesOn(d.deaths[i], v) \/ Completes(d, d.deaths[i], v),
         NEW f, f = PutDeath(d, i, v)
  PROVE f \in Device /\ Subscribed(f, 0)
<1>0. d \in Device /\ TokensGiven(d)
  BY SoundFacts, SoundGiven
<1>1. /\ f \in Device /\ SameCalls(d, f) /\ f.references = d.references
      /\ f.deaths[i] = v /\ \A j \in Slots \ {i} : f.deaths[j] = d.deaths[j]
  BY PutDeathSound
<1>2. SlotChanges(d, f, i)
  <2>1. Places(d, f)
    BY <1>0, <1>1, SameCallsPlaces
  <2> QED BY <1>1, <2>1 DEF SlotChanges, DeathKept
<1>3. PICK a \in Death : a = d.deaths[i]
  BY <1>0, DeathTypes
<1>4. v.endpoint = a.endpoint /\ v.owner = a.owner /\ v.clearing = a.clearing
  BY <1>3 DEF GoesOn, Completes
<1>5. SlotGood(f, 0, i)
  <2> SUFFICES ASSUME v.endpoint # 0 PROVE SlotGood(f, 0, i)
    BY <1>1 DEF SlotGood
  <2>1. /\ endpoint_for(d, a.endpoint) /\ a.owner < d.next_token
        /\ a.clearing <=> Unattached(d, i)
        /\ a.state = "armed" <=> endpoint_for(d, a.owner) /\ a.owner # 0
                                 /\ a.state # "clear_queued"
        /\ a.tid # 0 => a.state = "clear_queued"
    BY <1>3, <1>4 DEF Subscribed, SlotGood
  <2>2. /\ endpoint_for(f, v.endpoint) /\ v.owner < f.next_token
        /\ endpoint_for(f, v.owner) <=> endpoint_for(d, a.owner)
    BY <1>1, <1>4, <2>1 DEF endpoint_for, SameCalls
  <2>3. v.clearing <=> Unattached(f, i)
    BY <1>1, <1>4, <2>1 DEF Unattached
  <2>4. CASE GoesOn(a, v)
    <3>1. a.state \notin {"armed", "clear_queued"} /\ v.state \notin {"armed", "clear_queued"}
      BY <2>4 DEF GoesOn
    <3>2. v.tid = 0
      BY <2>1, <2>4, <3>1 DEF GoesOn
    <3>3. ~(endpoint_for(f, v.owner) /\ v.owner # 0)
      BY <1>4, <2>1, <2>2, <3>1
    <3> QED BY <1>1, <2>2, <2>3, <3>1, <3>2, <3>3 DEF SlotGood
  <2>5. CASE Completes(d, a, v)
    <3>1. v.state = "clear_queued" /\ v.clearing
      BY <2>5 DEF Completes
    <3>2. v.tid # 0 => thread_for(f, v.endpoint, v.tid)
      BY <1>1, <2>5 DEF Completes, thread_for, endpoint_for, SameCalls
    <3> QED BY <1>1, <2>2, <2>3, <3>1, <3>2 DEF SlotGood
  <2> QED BY <1>3, <2>4, <2>5
<1>6. ASSUME NEW k, Attached(f, k, i) PROVE LinkGood(f, k)
  <2>1. Attached(d, k, i) /\ LinkGood(d, k) /\ f.next_token = d.next_token
    BY <1>1, <1>6 DEF Attached, Subscribed, SameCalls
  <2> QED BY <1>1, <1>3, <1>4, <2>1 DEF LinkGood, Attached
<1>7. \A j, k : Attached(f, j, i) /\ Attached(f, k, i) => j = k
  BY <1>1 DEF Attached, Subscribed, SlotsOwn
<1>8. SlotSet(f, i)
  BY <1>5, <1>6, <1>7 DEF SlotSet
<1> QED BY <1>0, <1>1, <1>2, <1>8, ChangedSlot

\* The other slots are what they were.
OneSlot(d, f, i) == \A j \in Slots \ {i} : f.deaths[j] = d.deaths[j]

LEMMA QueueClearLinks ==
  ASSUME NEW d, NEW e, NEW t, InCall(d, e, t), Subscribed(d, 0), NEW i \in Slots,
         d.deaths[i].endpoint = e, d.deaths[i].clearing,
         NEW f, f = queue_clear(d, i, e, t)
  PROVE /\ f \in Device /\ Subscribed(f, 0) /\ f.deaths[i].state = "clear_queued"
        /\ OneSlot(d, f, i)
<1>0. d \in Device /\ Sound(d, 0) /\ endpoint_for(d, e) /\ t \in DOMAIN d.threads[e] /\ t \in Tids
  BY InCallFacts DEF InCall
<1>1. d.deaths[i] \in Death
  BY <1>0, FieldTypes DEF Deaths
<1>2. PICK y \in {0, t} :
        y = IF d.threads[e][t].looper \cap {"entered", "registered"} # {} THEN t ELSE 0
  OBVIOUS
<1>3. PICK state \in DeathStates : state = "clear_queued"
  BY DEF DeathStates
<1>4. PICK v \in Death : v = [d.deaths[i] EXCEPT !.state = state, !.tid = y]
  BY <1>0, <1>1, <1>2, DeathUpdates
<1>5. f = PutDeath(d, i, v)
  BY <1>2, <1>3, <1>4 DEF queue_clear, PutDeath
<1>6. /\ v.endpoint = d.deaths[i].endpoint /\ v.owner = d.deaths[i].owner
      /\ v.clearing = d.deaths[i].clearing /\ v.state = "clear_queued" /\ v.tid = y
  BY <1>1, <1>3, <1>4 DEF Death
<1>7. Completes(d, d.deaths[i], v)
  BY <1>0, <1>2, <1>6 DEF Completes, thread_for
<1>8. f \in Device /\ Subscribed(f, 0)
  BY <1>0, <1>5, <1>7, StateLinks
<1>9. f.deaths[i] = v /\ \A j \in Slots \ {i} : f.deaths[j] = d.deaths[j]
  BY <1>0, <1>5, PutDeathSound
<1> QED BY <1>6, <1>8, <1>9 DEF OneSlot

\* Only one slot has changed, and it may change like that.
LEMMA OneSlotMoves ==
  ASSUME NEW d, NEW f, NEW i \in Slots, SlotMoves(d.deaths[i], f.deaths[i]),
         OneSlot(d, f, i)
  PROVE SlotsMove(d, f)
<1>1. ASSUME NEW j \in Slots PROVE SlotMoves(d.deaths[j], f.deaths[j])
  <2>1. CASE j = i
    BY <2>1
  <2>2. CASE j # i
    BY <2>2 DEF SlotMoves, OneSlot
  <2> QED BY <2>1, <2>2
<1> QED BY <1>1 DEF SlotsMove

LEMMA SameMoves ==
  ASSUME NEW d \in Device, Subscribed(d, 0)
  PROVE LinksMove(d, d)
  BY DEF LinksMove, SlotsMove, SlotMoves

LEMMA DeathDoneLinks ==
  ASSUME NEW d, NEW e, NEW t, InCall(d, e, t), Subscribed(d, 0), NEW cookie,
         NEW g, g = death_done(d, e, t, cookie)
  PROVE LinksMove(d, g)
<1> DEFINE I == {i \in Slots : /\ d.deaths[i].endpoint = e /\ d.deaths[i].cookie = cookie
                              /\ d.deaths[i].state = "delivered"}
<1>0. d \in Device /\ e \in Tokens /\ t \in Tids /\ Sound(d, 0)
  BY InCallFacts DEF InCall
<1>1. g = IF I = {} THEN d
          ELSE IF d.deaths[Min(I)].clearing THEN queue_clear(d, Min(I), e, t)
          ELSE [d EXCEPT !.deaths[Min(I)].state = "acknowledged"]
  BY Zenon DEF death_done
<1>2. CASE I # {}
  <2>1. I \in SUBSET Nat
    BY BinderAssumption DEF Slots
  <2>2. PICK i \in Slots : i = Min(I) /\ d.deaths[i].endpoint = e
                           /\ d.deaths[i].state = "delivered"
    <3>1. Min(I) \in I
      BY <2>1, <1>2, MinIn
    <3> QED BY <3>1
  <2>3. \/ d.deaths[i].clearing /\ g = queue_clear(d, i, e, t)
        \/ g = [d EXCEPT !.deaths[i].state = "acknowledged"]
    <3> HIDE DEF I
    <3> QED BY Zenon, <1>1, <1>2, <2>2
  <2>4. d.deaths[i] \in Death
    BY <1>0, FieldTypes DEF Deaths
  <2> HIDE DEF I
  <2>5. CASE d.deaths[i].clearing /\ g = queue_clear(d, i, e, t)
    <3>1. /\ g \in Device /\ Subscribed(g, 0) /\ g.deaths[i].state = "clear_queued"
          /\ OneSlot(d, g, i)
      BY <2>2, <2>5, QueueClearLinks
    <3>2. SlotMoves(d.deaths[i], g.deaths[i])
      BY <2>2, <2>5, <3>1 DEF SlotMoves
    <3>3. SlotsMove(d, g)
      BY <3>1, <3>2, OneSlotMoves
    <3> QED BY <3>1, <3>3 DEF LinksMove
  <2>6. CASE g = [d EXCEPT !.deaths[i].state = "acknowledged"]
    <3>1. PICK state \in DeathStates : state = "acknowledged"
      BY DEF DeathStates
    <3>2. PICK v \in Death : v = [d.deaths[i] EXCEPT !.state = state]
      BY <2>4, DeathUpdates
    <3>3. g = PutDeath(d, i, v)
      BY <2>6, <3>1, <3>2 DEF PutDeath
    <3>4. GoesOn(d.deaths[i], v) /\ v.state = "acknowledged"
      BY <2>2, <2>4, <3>1, <3>2 DEF GoesOn, Death
    <3>5. g \in Device /\ Subscribed(g, 0)
      BY <1>0, <3>3, <3>4, StateLinks
    <3>6. g.deaths[i] = v /\ OneSlot(d, g, i)
      BY <1>0, <3>3, PutDeathSound DEF OneSlot
    <3>7. SlotMoves(d.deaths[i], g.deaths[i])
      BY <2>2, <3>4, <3>6 DEF SlotMoves
    <3>8. SlotsMove(d, g)
      BY <3>6, <3>7, OneSlotMoves
    <3> QED BY <3>5, <3>8 DEF LinksMove
  <2> QED BY <2>3, <2>5, <2>6
<1>3. CASE I = {}
  BY <1>0, <1>1, <1>3, SameMoves
<1> QED BY <1>2, <1>3

\* A slot that is given back: no reference has it.
LEMMA SlotGivenBack ==
  ASSUME NEW d, Sound(d, 0), Subscribed(d, 0), NEW i \in Slots,
         Unattached(d, i), NEW f, f = PutDeath(d, i, NoDeath)
  PROVE LinksMove(d, f)
<1>0. d \in Device /\ TokensGiven(d) /\ NoDeath \in Death
  BY SoundFacts, SoundGiven, NoDeathFacts
<1>1. /\ f \in Device /\ SameCalls(d, f) /\ f.references = d.references
      /\ f.deaths[i] = NoDeath /\ \A j \in Slots \ {i} : f.deaths[j] = d.deaths[j]
  BY <1>0, PutDeathSound
<1>2. SlotChanges(d, f, i)
  <2>1. Places(d, f)
    BY <1>0, <1>1, SameCallsPlaces
  <2> QED BY <1>1, <2>1 DEF SlotChanges, DeathKept
<1>3. \A k : ~Attached(f, k, i)
  BY <1>1 DEF Attached, Unattached
<1>4. SlotGood(f, 0, i)
  BY <1>1 DEF SlotGood, NoDeath
<1>5. SlotSet(f, i)
  BY <1>3, <1>4 DEF SlotSet
<1>6. Subscribed(f, 0)
  BY <1>0, <1>1, <1>2, <1>5, ChangedSlot
<1>7. SlotMoves(d.deaths[i], f.deaths[i])
  BY <1>1 DEF SlotMoves, NoDeath
<1>8. SlotsMove(d, f)
  <2>1. OneSlot(d, f, i)
    BY <1>1 DEF OneSlot
  <2> QED BY <1>7, <2>1, OneSlotMoves
<1> QED BY <1>1, <1>6, <1>8 DEF LinksMove

LEMMA TakeDeathLinks ==
  ASSUME NEW d, NEW e, NEW t, InCall(d, e, t), Subscribed(d, 0),
         NEW i \in death_for(d, e, t, FALSE), NEW g, g = TakeDeath(d, i)
  PROVE LinksMove(d, g)
<1>0. d \in Device /\ e \in Tokens /\ Sound(d, 0) /\ e # 0
  BY InCallFacts, DeathTypes DEF InCall
<1>1. i \in Slots /\ d.deaths[i].endpoint = e /\ d.deaths[i].state \in {"queued", "clear_queued"}
  BY DEF death_for
<1>2. d.deaths[i] \in Death
  BY <1>0, <1>1, DeathTypes
<1>3. CASE d.deaths[i].state = "clear_queued"
  <2>1. g = PutDeath(d, i, NoDeath)
    BY <1>3 DEF TakeDeath, PutDeath
  <2>2. SlotGood(d, 0, i)
    BY <1>1 DEF Subscribed
  <2>3. Unattached(d, i)
    BY <1>0, <1>1, <1>3, <2>2 DEF SlotGood
  <2> QED BY <1>0, <1>1, <2>1, <2>3, SlotGivenBack
<1>4. CASE d.deaths[i].state = "queued"
  <2>1. PICK state \in DeathStates : state = "delivered"
    BY DEF DeathStates
  <2>2. PICK v \in Death : v = [d.deaths[i] EXCEPT !.state = state]
    BY <1>2, DeathUpdates
  <2>3. g = PutDeath(d, i, v)
    BY <1>4, <2>1, <2>2 DEF TakeDeath, PutDeath
  <2>4. GoesOn(d.deaths[i], v) /\ v.state = "delivered"
    BY <1>2, <1>4, <2>1, <2>2 DEF GoesOn, Death
  <2>5. g \in Device /\ Subscribed(g, 0)
    BY <1>0, <1>1, <2>3, <2>4, StateLinks
  <2>6. g.deaths[i] = v /\ OneSlot(d, g, i)
    BY <1>0, <1>1, <2>3, PutDeathSound DEF OneSlot
  <2>7. SlotMoves(d.deaths[i], g.deaths[i])
    BY <1>4, <2>4, <2>6 DEF SlotMoves
  <2>8. SlotsMove(d, g)
    BY <1>1, <2>6, <2>7, OneSlotMoves
  <2> QED BY <2>5, <2>8 DEF LinksMove
<1> QED BY <1>1, <1>3, <1>4

\* The references other than k have slot i in f as they have it in d.
OthersHave(d, f, k, i) == \A y : y # k => (Attached(f, y, i) <=> Attached(d, y, i))

WithSlot(r, i) == [r EXCEPT !.death = i]
BeingCleared(v) == [v EXCEPT !.clearing = TRUE]
FirstState(d, owner) == IF endpoint_for(d, owner) THEN "armed" ELSE "queued"
OnlyHas(r, i) == r.death \in {0, i}

\* A reference gets or gives up slot i, which is v now.
LEMMA PutDeathFacts ==
  ASSUME NEW d, Sound(d, 0), NEW k \in DOMAIN d.references,
         NEW r \in Reference, r.owner = d.references[k].owner,
         NEW i \in Slots, OnlyHas(d.references[k], i), OnlyHas(r, i),
         NEW v \in Death, NEW f, f = PutReferenceDeath(d, k, r, i, v)
  PROVE /\ f \in Device /\ SlotChanges(d, f, i) /\ SameCalls(d, f)
        /\ f.deaths[i] = v /\ OneSlot(d, f, i)
        /\ f.references[k] = r
        /\ OthersHave(d, f, k, i)
<1>0. d \in Device
  BY SoundFacts
<1>1. PICK a : a = PutReference(d, k, r)
  OBVIOUS
<1>2. /\ Sound(a, 0) /\ SameCalls(d, a) /\ a.deaths = d.deaths /\ a \in Device
      /\ DOMAIN a.references = DOMAIN d.references
      /\ \A y \in DOMAIN d.references : y # k => a.references[y] = d.references[y]
      /\ a.references[k] = r
  BY <1>0, <1>1, PutReferenceSound
<1>3. f = PutDeath(a, i, v)
  <2>1. a = [d EXCEPT !.references = [d.references EXCEPT ![k] = r]]
    BY <1>1 DEF PutReference, PutReferences
  <2> QED BY <1>0, <1>2, <2>1 DEF PutDeath, PutReferenceDeath, Device
<1>4. /\ f \in Device /\ SameCalls(a, f) /\ f.references = a.references
      /\ f.deaths[i] = v /\ \A j \in Slots \ {i} : f.deaths[j] = a.deaths[j]
  BY <1>2, <1>3, PutDeathSound
<1>5. SameCalls(d, f)
  BY <1>2, <1>4 DEF SameCalls
<1>6. Places(d, f)
  BY <1>0, <1>4, <1>5, SameCallsPlaces
<1>7. OneSlot(d, f, i)
  BY <1>2, <1>4 DEF OneSlot
<1>8. \A y \in DOMAIN d.references : DeathKept(d.references[y], f.references[y], i)
  BY <1>2, <1>4 DEF DeathKept, OnlyHas
<1>9. SlotChanges(d, f, i)
  BY <1>2, <1>4, <1>6, <1>7, <1>8 DEF SlotChanges, OneSlot
<1>10. OthersHave(d, f, k, i)
  BY <1>2, <1>4 DEF Attached, OthersHave
<1> QED BY <1>2, <1>4, <1>5, <1>7, <1>9, <1>10

LEMMA WatchLinks ==
  ASSUME NEW d, Sound(d, 0), Subscribed(d, 0), NEW e, endpoint_for(d, e),
         NEW k \in DOMAIN d.references, k[1] = e, d.references[k].death = 0,
         NEW i \in Slots, d.deaths[i].endpoint = 0, NEW cookie \in Nat,
         NEW r \in Reference, r = WithSlot(d.references[k], i),
         NEW state \in DeathStates,
         state = FirstState(d, d.references[k].owner),
         NEW v \in Death, v = Watch(e, d.references[k].owner, cookie, state),
         NEW f, f = PutReferenceDeath(d, k, r, i, v)
  PROVE LinksMove(d, f)
<1>0. d \in Device /\ TokensGiven(d)
  BY SoundFacts, SoundGiven
<1>1. d.references[k] \in Reference /\ d.references[k].owner \in Tokens /\ LinkGood(d, k)
  BY <1>0, DeathTypes DEF Subscribed
<1>2. /\ r.owner = d.references[k].owner /\ r.death = i
      /\ OnlyHas(d.references[k], i) /\ OnlyHas(r, i)
  BY <1>1 DEF Reference, OnlyHas, WithSlot
<1>3. /\ f \in Device /\ SlotChanges(d, f, i) /\ SameCalls(d, f)
      /\ f.deaths[i] = v /\ OneSlot(d, f, i)
      /\ f.references[k] = r
      /\ OthersHave(d, f, k, i)
  BY <1>1, <1>2, PutDeathFacts
<1>4. \A y : ~Attached(d, y, i)
  <2>1. ASSUME NEW y, Attached(d, y, i) PROVE FALSE
    <3>1. LinkGood(d, y) /\ y \in DOMAIN d.references /\ d.references[y].death = i
      BY <2>1 DEF Attached, Subscribed
    <3>2. i # 0 /\ y[1] # 0
      BY <1>0, <3>1, DeathTypes
    <3> QED BY <3>1, <3>2 DEF LinkGood
  <2> QED BY <2>1
<1>5. \A y : Attached(f, y, i) => y = k
  BY <1>3, <1>4 DEF OthersHave
<1>6. k \in DOMAIN f.references /\ Attached(f, k, i)
  BY <1>2, <1>3 DEF Attached, SlotChanges
<1>7. /\ v.endpoint = e /\ v.owner = d.references[k].owner /\ v.tid = 0
      /\ ~v.clearing /\ v.state = state
  BY DEF Watch
<1>8. LinkGood(f, k)
  <2>1. f.next_token = d.next_token
    BY <1>3 DEF SameCalls
  <2>2. d.references[k].owner < d.next_token
    BY <1>1 DEF LinkGood
  <2>3. PICK q : q = f.references[k] /\ q.owner = d.references[k].owner /\ q.death = i
    BY <1>2, <1>3
  <2>4. PICK w : w = f.deaths[q.death] /\ w.endpoint = e /\ ~w.clearing /\ w.owner = q.owner
    BY <1>3, <1>7, <2>3
  <2> QED BY <2>1, <2>2, <2>3, <2>4 DEF LinkGood
<1>9. SlotGood(f, 0, i)
  <2>1. endpoint_for(f, v.endpoint) /\ v.owner < f.next_token
    BY <1>1, <1>3, <1>7 DEF endpoint_for, SameCalls, LinkGood
  <2>2. endpoint_for(f, v.owner) <=> endpoint_for(d, d.references[k].owner)
    BY <1>3, <1>7 DEF endpoint_for, SameCalls
  <2>3. ~Unattached(f, i)
    BY <1>6 DEF Attached, Unattached
  <2>4. v.owner # 0
    BY <1>1, <1>7, <1>0, DeathTypes
  <2> QED BY <1>3, <1>7, <2>1, <2>2, <2>3, <2>4 DEF SlotGood, FirstState
<1>10. SlotSet(f, i)
  BY <1>5, <1>8, <1>9 DEF SlotSet
<1>11. Subscribed(f, 0)
  BY <1>0, <1>3, <1>10, ChangedSlot
<1>12. SlotMoves(d.deaths[i], f.deaths[i])
  BY DEF SlotMoves
<1>13. SlotsMove(d, f)
  BY <1>3, <1>12, OneSlotMoves
<1> QED BY <1>3, <1>11, <1>13 DEF LinksMove

LEMMA RequestLinks ==
  ASSUME NEW d, NEW e, NEW t, InCall(d, e, t), Subscribed(d, 0), NEW h, NEW cookie \in Nat,
         NEW g, g = request_death(d, e, h, cookie)
  PROVE LinksMove(d, g)
<1> DEFINE K == reference_for(d, e, h)
           k == CHOOSE x \in K : TRUE
           owner == d.references[k].owner
           last == [d EXCEPT !.references[k].death = Min(FreeSlots(d)),
                             !.deaths[Min(FreeSlots(d))] = [endpoint |-> e, owner |-> owner,
                               cookie |-> cookie, tid |-> 0, clearing |-> FALSE,
                               state |-> IF endpoint_for(d, owner) THEN "armed" ELSE "queued"]]
<1>0. d \in Device /\ e \in Tokens /\ Sound(d, 0) /\ endpoint_for(d, e)
  BY InCallFacts DEF InCall
<1>1. g = IF K = {} \/ FreeSlots(d) = {} THEN d
          ELSE IF d.references[k].death # 0 THEN d ELSE last
  BY Zenon DEF request_death, FreeSlots
<1>2. CASE ~(K = {} \/ FreeSlots(d) = {}) /\ d.references[k].death = 0 /\ g = last
  <2>1. k \in K
    BY Zenon, <1>2
  <2>2. PICK y \in DOMAIN d.references : y = k /\ y[1] = e /\ d.references[y].death = 0
    BY <1>2, <2>1 DEF reference_for
  <2>3. FreeSlots(d) \in SUBSET Nat /\ FreeSlots(d) # {}
    BY <1>2, BinderAssumption DEF FreeSlots, Slots
  <2>4. PICK i \in Slots : i = Min(FreeSlots(d)) /\ d.deaths[i].endpoint = 0
    <3>1. Min(FreeSlots(d)) \in FreeSlots(d)
      BY <2>3, MinIn
    <3> QED BY <3>1 DEF FreeSlots
  <2>5. d.references[y] \in Reference /\ i \in 0..PacketLimit
    BY <1>0, ReferenceTable DEF Slots
  <2>6. PICK o \in Tokens : o = d.references[y].owner
    BY <2>5 DEF Reference
  <2>7. PICK r \in Reference : r = [d.references[y] EXCEPT !.death = i]
    BY <2>5, ReferenceDeath
  <2>8. PICK state \in DeathStates : state = IF endpoint_for(d, o) THEN "armed" ELSE "queued"
    BY DEF DeathStates
  <2>9. PICK v \in Death : v = Watch(e, o, cookie, state)
    BY <1>0, WatchFacts
  <2>10. last = [d EXCEPT !.references[y].death = i,
                         !.deaths[i] = [endpoint |-> e, owner |-> o,
                               cookie |-> cookie, tid |-> 0, clearing |-> FALSE,
                               state |-> IF endpoint_for(d, o) THEN "armed" ELSE "queued"]]
    BY Zenon, <2>2, <2>4, <2>6
  <2> HIDE DEF last, k, K
  <2>11. g = PutReferenceDeath(d, y, r, i, v)
    BY <1>2, <2>7, <2>8, <2>9, <2>10 DEF Watch, PutReferenceDeath
  <2>12. state = FirstState(d, d.references[y].owner)
    BY <2>6, <2>8 DEF FirstState
  <2>13. v = Watch(e, d.references[y].owner, cookie, state)
    BY <2>6, <2>9
  <2>14. r = WithSlot(d.references[y], i)
    BY <2>7 DEF WithSlot
  <2> QED BY <1>0, <2>2, <2>4, <2>11, <2>12, <2>13, <2>14, WatchLinks
<1>3. CASE ~(~(K = {} \/ FreeSlots(d) = {}) /\ d.references[k].death = 0 /\ g = last)
  <2>1. g = d
    BY Zenon, <1>1, <1>3
  <2> QED BY <1>0, <2>1, SameMoves
<1> QED BY <1>2, <1>3

LEMMA DetachLinks ==
  ASSUME NEW d, Sound(d, 0), Subscribed(d, 0),
         NEW k \in DOMAIN d.references, NEW i \in Slots, d.references[k].death = i,
         NEW r \in Reference, r = WithSlot(d.references[k], 0),
         NEW v \in Death, v = BeingCleared(d.deaths[i]),
         NEW f, f = PutReferenceDeath(d, k, r, i, v)
  PROVE /\ LinksMove(d, f) /\ f.deaths[i] = v /\ OneSlot(d, f, i)
        /\ v.endpoint = k[1] /\ v.clearing /\ v.state = d.deaths[i].state
<1>0. d \in Device /\ TokensGiven(d)
  BY SoundFacts, SoundGiven
<1>1. d.references[k] \in Reference /\ LinkGood(d, k) /\ SlotGood(d, 0, i) /\ i # 0
      /\ d.deaths[i] \in Death /\ k[1] # 0
  BY <1>0, DeathTypes DEF Subscribed
<1>2. /\ r.owner = d.references[k].owner /\ r.death = 0
      /\ OnlyHas(d.references[k], i) /\ OnlyHas(r, i)
  BY <1>1 DEF Reference, OnlyHas, WithSlot
<1>3. PICK a \in Death : a = d.deaths[i]
  BY <1>1
<1>4. /\ v.endpoint = a.endpoint /\ v.owner = a.owner /\ v.tid = a.tid
      /\ v.clearing /\ v.state = a.state
  BY <1>3 DEF Death, BeingCleared
<1>5. a.endpoint = k[1] /\ ~a.clearing
  BY <1>1, <1>3 DEF LinkGood
<1>6. /\ f \in Device /\ SlotChanges(d, f, i) /\ SameCalls(d, f)
      /\ f.deaths[i] = v /\ OneSlot(d, f, i)
      /\ f.references[k] = r
      /\ OthersHave(d, f, k, i)
  BY <1>1, <1>2, PutDeathFacts
<1>7. \A y : ~Attached(f, y, i)
  <2>1. Attached(d, k, i) /\ ~Attached(f, k, i)
    BY <1>1, <1>2, <1>6 DEF Attached
  <2>2. \A y : Attached(d, y, i) => y = k
    BY <2>1 DEF Subscribed, SlotsOwn
  <2> QED BY <1>6, <2>1, <2>2 DEF OthersHave
<1>8. SlotGood(f, 0, i)
  <2>1. /\ endpoint_for(d, a.endpoint) /\ a.owner < d.next_token
        /\ a.state = "armed" <=> endpoint_for(d, a.owner) /\ a.owner # 0
                                 /\ a.state # "clear_queued"
        /\ a.state # "clear_queued" /\ a.tid = 0
    BY <1>1, <1>3, <1>5 DEF SlotGood
  <2>2. /\ endpoint_for(f, v.endpoint) /\ v.owner < f.next_token
        /\ endpoint_for(f, v.owner) <=> endpoint_for(d, a.owner)
    BY <1>4, <1>6, <2>1 DEF endpoint_for, SameCalls
  <2>3. Unattached(f, i)
    BY <1>7 DEF Attached, Unattached
  <2>4. v.state = "armed" <=> endpoint_for(f, v.owner) /\ v.owner # 0
                              /\ v.state # "clear_queued"
    BY <1>4, <2>1, <2>2
  <2>5. v.state # "clear_queued" /\ v.tid = 0 /\ v.clearing
    BY <1>4, <2>1
  <2>6. f.deaths[i] = v
    BY <1>6
  <2> QED BY <2>2, <2>3, <2>4, <2>5, <2>6 DEF SlotGood
<1>9. SlotSet(f, i)
  BY <1>7, <1>8 DEF SlotSet
<1>10. Subscribed(f, 0)
  BY <1>0, <1>6, <1>9, ChangedSlot
<1>11. SlotMoves(d.deaths[i], f.deaths[i])
  BY <1>3, <1>4, <1>6 DEF SlotMoves
<1>12. SlotsMove(d, f)
  BY <1>6, <1>11, OneSlotMoves
<1>13. LinksMove(d, f)
  BY <1>6, <1>10, <1>12 DEF LinksMove
<1> QED BY <1>3, <1>4, <1>5, <1>6, <1>13

LEMMA ClearLinks ==
  ASSUME NEW d, NEW e, NEW t, InCall(d, e, t), Subscribed(d, 0), NEW h, NEW cookie,
         NEW g, g = clear_death(d, e, t, h, cookie)
  PROVE LinksMove(d, g)
<1> DEFINE K == {k \in reference_for(d, e, h) : d.references[k].death # 0}
           k == CHOOSE x \in K : TRUE
           i == d.references[k].death
           f == [d EXCEPT !.references[k].death = 0, !.deaths[i].clearing = TRUE]
           last == IF Clearable(d.deaths[i].state) THEN queue_clear(f, i, e, t) ELSE f
<1>0. d \in Device /\ e \in Tokens /\ t \in Tids /\ Sound(d, 0)
  BY InCallFacts DEF InCall
<1>1. g = IF K = {} THEN d ELSE IF d.deaths[i].cookie # cookie THEN d ELSE last
  BY Zenon DEF clear_death
<1>2. CASE K # {} /\ g = last
  <2>1. k \in K
    BY Zenon, <1>2
  <2>2. PICK y \in DOMAIN d.references : y = k /\ d.references[y].death # 0 /\ y[1] = e
    BY <2>1 DEF reference_for
  <2>3. d.references[y] \in Reference
    BY <1>0, ReferenceTable
  <2>4. PICK j \in Slots : j = d.references[y].death
    BY <1>0, <2>2, DeathTypes
  <2>5. PICK z \in 0..PacketLimit : z = 0
    BY BinderAssumption
  <2>6. PICK r \in Reference : r = [d.references[y] EXCEPT !.death = z]
    BY <2>3, ReferenceDeath
  <2>7. d.deaths[j] \in Death
    BY <1>0, FieldTypes DEF Deaths
  <2>8. PICK v \in Death : v = [d.deaths[j] EXCEPT !.clearing = TRUE]
    BY <2>7, DeathUpdates
  <2>9. PICK a : a = PutReferenceDeath(d, y, r, j, v)
    OBVIOUS
  <2>10. f = a
    <3>1. f = [d EXCEPT !.references[y].death = 0, !.deaths[j].clearing = TRUE]
      BY Zenon, <2>2, <2>4
    <3> HIDE DEF f
    <3> QED BY <2>5, <2>6, <2>8, <2>9, <3>1 DEF PutReferenceDeath
  <2>11. InCall(a, e, t)
    BY <2>9, PutDeathInCall DEF StillIn
  <2>12. \/ g = a
         \/ Clearable(d.deaths[j].state) /\ g = queue_clear(a, j, e, t)
    <3>2. i = j
      BY Zenon, <2>2, <2>4
    <3> HIDE DEF i, f
    <3>3. g = IF Clearable(d.deaths[j].state) THEN queue_clear(a, j, e, t) ELSE a
      BY Zenon, <1>2, <2>10, <3>2
    <3> QED BY Zenon, <3>3
  <2> HIDE DEF f, K, k, i, last
  <2>13. r = WithSlot(d.references[y], 0) /\ v = BeingCleared(d.deaths[j])
    BY <2>5, <2>6, <2>8 DEF WithSlot, BeingCleared
  <2>14. /\ LinksMove(d, a) /\ a.deaths[j] = v /\ OneSlot(d, a, j)
         /\ v.endpoint = e /\ v.clearing /\ v.state = d.deaths[j].state
    BY <1>0, <2>2, <2>4, <2>9, <2>13, DetachLinks
  <2>15. CASE Clearable(d.deaths[j].state) /\ g = queue_clear(a, j, e, t)
    <3>1. Subscribed(a, 0)
      BY <2>14 DEF LinksMove
    <3>2. /\ g \in Device /\ Subscribed(g, 0) /\ g.deaths[j].state = "clear_queued"
          /\ OneSlot(a, g, j)
      BY <2>11, <2>14, <2>15, <3>1, QueueClearLinks
    <3>3. OneSlot(d, g, j)
      BY <2>14, <3>2 DEF OneSlot
    <3>4. SlotMoves(d.deaths[j], g.deaths[j])
      BY <2>15, <3>2 DEF SlotMoves, Clearable
    <3>5. SlotsMove(d, g)
      BY <3>3, <3>4, OneSlotMoves
    <3> QED BY <3>2, <3>5 DEF LinksMove
  <2> QED BY <2>12, <2>14, <2>15
<1>3. CASE ~(K # {} /\ g = last)
  <2>1. g = d
    BY Zenon, <1>1, <1>3
  <2> QED BY <1>0, <2>1, SameMoves
<1> QED BY <1>2, <1>3

\* What reading does to them.
LEMMA StillMoves ==
  ASSUME NEW d, NEW e, NEW t, InCall(d, e, t), Subscribed(d, 0),
         NEW f, StillIn(d, f, e, t), FlowOnly(d, f)
  PROVE LinksMove(d, f)
<1>1. d \in Device /\ TokensGiven(d)
  BY InCallFacts, SoundGiven DEF InCall
<1>2. f \in Device /\ LinksStay(d, f)
  BY StillLinks
<1> QED BY <1>1, <1>2, StaysMove

LEMMA NodeEventFlow ==
  ASSUME NEW d \in Device, NEW n, NEW g, g = TakeNodeEvent(d, n)
  PROVE FlowOnly(d, g)
<1>1. PICK f : f = [d EXCEPT !.nodes[n] = Called(d.nodes[n], node_command(d, n))]
  OBVIOUS
<1>2. FlowOnly(d, f)
  BY <1>1 DEF FlowOnly, Device
<1>3. g = collect_nodes(f)
  BY <1>1 DEF TakeNodeEvent
<1>4. PICK N : g = [f EXCEPT !.nodes = N]
  BY <1>3 DEF collect_nodes
<1>5. FlowOnly(d, g)
  BY <1>1, <1>2, <1>4 DEF FlowOnly, Device
<1> QED BY <1>5

LEMMA TakeWorkFlow ==
  ASSUME NEW d \in Device, NEW e, NEW t, NEW i, NEW g, g = TakeWork(d, e, t, i)
  PROVE FlowOnly(d, g)
<1>1. PICK E, X, T, W : g = [d EXCEPT !.endpoints[e].arena[d.work[i].buffer] = E,
                                      !.transactions = X,
                                      !.threads[e][t].incoming = T, !.work = W]
  BY DEF TakeWork
<1> QED BY <1>1 DEF FlowOnly, Device

LEMMA ReadLinks ==
  ASSUME NEW d, NEW e, NEW t, InCall(d, e, t), Subscribed(d, 0), NEW g \in read_work(d, e, t)
  PROVE InCall(g, e, t) /\ LinksMove(d, g)
<1>0. d \in Device /\ TokensGiven(d)
  BY InCallFacts, SoundGiven DEF InCall
<1>1. ReadEffect(d, e, t, g)
  BY <1>0, ReadCases
<1>2. ASSUME g = Failed(d, e, t, None) PROVE LinksMove(d, g)
  <2>1. g \in Device /\ LinksStay(d, g)
    BY <1>2, FailedLinks
  <2> QED BY <1>0, <2>1, StaysMove
<1>3. ASSUME NEW n \in node_event_for(d, e, t, FALSE), g = TakeNodeEvent(d, n)
      PROVE LinksMove(d, g)
  <2>1. n \in DOMAIN d.nodes /\ node_command(d, n) # None
    BY DEF node_event_for
  <2>2. StillIn(d, g, e, t)
    BY <1>3, <2>1, NodeEventSound
  <2>3. FlowOnly(d, g)
    BY <1>0, <1>3, NodeEventFlow
  <2> QED BY <2>2, <2>3, StillMoves
<1>4. ASSUME g = [d EXCEPT !.threads[e][t].completions = @ - 1] PROVE LinksMove(d, g)
  <2>1. FlowOnly(d, g) /\ SameOwners(d, g)
    BY <1>0, <1>4 DEF FlowOnly, Device, SameOwners
  <2>2. SameThreads(d, g)
    <3>1. PICK c : g = [d EXCEPT !.threads[e][t].completions = c]
      BY <1>4
    <3>2. g.threads = [d.threads EXCEPT ![e][t].completions = c]
      BY <1>0, <3>1 DEF Device
    <3> QED BY <3>2 DEF SameThreads
  <2>3. g \in Device
    BY ReadSound, InCallFacts
  <2>4. LinksStay(d, g)
    BY <1>0, <2>1, <2>2, <2>3, OwnersPlaces, SameLinks DEF FlowOnly
  <2> QED BY <1>0, <2>3, <2>4, StaysMove
<1>5. ASSUME NEW i \in work_for(d, e, t, FALSE), g = TakeWork(d, e, t, i)
      PROVE LinksMove(d, g)
  <2>1. i \in DOMAIN d.work
    BY DEF work_for
  <2>2. g \in Device /\ Took(d, g, e, t, i)
    BY <1>5, <2>1, TakeWorkSound, InCallFacts
  <2>3. FlowOnly(d, g)
    BY <1>0, <1>5, TakeWorkFlow
  <2>4. Places(d, g)
    <3>1. d.next_token \in Nat /\ g.next_token = d.next_token
      BY <1>0, <2>3, DeathTypes DEF FlowOnly
    <3> QED BY <2>2, <3>1 DEF Took, Places
  <2>5. LinksStay(d, g)
    BY <1>0, <2>2, <2>3, <2>4, SameLinks DEF FlowOnly
  <2> QED BY <1>0, <2>2, <2>5, StaysMove
<1>6. ASSUME NEW i \in death_for(d, e, t, FALSE), g = TakeDeath(d, i)
      PROVE LinksMove(d, g)
  BY <1>6, TakeDeathLinks
<1>7. ASSUME g = d PROVE LinksMove(d, g)
  BY <1>0, <1>7, SameMoves
<1>8. InCall(g, e, t)
  BY ReadSound
<1> QED BY <1>1, <1>2, <1>3, <1>4, <1>5, <1>6, <1>7, <1>8 DEF ReadEffect

----------------------------------------------------------------------------
(* Entering and leaving.                                                     *)

LEMMA AdmitLinks ==
  ASSUME NEW d, Sound(d, 0), Subscribed(d, 0), NEW e, NEW t, Admissible(d, e, t),
         NEW f, f = admit_thread(d, e, t)
  PROVE f \in Device /\ LinksStay(d, f) /\ Subscribed(f, 0) /\ InCall(f, e, t)
<1>1. d \in Device /\ f \in Device /\ SameFlow(d, f) /\ TokensGiven(d) /\ InCall(f, e, t)
  BY SoundFacts, SoundGiven, AdmitSound, InCallFacts
<1>2. FlowOnly(d, f)
  BY <1>1 DEF FlowOnly, admit_thread, SetThread, Device
<1>3. LinksStay(d, f)
  BY <1>1, <1>2, FlowLinks
<1> QED BY <1>1, <1>3, LinksKeep

LEMMA LeaveLinks ==
  ASSUME NEW d, NEW e, NEW t, InCall(d, e, t), Subscribed(d, 0), NEW f, f = Leave(d, e, t)
  PROVE f \in Device /\ LinksStay(d, f) /\ Subscribed(f, 0)
<1>1. d \in Device /\ f \in Device /\ SameFlow(d, f) /\ TokensGiven(d)
  BY InCallFacts, SoundFacts, SoundGiven, LeaveSound DEF InCall
<1>2. FlowOnly(d, f)
  BY <1>1 DEF FlowOnly, Leave, Device
<1>3. LinksStay(d, f)
  BY <1>1, <1>2, FlowLinks
<1> QED BY <1>1, <1>3, LinksKeep

LEMMA AsleepLinks ==
  ASSUME NEW d, NEW e, NEW t, InCall(d, e, t), Subscribed(d, 0), d.endpoints[e].opened,
         NEW f, f = Asleep(d, e, t)
  PROVE f \in Device /\ LinksStay(d, f) /\ Subscribed(f, 0)
<1>1. d \in Device /\ TokensGiven(d) /\ StillIn(d, f, e, t)
  BY InCallFacts, SoundGiven, FlagSound DEF InCall
<1>2. FlowOnly(d, f)
  BY <1>1 DEF FlowOnly, Asleep, Device
<1>3. f \in Device /\ LinksStay(d, f)
  BY <1>1, <1>2, StillLinks
<1> QED BY <1>1, <1>3, LinksKeep

----------------------------------------------------------------------------
(* What ends subscriptions: cancel_transactions and release_endpoint.        *)

LEMMA CancelLinks ==
  ASSUME NEW d, Sound(d, 0), Subscribed(d, 0), NEW e, NEW t,
         NEW f, f = cancel_transactions(d, e, t)
  PROVE Sound(f, 0) /\ f \in Device /\ LinksStay(d, f) /\ Subscribed(f, 0)
<1>0. d \in Device /\ Bounded(d) /\ NodesKnown(d) /\ TokensGiven(d)
  BY SoundFacts, SoundGiven
<1>1. PICK g : g = WithoutCalls(d, e, t)
  OBVIOUS
<1>2. PICK I : I = CancelledWork(d, e, t)
  OBVIOUS
<1>3. PICK T : T = EndedThreads(d, CancelledIds(d, e, t))
  OBVIOUS
<1>4. PICK X : X = d.transactions \ Cancelled(d, e, t)
  OBVIOUS
<1>5. T \in ThreadTables /\ \A u \in Tokens : DOMAIN T[u] = DOMAIN d.threads[u]
  BY <1>0, <1>3, EndedThreadsFacts
<1>6. X \in Transactions
  BY <1>0, <1>4, FieldTypes DEF Transactions
<1>7. g = PutCalls(d, d.endpoints, T, d.next_transaction, X, d.work)
  BY <1>1, <1>3, <1>4 DEF WithoutCalls
<1>8. /\ g \in Device /\ SameObjects(d, g) /\ g.endpoints = d.endpoints /\ g.threads = T
      /\ g.work = d.work
  BY <1>0, <1>5, <1>6, <1>7, FieldTypes, PutCallsFacts
<1>9. SameOwners(d, g) /\ SameThreads(d, g)
  BY <1>5, <1>8 DEF SameOwners, SameThreads
<1>10. LinksStay(d, g)
  BY <1>0, <1>8, <1>9, ObjectsLinks
<1>11. Bounded(g)
  BY <1>0, <1>5, <1>8 DEF Bounded, SameObjects
<1>12. NodesKnown(g)
  BY <1>0, <1>8 DEF NodesKnown, SameObjects
<1>13. PICK h : h = WithoutWork(g, I)
  OBVIOUS
<1>14. /\ h \in Device /\ SameObjects(g, h) /\ SameOwners(g, h) /\ h.threads = g.threads
       /\ Bounded(h) /\ NodesKnown(h)
  BY <1>8, <1>11, <1>12, <1>13, WithoutWorkFacts
<1>15. LinksStay(g, h)
  <2>1. SameThreads(g, h)
    BY <1>14 DEF SameThreads
  <2> QED BY <1>8, <1>14, <2>1, ObjectsLinks
<1>16. LinksStay(d, h)
  BY <1>0, <1>8, <1>10, <1>14, <1>15, LinksTrans
<1>17. Subscribed(h, 0)
  BY <1>0, <1>14, <1>16, LinksKeep
<1>18. PICK C \in SUBSET h.claims : C = FreedClaims(g, I)
  <2>1. FreedClaims(g, I) \subseteq h.claims
    BY <1>14 DEF FreedClaims, SameObjects
  <2> QED BY <2>1
<1>19. f = release_claims(h, C)
  <2>1. f = drop_work(g, I)
    BY <1>0, <1>1, <1>2, CancelSteps
  <2> QED BY <1>8, <1>13, <1>18, <2>1, DropSteps
<1>20. f \in Device /\ LinksStay(h, f)
  BY <1>14, <1>17, <1>18, <1>19, ReleaseLinks DEF Subscribed
<1>21. LinksStay(d, f)
  BY <1>0, <1>14, <1>16, <1>20, LinksTrans
<1>22. Sound(f, 0)
  <2>1. Keeps(d, f) /\ Bounded(f)
    BY <1>0, CancelFacts
  <2> QED BY <2>1, KeepsSound
<1>23. Subscribed(f, 0)
  BY <1>0, <1>20, <1>21, LinksKeep
<1> QED BY <1>20, <1>21, <1>22, <1>23

\* What reaping does to a slot, and to all of them.
Reaped(a, b) == b = NoDeath \/ b = a \/ a.state = "armed"
SlotsReaped(d, f) == \A i \in Slots : Reaped(d.deaths[i], f.deaths[i])
NoSlotOf(d, e) == \A i \in Slots : d.deaths[i].endpoint # e

LEMMA StayReaped ==
  ASSUME NEW d, NEW f, LinksStay(d, f)
  PROVE /\ SlotsReaped(d, f)
        /\ \A e : e # 0 /\ NoSlotOf(d, e) => NoSlotOf(f, e)
<1>1. \A i \in Slots : f.deaths[i] = d.deaths[i] \/ f.deaths[i] = NoDeath
  BY DEF LinksStay, SlotStays, SlotEnds
<1>2. NoDeath.endpoint = 0
  BY DEF NoDeath
<1>3. SlotsReaped(d, f)
  BY <1>1 DEF SlotsReaped, Reaped
<1>4. ASSUME NEW e, e # 0, NoSlotOf(d, e) PROVE NoSlotOf(f, e)
  BY <1>1, <1>2, <1>4 DEF NoSlotOf
<1> QED BY <1>3, <1>4

LEMMA ReapedTrans ==
  ASSUME NEW d, NEW f, NEW g, SlotsReaped(d, f), SlotsReaped(f, g)
  PROVE SlotsReaped(d, g)
  BY DEF SlotsReaped, Reaped, NoDeath, None

\* The subscriptions of endpoint e are gone with its references; those to its
\* death are queued.
LEMMA OrphansLinks ==
  ASSUME NEW d \in Device, Subscribed(d, 0), NEW e \in Tokens,
         \A k \in DOMAIN d.references : k[1] # e, NEW f, f = Orphans(d, e)
  PROVE f \in Device /\ Subscribed(f, e) /\ SlotsReaped(d, f) /\ NoSlotOf(f, e)
<1>1. /\ f \in Device /\ SameCalls(d, f) /\ f.references = d.references
      /\ \A i \in Slots : f.deaths[i] = Orphaned(d.deaths[i], e)
  BY OrphansFacts
<1>2. e # 0
  BY DeathTypes
<1>3. ASSUME NEW i \in Slots
      PROVE Reaped(d.deaths[i], f.deaths[i]) /\ f.deaths[i].endpoint # e
  <2>1. d.deaths[i] \in Death
    BY DeathTypes
  <2>2. PICK a \in Death : a = d.deaths[i]
    BY <2>1
  <2>3. f.deaths[i] = Orphaned(a, e)
    BY <1>1, <2>2
  <2>4. Reaped(a, Orphaned(a, e)) /\ Orphaned(a, e).endpoint # e
    BY <1>2 DEF Reaped, Orphaned, NoDeath, Death
  <2> QED BY <2>2, <2>3, <2>4
<1>4. ASSUME NEW k \in DOMAIN f.references PROVE LinkGood(f, k)
  <2>1. LinkGood(d, k) /\ k[1] # e
    BY <1>1 DEF Subscribed
  <2>2. f.references[k] = d.references[k] /\ f.next_token = d.next_token
    BY <1>1 DEF SameCalls
  <2>3. CASE d.references[k].death = 0
    BY <2>1, <2>2, <2>3 DEF LinkGood
  <2>4. CASE d.references[k].death # 0
    <3>1. PICK i \in Slots : i = d.references[k].death
      BY <1>1, <2>4, DeathTypes
    <3>2. PICK a \in Death : a = d.deaths[i]
      BY DeathTypes
    <3>3. /\ a.endpoint = k[1] /\ ~a.clearing /\ a.owner = d.references[k].owner
          /\ d.references[k].owner < d.next_token
      BY <2>1, <2>4, <3>1, <3>2 DEF LinkGood
    <3>4. PICK b : b = Orphaned(a, e)
      OBVIOUS
    <3>5. b.endpoint = a.endpoint /\ b.clearing = a.clearing /\ b.owner = a.owner
      BY <2>1, <3>3, <3>4 DEF Orphaned, Death
    <3>6. f.deaths[i] = b
      BY <1>1, <3>2, <3>4
    <3> QED BY <2>2, <3>1, <3>3, <3>5, <3>6 DEF LinkGood
  <2> QED BY <2>3, <2>4
<1>5. SlotsOwn(f)
  BY <1>1 DEF Subscribed, SlotsOwn, Attached
<1>6. ASSUME NEW i \in Slots PROVE SlotGood(f, e, i)
  <2>1. PICK a \in Death : a = d.deaths[i]
    BY DeathTypes
  <2>2. PICK b : b = Orphaned(a, e)
    OBVIOUS
  <2>3. f.deaths[i] = b
    BY <1>1, <2>1, <2>2
  <2>4. CASE b.endpoint = 0
    BY <2>3, <2>4 DEF SlotGood
  <2>5. CASE b.endpoint # 0
    <3>1. a.endpoint # e
      BY <2>2, <2>5 DEF Orphaned, NoDeath
    <3>2. /\ b.endpoint = a.endpoint /\ b.clearing = a.clearing /\ b.owner = a.owner
          /\ b.tid = a.tid
          /\ b.state = IF a.owner = e /\ a.state = "armed" THEN "queued" ELSE a.state
      BY <2>2, <3>1 DEF Orphaned, Death
    <3>3. /\ endpoint_for(d, a.endpoint) /\ a.owner < d.next_token
          /\ a.clearing <=> Unattached(d, i)
          /\ a.state = "armed" <=> endpoint_for(d, a.owner) /\ a.owner # 0
                                   /\ a.state # "clear_queued"
          /\ a.state = "clear_queued" => a.clearing
          /\ a.tid # 0 => a.state = "clear_queued" /\ thread_for(d, a.endpoint, a.tid)
      BY <2>1, <2>5, <3>2 DEF Subscribed, SlotGood
    <3>4. endpoint_for(f, b.endpoint) /\ b.owner < f.next_token
      BY <1>1, <3>2, <3>3 DEF SameCalls, endpoint_for
    <3>5. endpoint_for(f, b.owner) <=> endpoint_for(d, a.owner) /\ a.owner # 0
      BY <1>1, <3>2, DeathTypes DEF SameCalls, endpoint_for
    <3>6. b.clearing <=> Unattached(f, i)
      BY <1>1, <3>2, <3>3 DEF Unattached
    <3>7. b.state = "armed" <=> endpoint_for(f, b.owner) /\ b.owner # e
                                /\ b.state # "clear_queued"
      BY <3>2, <3>3, <3>5
    <3>8. b.state = "clear_queued" => b.clearing
      BY <3>2, <3>3
    <3>9. b.tid # 0 => b.state = "clear_queued" /\ thread_for(f, b.endpoint, b.tid)
      BY <1>1, <3>2, <3>3 DEF SameCalls, thread_for, endpoint_for
    <3> QED BY <2>3, <3>4, <3>6, <3>7, <3>8, <3>9 DEF SlotGood
  <2> QED BY <2>4, <2>5
<1> QED BY <1>1, <1>3, <1>4, <1>5, <1>6 DEF Subscribed, SlotsReaped, NoSlotOf

\* release_references and release_endpoint.
LEMMA ReleaseReferencesLinks ==
  ASSUME NEW d, Sound(d, 0), Subscribed(d, 0), NEW e \in Tokens,
         NEW f, f = release_references(d, e)
  PROVE f \in Device /\ Subscribed(f, e) /\ SlotsReaped(d, f) /\ NoSlotOf(f, e)
<1>0. d \in Device /\ TokensGiven(d) /\ e # 0
  BY SoundFacts, SoundGiven, DeathTypes
<1>1. PICK K : K = OwnReferences(d, e)
  OBVIOUS
<1>2. PICK g : g = drop_references(d, K)
  OBVIOUS
<1>3. PICK h : h = Orphans(g, e)
  OBVIOUS
<1>4. f = collect_nodes(h)
  BY <1>1, <1>2, <1>3, ReferencesSteps
<1>5. K \subseteq DOMAIN d.references
  BY <1>1 DEF OwnReferences
<1>6. g \in Device /\ LinksStay(d, g)
  BY <1>0, <1>2, <1>5, DropLinks DEF Subscribed
<1>7. Subscribed(g, 0)
  BY <1>0, <1>6, LinksKeep
<1>8. \A k \in DOMAIN g.references : k[1] # e
  <2>1. \A k : k \in DOMAIN g.references <=> k \in DOMAIN d.references /\ k \notin K
    BY <1>0, <1>2, DropFacts
  <2> QED BY <1>1, <2>1 DEF OwnReferences
<1>9. h \in Device /\ Subscribed(h, e) /\ SlotsReaped(g, h) /\ NoSlotOf(h, e)
  BY <1>3, <1>6, <1>7, <1>8, OrphansLinks
<1>10. f \in Device /\ LinksStay(h, f)
  BY <1>4, <1>9, CollectLinks
<1>11. TokensGiven(h)
  <2>1. SameCalls(d, g)
    BY <1>0, <1>2, DropFacts
  <2>2. SameCalls(g, h) /\ DOMAIN h.nodes = DOMAIN g.nodes /\ g.nodes = d.nodes
    BY <1>0, <1>2, <1>3, <1>6, DropFacts, OrphansFacts
  <2>3. ASSUME NEW n \in DOMAIN g.nodes PROVE h.nodes[n].owner = g.nodes[n].owner
    <3>1. g.nodes[n] \in GoodNode
      BY <1>6, NodeTable
    <3>2. h.nodes[n] = IF g.nodes[n].owner # e THEN g.nodes[n] ELSE DeadNode(g.nodes[n])
      BY <1>3, <1>6, OrphansFacts
    <3> QED BY <3>1, <3>2, DeadNodeFacts
  <2>4. /\ h.next_token = d.next_token /\ h.endpoints = d.endpoints
        /\ \A n \in DOMAIN h.nodes : n \in DOMAIN d.nodes /\ h.nodes[n].owner = d.nodes[n].owner
    BY <2>1, <2>2, <2>3 DEF SameCalls
  <2> QED BY <1>0, <2>4 DEF TokensGiven
<1>12. Subscribed(f, e)
  BY <1>9, <1>10, <1>11, LinksKeep
<1>13. SlotsReaped(d, g) /\ SlotsReaped(h, f) /\ NoSlotOf(f, e)
  BY <1>0, <1>6, <1>9, <1>10, StayReaped
<1>14. SlotsReaped(d, h)
  BY <1>9, <1>13, ReapedTrans
<1>15. SlotsReaped(d, f)
  BY <1>13, <1>14, ReapedTrans
<1> QED BY <1>10, <1>12, <1>13, <1>15

\* The slot of endpoint e, which subscribes to nothing any more, is given back.
LEMMA EmptiedLinks ==
  ASSUME NEW d \in Device, NEW e \in Tokens, Subscribed(d, e), NoSlotOf(d, e),
         NEW f, f = Emptied(d, e)
  PROVE f \in Device /\ Subscribed(f, 0) /\ f.deaths = d.deaths
<1>1. /\ f \in Device /\ f.references = d.references /\ f.deaths = d.deaths
      /\ f.next_token = d.next_token /\ ~f.endpoints[e].used
      /\ \A u \in Tokens \ {e} : f.endpoints[u] = d.endpoints[u] /\ f.threads[u] = d.threads[u]
  BY EmptiedFacts
<1>2. \A k \in DOMAIN f.references : LinkGood(f, k)
  BY <1>1 DEF Subscribed, LinkGood
<1>3. SlotsOwn(f)
  BY <1>1 DEF Subscribed, SlotsOwn, Attached
<1>4. ASSUME NEW i \in Slots PROVE SlotGood(f, 0, i)
  <2>1. PICK a \in Death : a = d.deaths[i]
    BY DeathTypes
  <2>2. CASE a.endpoint = 0
    BY <1>1, <2>1, <2>2 DEF SlotGood
  <2>3. CASE a.endpoint # 0
    <3>1. /\ endpoint_for(d, a.endpoint) /\ a.owner < d.next_token
          /\ a.clearing <=> Unattached(d, i)
          /\ a.state = "armed" <=> endpoint_for(d, a.owner) /\ a.owner # e
                                   /\ a.state # "clear_queued"
          /\ a.state = "clear_queued" => a.clearing
          /\ a.tid # 0 => a.state = "clear_queued" /\ thread_for(d, a.endpoint, a.tid)
      BY <2>1, <2>3 DEF Subscribed, SlotGood
    <3>2. a.endpoint \in Tokens \ {e}
      BY <2>1, <3>1 DEF NoSlotOf, endpoint_for
    <3>3. endpoint_for(f, a.endpoint) /\ a.owner < f.next_token
      BY <1>1, <3>1, <3>2 DEF endpoint_for
    <3>4. endpoint_for(f, a.owner) /\ a.owner # 0 <=> endpoint_for(d, a.owner) /\ a.owner # e
      BY <1>1, DeathTypes DEF endpoint_for
    <3>5. a.clearing <=> Unattached(f, i)
      BY <1>1, <3>1 DEF Unattached
    <3>6. a.tid # 0 => a.state = "clear_queued" /\ thread_for(f, a.endpoint, a.tid)
      BY <1>1, <3>1, <3>2 DEF endpoint_for, thread_for
    <3>7. a.state = "armed" <=> endpoint_for(f, a.owner) /\ a.owner # 0
                                /\ a.state # "clear_queued"
      BY <3>1, <3>4
    <3> QED BY <1>1, <2>1, <3>1, <3>3, <3>5, <3>6, <3>7 DEF SlotGood
  <2> QED BY <2>2, <2>3
<1> QED BY <1>1, <1>2, <1>3, <1>4 DEF Subscribed

LEMMA EndpointLinks ==
  ASSUME NEW d, Sound(d, 0), Subscribed(d, 0), NEW e \in Tokens,
         NEW f, f = release_endpoint(d, e)
  PROVE Sound(f, 0) /\ Subscribed(f, 0) /\ SlotsReaped(d, f)
<1>1. PICK g : g = cancel_transactions(d, e, 0)
  OBVIOUS
<1>2. PICK h : h = release_references(g, e)
  OBVIOUS
<1>3. PICK r : r = release_claims(h, OwnClaims(h, e))
  OBVIOUS
<1>4. r = Released(d, e)
  BY <1>1, <1>2, <1>3 DEF Released
<1>5. Sound(f, 0) /\ f = Emptied(r, e)
  BY <1>4, EndpointFacts
<1>6. Sound(g, 0) /\ g \in Device /\ LinksStay(d, g) /\ Subscribed(g, 0)
  BY <1>1, CancelLinks
<1>7. Subscribed(h, e) /\ SlotsReaped(g, h) /\ NoSlotOf(h, e)
  BY <1>2, <1>6, ReleaseReferencesLinks
<1>8. Sound(h, e)
  BY <1>2, <1>6, ReleaseReferencesFacts
<1>9. h \in Device /\ Bounded(h) /\ NodesKnown(h) /\ TokensGiven(h)
  BY <1>8, SoundFacts, SoundGiven
<1>10. PICK C \in SUBSET h.claims : C = OwnClaims(h, e)
  BY DEF OwnClaims
<1>11. r \in Device /\ LinksStay(h, r)
  BY <1>3, <1>7, <1>9, <1>10, ReleaseLinks DEF Subscribed
<1>12. Subscribed(r, e)
  BY <1>7, <1>9, <1>11, LinksKeep
<1>13. SlotsReaped(d, g) /\ SlotsReaped(h, r) /\ NoSlotOf(r, e)
  <2>1. e # 0
    BY <1>9, DeathTypes
  <2> QED BY <1>6, <1>7, <1>11, <2>1, StayReaped
<1>14. f \in Device /\ Subscribed(f, 0) /\ f.deaths = r.deaths
  BY <1>5, <1>11, <1>12, <1>13, EmptiedLinks
<1>15. SlotsReaped(r, f)
  BY <1>14 DEF SlotsReaped, Reaped
<1>16. SlotsReaped(d, h)
  BY <1>7, <1>13, ReapedTrans
<1>17. SlotsReaped(d, r)
  BY <1>13, <1>16, ReapedTrans
<1>18. SlotsReaped(d, f)
  BY <1>15, <1>17, ReapedTrans
<1> QED BY <1>5, <1>14, <1>18

LEMMA ReapLinks ==
  ASSUME NEW d, Sound(d, 0), Subscribed(d, 0), NEW f, f = reap_closed(d)
  PROVE Sound(f, 0) /\ f \in Device /\ Subscribed(f, 0) /\ SlotsReaped(d, f)
<1> DEFINE S == {g \in Device : Sound(g, 0) /\ Subscribed(g, 0) /\ SlotsReaped(d, g)}
<1>1. d \in S
  <2>1. SlotsReaped(d, d)
    BY DEF SlotsReaped, Reaped
  <2> QED BY <2>1, SoundFacts
<1>2. ASSUME NEW g \in S, NEW e \in Tokens
      PROVE release_endpoint(g, e) \in S
  <2>1. PICK h : h = release_endpoint(g, e)
    OBVIOUS
  <2>2. Sound(g, 0) /\ Subscribed(g, 0) /\ SlotsReaped(d, g)
    OBVIOUS
  <2>3. Sound(h, 0) /\ Subscribed(h, 0) /\ SlotsReaped(g, h)
    BY <2>1, <2>2, EndpointLinks
  <2>4. SlotsReaped(d, h) /\ h \in Device
    BY <2>2, <2>3, ReapedTrans, SoundFacts
  <2> QED BY <2>1, <2>3, <2>4
<1>3. reap_closed(d) \in S
  <2> HIDE DEF S
  <2> QED BY <1>1, <1>2, ReapInduct
<1> QED BY <1>3

\* A slot that is reaped may change like that.
LEMMA ReapedMoves ==
  ASSUME NEW d \in Device, NEW f, SlotsReaped(d, f)
  PROVE SlotsMove(d, f)
<1>1. ASSUME NEW i \in Slots PROVE SlotMoves(d.deaths[i], f.deaths[i])
  <2>1. Reaped(d.deaths[i], f.deaths[i])
    BY DEF SlotsReaped
  <2> QED BY <2>1 DEF SlotMoves, Reaped, NoDeath
<1> QED BY <1>1 DEF SlotsMove

----------------------------------------------------------------------------
(* What every entry point does to the subscriptions.                         *)

\* A slot is as it was, or empty.
SlotsEnd(d, f) == \A i \in Slots : f.deaths[i] = d.deaths[i] \/ f.deaths[i] = NoDeath

LEMMA StayEnds ==
  ASSUME NEW d, NEW f, LinksStay(d, f)
  PROVE SlotsEnd(d, f)
  BY DEF LinksStay, SlotStays, SlotEnds, SlotsEnd

LEMMA EndsTrans ==
  ASSUME NEW d, NEW f, NEW g, SlotsEnd(d, f), SlotsEnd(f, g)
  PROVE SlotsEnd(d, g)
  BY DEF SlotsEnd

LEMMA MovesThenEnds ==
  ASSUME NEW d, NEW f, NEW g, SlotsMove(d, f), SlotsEnd(f, g)
  PROVE SlotsMove(d, g)
<1>1. ASSUME NEW i \in Slots PROVE SlotMoves(d.deaths[i], g.deaths[i])
  <2>1. SlotMoves(d.deaths[i], f.deaths[i])
    BY DEF SlotsMove
  <2>2. g.deaths[i] = f.deaths[i] \/ g.deaths[i] = NoDeath
    BY DEF SlotsEnd
  <2>3. SlotMoves(d.deaths[i], NoDeath)
    BY DEF SlotMoves, NoDeath
  <2> QED BY <2>1, <2>2, <2>3
<1> QED BY <1>1 DEF SlotsMove

LEMMA EndsMove ==
  ASSUME NEW d, NEW f, SlotsEnd(d, f)
  PROVE SlotsMove(d, f)
<1>1. SlotsMove(d, d)
  BY DEF SlotsMove, SlotMoves
<1> QED BY <1>1, MovesThenEnds

\* Thread t of endpoint e leaves the device for good.
LEMMA LeftLinks ==
  ASSUME NEW d, Sound(d, 0), Subscribed(d, 0), NEW e \in Tokens, NEW t \in Tids,
         NEW f, f = Left(d, e, t)
  PROVE Subscribed(f, 0) /\ SlotsEnd(d, f)
<1>0. d \in Device /\ t # 0
  BY SoundFacts, BinderAssumption
<1>1. Sound(f, 0) /\ f \in Device /\ WithoutThread(d, f, e, t)
  BY LeftSound, SoundFacts
<1>2. /\ f.references = d.references /\ f.next_token = d.next_token
      /\ f.deaths = DeathsLeft(d, e, t)
  BY <1>0 DEF Left, PutThreads, PutNodesDeaths, Device
<1>3. ASSUME NEW i \in Slots
      PROVE f.deaths[i] = IF d.deaths[i].endpoint = e /\ d.deaths[i].tid = t THEN NoDeath
                          ELSE d.deaths[i]
  BY <1>2 DEF DeathsLeft
<1>4. SlotsEnd(d, f)
  BY <1>3 DEF SlotsEnd
<1>5. ASSUME NEW k \in DOMAIN f.references PROVE LinkGood(f, k)
  <2>1. LinkGood(d, k) /\ d.references[k].death \in Slots \cup {0}
    BY <1>0, <1>2, DeathTypes DEF Subscribed
  <2>2. CASE d.references[k].death = 0
    BY <1>2, <2>1, <2>2 DEF LinkGood
  <2>3. CASE d.references[k].death # 0
    <3>1. PICK i \in Slots : i = d.references[k].death
      BY <2>1, <2>3
    <3>2. d.deaths[i].endpoint = k[1] /\ ~d.deaths[i].clearing
      BY <2>1, <2>3, <3>1 DEF LinkGood
    <3>3. k[1] # 0
      BY <1>0, <1>2, DeathTypes
    <3>4. d.deaths[i].tid = 0
      BY <3>2, <3>3 DEF Subscribed, SlotGood
    <3>5. f.deaths[i] = d.deaths[i]
      BY <1>0, <1>3, <3>4
    <3> QED BY <1>2, <2>1, <2>3, <3>1, <3>5 DEF LinkGood
  <2> QED BY <2>2, <2>3
<1>6. SlotsOwn(f)
  BY <1>2 DEF Subscribed, SlotsOwn, Attached
<1>7. ASSUME NEW i \in Slots PROVE SlotGood(f, 0, i)
  <2>1. CASE f.deaths[i] = NoDeath
    BY <2>1 DEF SlotGood, NoDeath
  <2>2. CASE f.deaths[i] # NoDeath
    <3>1. f.deaths[i] = d.deaths[i] /\ ~(d.deaths[i].endpoint = e /\ d.deaths[i].tid = t)
      BY <1>3, <2>2
    <3>2. PICK a \in Death : a = d.deaths[i]
      BY <1>0, DeathTypes
    <3>3. CASE a.endpoint = 0
      BY <3>1, <3>2, <3>3 DEF SlotGood
    <3>4. CASE a.endpoint # 0
      <4>1. /\ endpoint_for(d, a.endpoint) /\ a.owner < d.next_token
            /\ a.clearing <=> Unattached(d, i)
            /\ a.state = "armed" <=> endpoint_for(d, a.owner) /\ a.owner # 0
                                     /\ a.state # "clear_queued"
            /\ a.state = "clear_queued" => a.clearing
            /\ a.tid # 0 => a.state = "clear_queued" /\ thread_for(d, a.endpoint, a.tid)
        BY <3>2, <3>4 DEF Subscribed, SlotGood
      <4>2. f.endpoints = d.endpoints
        BY <1>1 DEF WithoutThread
      <4>3. endpoint_for(f, a.endpoint) /\ a.owner < f.next_token
        BY <1>2, <4>1, <4>2 DEF endpoint_for
      <4>4. endpoint_for(f, a.owner) <=> endpoint_for(d, a.owner)
        BY <4>2 DEF endpoint_for
      <4>5. a.clearing <=> Unattached(f, i)
        BY <1>2, <4>1 DEF Unattached
      <4>6. ASSUME a.tid # 0 PROVE thread_for(f, a.endpoint, a.tid)
        <5>1. a.endpoint \in Tokens /\ a.tid \in DOMAIN d.threads[a.endpoint]
          BY <4>1, <4>6 DEF thread_for, endpoint_for
        <5>2. a.tid \in DOMAIN f.threads[a.endpoint]
          BY <1>1, <3>1, <3>2, <5>1 DEF WithoutThread
        <5> QED BY <4>3, <5>2 DEF thread_for
      <4> QED BY <3>1, <3>2, <4>1, <4>3, <4>4, <4>5, <4>6 DEF SlotGood
    <3> QED BY <3>3, <3>4
  <2> QED BY <2>1, <2>2
<1> QED BY <1>4, <1>5, <1>6, <1>7 DEF Subscribed

\* The calls of the host that are not about subscriptions.
LEMMA OpenLinks ==
  ASSUME NEW d, Sound(d, 0), NEW p \in Procs, d.next_token <= TokenLimit,
         NEW f, f = open(d, p)
  PROVE f \in Device /\ LinksStay(d, f)
<1>0. d \in Device /\ d.next_token \in Nat
  BY SoundFacts, DeathTypes
<1>1. f \in Device
  BY OpenSound, SoundFacts
<1>2. PICK ep : ep = Opened(p)
  OBVIOUS
<1>3. PICK E : E = [d.endpoints EXCEPT ![d.next_token] = ep]
  OBVIOUS
<1>4. f = PutOpened(d, d.next_token + 1, E)
  BY <1>2, <1>3 DEF open, PutOpened, Opened
<1>5. /\ f.next_token = d.next_token + 1 /\ f.endpoints = E /\ f.threads = d.threads
      /\ f.references = d.references /\ f.deaths = d.deaths
  BY <1>0, <1>4 DEF PutOpened, Device
<1>6. ASSUME NEW e \in Tokens, e < d.next_token PROVE E[e] = d.endpoints[e]
  <2>1. e # d.next_token /\ d.endpoints \in [Tokens -> Endpoint]
    BY <1>0, <1>6, FieldTypes, BinderAssumption DEF Endpoints, Tokens
  <2> QED BY <1>3, <2>1
<1>7. Places(d, f)
  BY <1>0, <1>5, <1>6 DEF Places
<1> QED BY <1>0, <1>1, <1>5, <1>7, SameLinks

LEMMA ClosedLinks ==
  ASSUME NEW d \in Device, NEW e, NEW f, f = Closed(d, e)
  PROVE FlowOnly(d, f)
  BY DEF Closed, FlowOnly, Device

LEMMA MappedLinks ==
  ASSUME NEW d \in Device, NEW e, NEW m, NEW f, f = Mapped(d, e, m)
  PROVE FlowOnly(d, f)
  BY DEF Mapped, FlowOnly, Device

LEMMA BlockingLinks ==
  ASSUME NEW d \in Device, NEW e, NEW enabled, NEW f, f = Blocking(d, e, enabled)
  PROVE FlowOnly(d, f)
  BY DEF Blocking, FlowOnly, Device

\* Admission does not touch a slot.
LEMMA AdmitSlots ==
  ASSUME NEW d \in Device, NEW e, NEW t, NEW f, f = admit_thread(d, e, t)
  PROVE f.deaths = d.deaths
<1>1. SetThread(d, e, t, NewThread).deaths = d.deaths
  BY DEF SetThread, Device
<1> QED BY <1>1 DEF admit_thread

LEMMA StayLeads ==
  ASSUME NEW d, NEW e, NEW t, InCall(d, e, t), Subscribed(d, 0), NEW g,
         g \in Device /\ LinksStay(d, g)
  PROVE LinksMove(d, g)
<1>1. d \in Device /\ TokensGiven(d)
  BY SoundFacts, SoundGiven DEF InCall
<1> QED BY <1>1, StaysMove

\* What a command of thread t of endpoint e does to the subscriptions.
Led(f, e, t, g) == InCall(f, e, t) /\ Subscribed(f, 0) => InCall(g, e, t) /\ LinksMove(f, g)

LEMMA LedRefl ==
  ASSUME NEW d, NEW e, NEW t
  PROVE Led(d, e, t, d)
  BY SameMoves, InCallFacts DEF Led

\* Thread t of endpoint e executes one command.
Leads(e, t) == \E f, g : Commanded(e, t, f, g) /\ Led(f, e, t, g)

LEMMA LooperCommandLeads ==
  ASSUME NEW e \in Tokens, NEW t, NEW c \in {"ENTER", "REGISTER", "EXIT"},
         LooperCommand(e, t, c)
  PROVE Leads(e, t)
<1>1. PICK f : f = admit_thread(reap_closed(dev), e, t)
  OBVIOUS
<1>2. PICK g : g = IF f.threads[e][t].error # None THEN f
                   ELSE looper_command(f, e, t, c)
  OBVIOUS
<1>3. Commanded(e, t, f, g)
  BY <1>1, <1>2 DEF LooperCommand, Write, Ioctl, Commanded
<1>4. ASSUME InCall(f, e, t), Subscribed(f, 0), g = looper_command(f, e, t, c)
      PROVE InCall(g, e, t) /\ LinksMove(f, g)
  <2>1. InCall(g, e, t)
    BY <1>4, GuestValues, LooperSound DEF StillIn
  <2>2. g \in Device /\ LinksStay(f, g)
    BY <1>4, GuestValues, LooperLinks
  <2> QED BY <1>4, <2>1, <2>2, StayLeads
<1>5. Led(f, e, t, g)
  BY <1>2, <1>4, LedRefl DEF Led
<1> QED BY <1>3, <1>5 DEF Leads

LEMMA ReplyLeads ==
  ASSUME NEW e \in Tokens, NEW t, NEW parcel \in Parcels,
         Reply(e, t, parcel)
  PROVE Leads(e, t)
<1>1. PICK f : f = admit_thread(reap_closed(dev), e, t)
  OBVIOUS
<1>2. PICK g : g = IF f.threads[e][t].error # None THEN f
                   ELSE reply_packet(f, e, t, parcel)
  OBVIOUS
<1>3. Commanded(e, t, f, g)
  BY <1>1, <1>2 DEF Reply, Write, Ioctl, Commanded
<1>4. ASSUME InCall(f, e, t), Subscribed(f, 0), g = reply_packet(f, e, t, parcel)
      PROVE InCall(g, e, t) /\ LinksMove(f, g)
  <2>1. InCall(g, e, t)
    BY <1>4, GuestValues, ReplySound DEF StillIn
  <2>2. g \in Device /\ LinksStay(f, g)
    BY <1>4, GuestValues, ReplyLinks
  <2> QED BY <1>4, <2>1, <2>2, StayLeads
<1>5. Led(f, e, t, g)
  BY <1>2, <1>4, LedRefl DEF Led
<1> QED BY <1>3, <1>5 DEF Leads

LEMMA FreeBufferLeads ==
  ASSUME NEW e \in Tokens, NEW t, NEW b \in Buffers,
         FreeBuffer(e, t, b)
  PROVE Leads(e, t)
<1>1. PICK f : f = admit_thread(reap_closed(dev), e, t)
  OBVIOUS
<1>2. PICK g : g = IF f.threads[e][t].error # None THEN f
                   ELSE free_packet(f, e, b)
  OBVIOUS
<1>3. Commanded(e, t, f, g)
  BY <1>1, <1>2 DEF FreeBuffer, Write, Ioctl, Commanded
<1>4. ASSUME InCall(f, e, t), Subscribed(f, 0), g = free_packet(f, e, b)
      PROVE InCall(g, e, t) /\ LinksMove(f, g)
  <2>1. InCall(g, e, t)
    BY <1>4, GuestValues, FreeSound DEF StillIn
  <2>2. g \in Device /\ LinksStay(f, g)
    BY <1>4, GuestValues, FreeLinks
  <2> QED BY <1>4, <2>1, <2>2, StayLeads
<1>5. Led(f, e, t, g)
  BY <1>2, <1>4, LedRefl DEF Led
<1> QED BY <1>3, <1>5 DEF Leads

LEMMA ReferenceCommandLeads ==
  ASSUME NEW e \in Tokens, NEW t, NEW h, NEW strong \in BOOLEAN, NEW increment \in BOOLEAN,
         ReferenceCommand(e, t, h, strong, increment)
  PROVE Leads(e, t)
<1>1. PICK f : f = admit_thread(reap_closed(dev), e, t)
  OBVIOUS
<1>2. PICK g : g = IF f.threads[e][t].error # None THEN f
                   ELSE reference_command(f, e, h, strong, increment)
  OBVIOUS
<1>3. Commanded(e, t, f, g)
  BY <1>1, <1>2 DEF ReferenceCommand, Write, Ioctl, Commanded
<1>4. ASSUME InCall(f, e, t), Subscribed(f, 0), g = reference_command(f, e, h, strong, increment)
      PROVE InCall(g, e, t) /\ LinksMove(f, g)
  <2>1. InCall(g, e, t)
    BY <1>4, GuestValues, ReferenceSound DEF StillIn
  <2>2. g \in Device /\ LinksStay(f, g)
    BY <1>4, GuestValues, ReferenceLinks
  <2> QED BY <1>4, <2>1, <2>2, StayLeads
<1>5. Led(f, e, t, g)
  BY <1>2, <1>4, LedRefl DEF Led
<1> QED BY <1>3, <1>5 DEF Leads

LEMMA NodeDoneLeads ==
  ASSUME NEW e \in Tokens, NEW t, NEW pointer, NEW cookie, NEW strong \in BOOLEAN,
         NodeDone(e, t, pointer, cookie, strong)
  PROVE Leads(e, t)
<1>1. PICK f : f = admit_thread(reap_closed(dev), e, t)
  OBVIOUS
<1>2. PICK g : g = IF f.threads[e][t].error # None THEN f
                   ELSE node_done_command(f, e, pointer, cookie, strong)
  OBVIOUS
<1>3. Commanded(e, t, f, g)
  BY <1>1, <1>2 DEF NodeDone, Write, Ioctl, Commanded
<1>4. ASSUME InCall(f, e, t), Subscribed(f, 0), g = node_done_command(f, e, pointer, cookie, strong)
      PROVE InCall(g, e, t) /\ LinksMove(f, g)
  <2>1. InCall(g, e, t)
    BY <1>4, GuestValues, DoneSound DEF StillIn
  <2>2. g \in Device /\ LinksStay(f, g)
    BY <1>4, GuestValues, DoneLinks
  <2> QED BY <1>4, <2>1, <2>2, StayLeads
<1>5. Led(f, e, t, g)
  BY <1>2, <1>4, LedRefl DEF Led
<1> QED BY <1>3, <1>5 DEF Leads

LEMMA RequestDeathLeads ==
  ASSUME NEW e \in Tokens, NEW t, NEW h, NEW cookie \in Cookies,
         RequestDeath(e, t, h, cookie)
  PROVE Leads(e, t)
<1>1. PICK f : f = admit_thread(reap_closed(dev), e, t)
  OBVIOUS
<1>2. PICK g : g = IF f.threads[e][t].error # None THEN f
                   ELSE request_death(f, e, h, cookie)
  OBVIOUS
<1>3. Commanded(e, t, f, g)
  BY <1>1, <1>2 DEF RequestDeath, Write, Ioctl, Commanded
<1>4. ASSUME InCall(f, e, t), Subscribed(f, 0), g = request_death(f, e, h, cookie)
      PROVE InCall(g, e, t) /\ LinksMove(f, g)
  <2>1. InCall(g, e, t)
    BY <1>4, GuestValues, RequestSound DEF StillIn
  <2>2. LinksMove(f, g)
    BY <1>4, GuestValues, RequestLinks
  <2> QED BY <2>1, <2>2
<1>5. Led(f, e, t, g)
  BY <1>2, <1>4, LedRefl DEF Led
<1> QED BY <1>3, <1>5 DEF Leads

LEMMA ClearDeathLeads ==
  ASSUME NEW e \in Tokens, NEW t, NEW h, NEW cookie \in Cookies,
         ClearDeath(e, t, h, cookie)
  PROVE Leads(e, t)
<1>1. PICK f : f = admit_thread(reap_closed(dev), e, t)
  OBVIOUS
<1>2. PICK g : g = IF f.threads[e][t].error # None THEN f
                   ELSE clear_death(f, e, t, h, cookie)
  OBVIOUS
<1>3. Commanded(e, t, f, g)
  BY <1>1, <1>2 DEF ClearDeath, Write, Ioctl, Commanded
<1>4. ASSUME InCall(f, e, t), Subscribed(f, 0), g = clear_death(f, e, t, h, cookie)
      PROVE InCall(g, e, t) /\ LinksMove(f, g)
  <2>1. InCall(g, e, t)
    BY <1>4, GuestValues, ClearSound DEF StillIn
  <2>2. LinksMove(f, g)
    BY <1>4, GuestValues, ClearLinks
  <2> QED BY <2>1, <2>2
<1>5. Led(f, e, t, g)
  BY <1>2, <1>4, LedRefl DEF Led
<1> QED BY <1>3, <1>5 DEF Leads

LEMMA DeathDoneLeads ==
  ASSUME NEW e \in Tokens, NEW t, NEW cookie \in Cookies,
         DeathDone(e, t, cookie)
  PROVE Leads(e, t)
<1>1. PICK f : f = admit_thread(reap_closed(dev), e, t)
  OBVIOUS
<1>2. PICK g : g = IF f.threads[e][t].error # None THEN f
                   ELSE death_done(f, e, t, cookie)
  OBVIOUS
<1>3. Commanded(e, t, f, g)
  BY <1>1, <1>2 DEF DeathDone, Write, Ioctl, Commanded
<1>4. ASSUME InCall(f, e, t), Subscribed(f, 0), g = death_done(f, e, t, cookie)
      PROVE InCall(g, e, t) /\ LinksMove(f, g)
  <2>1. InCall(g, e, t)
    BY <1>4, GuestValues, DeathDoneSound DEF StillIn
  <2>2. LinksMove(f, g)
    BY <1>4, GuestValues, DeathDoneLinks
  <2> QED BY <2>1, <2>2
<1>5. Led(f, e, t, g)
  BY <1>2, <1>4, LedRefl DEF Led
<1> QED BY <1>3, <1>5 DEF Leads

LEMMA CallLeads ==
  ASSUME NEW e \in Tokens, NEW t, NEW h, NEW parcel \in Parcels,
         Call(e, t, h, parcel)
  PROVE Leads(e, t)
<1>1. PICK f : f = admit_thread(reap_closed(dev), e, t)
  OBVIOUS
<1>v. PICK oneway \in BOOLEAN : oneway = FALSE
  OBVIOUS
<1>2. PICK g : g = IF f.threads[e][t].error # None THEN f
                   ELSE transfer_packet(f, e, t, h, oneway, parcel)
  OBVIOUS
<1>3. Commanded(e, t, f, g)
  BY <1>1, <1>v, <1>2 DEF Call, Write, Ioctl, Commanded
<1>4. ASSUME InCall(f, e, t), Subscribed(f, 0), g = transfer_packet(f, e, t, h, oneway, parcel)
      PROVE InCall(g, e, t) /\ LinksMove(f, g)
  <2>1. InCall(g, e, t)
    BY <1>4, GuestValues, TransferSound DEF StillIn
  <2>2. g \in Device /\ LinksStay(f, g)
    BY <1>4, GuestValues, TransferLinks
  <2> QED BY <1>4, <2>1, <2>2, StayLeads
<1>5. Led(f, e, t, g)
  BY <1>2, <1>4, LedRefl DEF Led
<1> QED BY <1>3, <1>5 DEF Leads

LEMMA OneWayLeads ==
  ASSUME NEW e \in Tokens, NEW t, NEW h, NEW parcel \in Parcels,
         OneWay(e, t, h, parcel)
  PROVE Leads(e, t)
<1>1. PICK f : f = admit_thread(reap_closed(dev), e, t)
  OBVIOUS
<1>v. PICK oneway \in BOOLEAN : oneway = TRUE
  OBVIOUS
<1>2. PICK g : g = IF f.threads[e][t].error # None THEN f
                   ELSE transfer_packet(f, e, t, h, oneway, parcel)
  OBVIOUS
<1>3. Commanded(e, t, f, g)
  BY <1>1, <1>v, <1>2 DEF OneWay, Write, Ioctl, Commanded
<1>4. ASSUME InCall(f, e, t), Subscribed(f, 0), g = transfer_packet(f, e, t, h, oneway, parcel)
      PROVE InCall(g, e, t) /\ LinksMove(f, g)
  <2>1. InCall(g, e, t)
    BY <1>4, GuestValues, TransferSound DEF StillIn
  <2>2. g \in Device /\ LinksStay(f, g)
    BY <1>4, GuestValues, TransferLinks
  <2> QED BY <1>4, <2>1, <2>2, StayLeads
<1>5. Led(f, e, t, g)
  BY <1>2, <1>4, LedRefl DEF Led
<1> QED BY <1>3, <1>5 DEF Leads

LEMMA SetContextManagerLeads ==
  ASSUME NEW e \in Tokens, NEW t, NEW pointer \in Pointers, NEW cookie \in Cookies,
         SetContextManager(e, t, pointer, cookie)
  PROVE Leads(e, t)
<1>1. PICK f : f = admit_thread(reap_closed(dev), e, t)
  OBVIOUS
<1>2. PICK g : g = set_context_manager(f, e, pointer, cookie)
  OBVIOUS
<1>3. Commanded(e, t, f, g)
  BY <1>1, <1>2 DEF SetContextManager, Ioctl, Commanded
<1>4. ASSUME InCall(f, e, t), Subscribed(f, 0), g = set_context_manager(f, e, pointer, cookie)
      PROVE InCall(g, e, t) /\ LinksMove(f, g)
  <2>1. InCall(g, e, t)
    BY <1>4, GuestValues, ManagerSound DEF StillIn
  <2>2. g \in Device /\ LinksStay(f, g)
    BY <1>4, GuestValues, ManagerLinks
  <2> QED BY <1>4, <2>1, <2>2, StayLeads
<1>5. Led(f, e, t, g)
  BY <1>2, <1>4, LedRefl DEF Led
<1> QED BY <1>3, <1>5 DEF Leads

LEMMA ReadLeads ==
  ASSUME NEW e \in Tokens, NEW t, Read(e, t)
  PROVE Leads(e, t)
<1>1. PICK f : f = admit_thread(reap_closed(dev), e, t)
  OBVIOUS
<1>2. /\ CanEnter(reap_closed(dev), e, t)
      /\ \/ \E g \in read_work(f, e, t) : dev' = Leave(g, e, t)
         \/ dev' = Leave(f, e, t)
  BY <1>1 DEF Read
<1>3. CASE dev' = Leave(f, e, t)
  <2>1. Commanded(e, t, f, f)
    BY <1>1, <1>2, <1>3 DEF Commanded
  <2> QED BY <2>1, LedRefl DEF Leads
<1>4. ASSUME NEW g \in read_work(f, e, t), dev' = Leave(g, e, t)
      PROVE Leads(e, t)
  <2>1. Commanded(e, t, f, g)
    BY <1>1, <1>2, <1>4 DEF Commanded
  <2>2. Led(f, e, t, g)
    BY ReadLinks DEF Led
  <2> QED BY <2>1, <2>2 DEF Leads
<1> QED BY <1>2, <1>3, <1>4

LEMMA ThreadStepLeads ==
  ASSUME NEW e \in Tokens, NEW t \in Tids, ThreadStep(e, t)
  PROVE \/ Leads(e, t) \/ ThreadExit(e, t) \/ Sleep(e, t) \/ Poll(e, t)
        \/ Interrupted(e, t) \/ Events(e, t)
<1>1. CASE Read(e, t)
  BY <1>1, ReadLeads
<1>2. ASSUME NEW c \in {"ENTER", "REGISTER", "EXIT"}, LooperCommand(e, t, c)
      PROVE Leads(e, t)
  BY <1>2, LooperCommandLeads
<1>3. ASSUME NEW b \in Buffers, FreeBuffer(e, t, b) PROVE Leads(e, t)
  BY <1>3, FreeBufferLeads
<1>4. ASSUME NEW parcel \in Parcels, Reply(e, t, parcel) PROVE Leads(e, t)
  BY <1>4, ReplyLeads
<1>5. ASSUME NEW parcel \in Parcels, NEW h \in Handles,
             Call(e, t, h, parcel) \/ OneWay(e, t, h, parcel)
      PROVE Leads(e, t)
  BY <1>5, CallLeads, OneWayLeads
<1>6. ASSUME NEW h \in Handles, NEW strong \in BOOLEAN, NEW increment \in BOOLEAN,
             ReferenceCommand(e, t, h, strong, increment)
      PROVE Leads(e, t)
  BY <1>6, ReferenceCommandLeads
<1>7. ASSUME NEW c \in Cookies, DeathDone(e, t, c) PROVE Leads(e, t)
  BY <1>7, DeathDoneLeads
<1>8. ASSUME NEW c \in Cookies, NEW h \in Handles,
             RequestDeath(e, t, h, c) \/ ClearDeath(e, t, h, c)
      PROVE Leads(e, t)
  BY <1>8, RequestDeathLeads, ClearDeathLeads
<1>9. ASSUME NEW c \in Cookies, NEW p \in Pointers, SetContextManager(e, t, p, c)
      PROVE Leads(e, t)
  BY <1>9, SetContextManagerLeads
<1>10. ASSUME NEW c \in Cookies, NEW p \in Pointers, NEW strong \in BOOLEAN,
              NodeDone(e, t, p, c, strong)
       PROVE Leads(e, t)
  BY <1>10, NodeDoneLeads
<1> QED
  BY <1>1, <1>2, <1>3, <1>4, <1>5, <1>6, <1>7, <1>8, <1>9, <1>10 DEF ThreadStep

----------------------------------------------------------------------------
(* The subscriptions after a step.                                           *)

DeviceSubscribed == Subscribed(dev, 0)

\* What may become of the slots of d that reaping, which leaves m, does not empty.
Clears(d, m, h) ==
  \A i \in Slots : m.deaths[i].endpoint # 0 => SlotMoves(d.deaths[i], h.deaths[i])
StepClears == Clears(dev, reap_closed(dev), dev')

LEMMA ReapThenMoves ==
  ASSUME NEW d, NEW m, NEW h, SlotsReaped(d, m), SlotsMove(m, h)
  PROVE Clears(d, m, h)
<1>1. ASSUME NEW i \in Slots, m.deaths[i].endpoint # 0
      PROVE SlotMoves(d.deaths[i], h.deaths[i])
  <2>1. Reaped(d.deaths[i], m.deaths[i]) /\ SlotMoves(m.deaths[i], h.deaths[i])
    BY DEF SlotsReaped, SlotsMove
  <2>2. m.deaths[i] # NoDeath
    BY <1>1 DEF NoDeath
  <2>3. CASE m.deaths[i] = d.deaths[i]
    BY <2>1, <2>3
  <2>4. CASE d.deaths[i].state = "armed"
    BY <2>4 DEF SlotMoves
  <2> QED BY <2>1, <2>2, <2>3, <2>4 DEF Reaped
<1> QED BY <1>1 DEF Clears

LEMMA MovesClear ==
  ASSUME NEW d, NEW m, NEW h, SlotsMove(d, h)
  PROVE Clears(d, m, h)
  BY DEF Clears, SlotsMove

\* Reaping, and what the step does then.
LEMMA AfterReap ==
  ASSUME DeviceSound, DeviceSubscribed, NEW d, d = reap_closed(dev)
  PROVE /\ Sound(d, 0) /\ d \in Device /\ Subscribed(d, 0) /\ TokensGiven(d)
        /\ \A h : h = dev' /\ Subscribed(h, 0) /\ SlotsMove(d, h)
                  => DeviceSubscribed' /\ StepClears
<1>1. Sound(d, 0) /\ d \in Device /\ Subscribed(d, 0) /\ SlotsReaped(dev, d)
  BY ReapLinks DEF DeviceSound, DeviceSubscribed
<1>2. ASSUME NEW h, h = dev', Subscribed(h, 0), SlotsMove(d, h)
      PROVE DeviceSubscribed' /\ StepClears
  <2>1. Clears(dev, d, h)
    BY <1>1, <1>2, ReapThenMoves
  <2> QED BY <1>2, <2>1 DEF DeviceSubscribed, StepClears
<1> QED BY <1>1, <1>2, SoundGiven

LEMMA EnterLinks ==
  ASSUME DeviceSound, DeviceSubscribed, NEW e \in Tokens, NEW t,
         NEW d, d = reap_closed(dev), CanEnter(d, e, t), NEW f, f = admit_thread(d, e, t)
  PROVE f \in Device /\ Subscribed(f, 0) /\ InCall(f, e, t) /\ f.deaths = d.deaths
<1>1. Sound(d, 0) /\ d \in Device /\ Subscribed(d, 0)
  BY AfterReap
<1>2. Admissible(d, e, t)
  <2>1. endpoint_for(d, e)
    BY EnterSound DEF DeviceSound
  <2> QED BY <2>1 DEF Admissible, CanEnter
<1> QED BY <1>1, <1>2, AdmitLinks, AdmitSlots

LEMMA LeadsSubscribed ==
  ASSUME DeviceSound, DeviceSubscribed, NEW e \in Tokens, NEW t, Leads(e, t)
  PROVE DeviceSubscribed' /\ StepClears
<1>1. PICK f, g : Commanded(e, t, f, g) /\ Led(f, e, t, g)
  BY DEF Leads
<1>2. PICK d : d = reap_closed(dev)
  OBVIOUS
<1>3. PICK h : h = dev'
  OBVIOUS
<1>4. CanEnter(d, e, t) /\ f = admit_thread(d, e, t) /\ h = Leave(g, e, t)
  BY <1>1, <1>2, <1>3 DEF Commanded
<1>5. f \in Device /\ Subscribed(f, 0) /\ InCall(f, e, t) /\ f.deaths = d.deaths
  BY <1>2, <1>4, EnterLinks
<1>6. InCall(g, e, t) /\ LinksMove(f, g)
  BY <1>1, <1>5 DEF Led
<1>7. Subscribed(g, 0) /\ SlotsMove(f, g)
  BY <1>6 DEF LinksMove
<1>8. Subscribed(h, 0) /\ LinksStay(g, h)
  BY <1>4, <1>6, <1>7, LeaveLinks
<1>9. SlotsMove(d, g)
  BY <1>5, <1>7 DEF SlotsMove
<1>10. SlotsMove(d, h)
  BY <1>8, <1>9, StayEnds, MovesThenEnds
<1> QED BY <1>2, <1>3, <1>8, <1>10, AfterReap

LEMMA StaySubscribed ==
  ASSUME DeviceSound, DeviceSubscribed, NEW d, d = reap_closed(dev), NEW h, h = dev',
         Subscribed(h, 0), LinksStay(d, h)
  PROVE DeviceSubscribed' /\ StepClears
<1>1. SlotsMove(d, h)
  BY StayEnds, EndsMove
<1> QED BY <1>1, AfterReap

LEMMA SleepSubscribed ==
  ASSUME DeviceSound, DeviceSubscribed, NEW e \in Tokens, NEW t, Sleep(e, t)
  PROVE DeviceSubscribed' /\ StepClears
<1>1. PICK d : d = reap_closed(dev)
  OBVIOUS
<1>2. PICK h : h = dev'
  OBVIOUS
<1>3. CanEnter(d, e, t) /\ t \in DOMAIN d.threads[e] /\ h = Asleep(d, e, t)
  BY <1>1, <1>2 DEF Sleep, Asleep
<1>4. InCall(d, e, t) /\ Subscribed(d, 0)
  BY <1>1, <1>3, EnterSound, AfterReap DEF DeviceSound, InCall
<1>5. LinksStay(d, h) /\ Subscribed(h, 0)
  BY <1>3, <1>4, AsleepLinks DEF CanEnter
<1> QED BY <1>1, <1>2, <1>5, StaySubscribed

LEMMA PollSubscribed ==
  ASSUME DeviceSound, DeviceSubscribed, NEW e \in Tokens, NEW t, Poll(e, t)
  PROVE DeviceSubscribed' /\ StepClears
<1>1. PICK d : d = reap_closed(dev)
  OBVIOUS
<1>2. PICK h : h = dev'
  OBVIOUS
<1>3. InCall(d, e, t) /\ Subscribed(d, 0)
  BY <1>1, WakeSound, AfterReap DEF Poll
<1>4. h = d \/ \E g \in read_work(d, e, t) : h = Leave(g, e, t)
  BY <1>1, <1>2 DEF Poll
<1>5. Subscribed(h, 0) /\ SlotsMove(d, h)
  <2>1. CASE h = d
    BY <1>3, <2>1 DEF SlotsMove, SlotMoves
  <2>2. ASSUME NEW g \in read_work(d, e, t), h = Leave(g, e, t)
        PROVE Subscribed(h, 0) /\ SlotsMove(d, h)
    <3>1. InCall(g, e, t) /\ LinksMove(d, g)
      BY <1>3, ReadLinks
    <3>2. Subscribed(g, 0) /\ SlotsMove(d, g)
      BY <3>1 DEF LinksMove
    <3>3. Subscribed(h, 0) /\ LinksStay(g, h)
      BY <2>2, <3>1, <3>2, LeaveLinks
    <3> QED BY <3>2, <3>3, StayEnds, MovesThenEnds
  <2> QED BY <1>4, <2>1, <2>2
<1> QED BY <1>1, <1>2, <1>5, AfterReap

LEMMA InterruptedSubscribed ==
  ASSUME DeviceSound, DeviceSubscribed, NEW e \in Tokens, NEW t, Interrupted(e, t)
  PROVE DeviceSubscribed' /\ StepClears
<1>1. PICK d : d = reap_closed(dev)
  OBVIOUS
<1>2. PICK h : h = dev'
  OBVIOUS
<1>3. InCall(d, e, t) /\ Subscribed(d, 0)
  BY <1>1, WakeSound, AfterReap DEF Interrupted
<1>4. h = Leave(d, e, t)
  BY <1>1, <1>2 DEF Interrupted
<1>5. LinksStay(d, h) /\ Subscribed(h, 0)
  BY <1>3, <1>4, LeaveLinks
<1> QED BY <1>1, <1>2, <1>5, StaySubscribed

LEMMA EventsSubscribed ==
  ASSUME DeviceSound, DeviceSubscribed, NEW e \in Tokens, NEW t, Events(e, t)
  PROVE DeviceSubscribed' /\ StepClears
<1>1. PICK d : d = reap_closed(dev)
  OBVIOUS
<1>2. PICK h : h = dev'
  OBVIOUS
<1>3. Admissible(d, e, t) /\ h = admit_thread(d, e, t)
  BY <1>1, <1>2 DEF Events, Admissible
<1>4. Sound(d, 0) /\ Subscribed(d, 0)
  BY <1>1, AfterReap
<1>5. LinksStay(d, h) /\ Subscribed(h, 0)
  BY <1>3, <1>4, AdmitLinks
<1> QED BY <1>1, <1>2, <1>5, StaySubscribed

LEMMA ThreadExitSubscribed ==
  ASSUME DeviceSound, DeviceSubscribed, NEW e \in Tokens, NEW t \in Tids, ThreadExit(e, t)
  PROVE DeviceSubscribed' /\ StepClears
<1>1. PICK d : d = reap_closed(dev)
  OBVIOUS
<1>2. PICK a : a = admit_thread(d, e, t)
  OBVIOUS
<1>3. PICK f : f = cancel_transactions(a, e, t)
  OBVIOUS
<1>4. CanEnter(d, e, t)
  BY <1>1 DEF ThreadExit
<1>5. Subscribed(a, 0) /\ InCall(a, e, t) /\ a.deaths = d.deaths
  BY <1>1, <1>2, <1>4, EnterLinks
<1>6. Sound(f, 0) /\ f \in Device /\ LinksStay(a, f) /\ Subscribed(f, 0)
  BY <1>3, <1>5, CancelLinks DEF InCall
<1>7. PICK h : h = dev'
  OBVIOUS
<1>8. h = Left(f, e, t)
  BY <1>1, <1>2, <1>3, <1>6, <1>7, ExitSteps
<1>9. Subscribed(h, 0) /\ SlotsEnd(f, h)
  BY <1>6, <1>8, LeftLinks
<1>10. SlotsMove(d, h)
  <2>1. SlotsEnd(a, f)
    BY <1>6, StayEnds
  <2>2. SlotsEnd(d, f)
    BY <1>5, <2>1 DEF SlotsEnd
  <2> QED BY <1>9, <2>2, EndsTrans, EndsMove
<1> QED BY <1>1, <1>7, <1>9, <1>10, AfterReap

LEMMA OpenSubscribed ==
  ASSUME DeviceSound, DeviceSubscribed, NEW p \in Procs, Open(p)
  PROVE DeviceSubscribed' /\ StepClears
<1>1. PICK d : d = reap_closed(dev)
  OBVIOUS
<1>2. PICK h : h = dev'
  OBVIOUS
<1>3. d.next_token <= TokenLimit /\ h = open(d, p)
  BY <1>1, <1>2 DEF Open
<1>4. Sound(d, 0) /\ d \in Device /\ Subscribed(d, 0) /\ TokensGiven(d)
  BY <1>1, AfterReap
<1>5. h \in Device /\ LinksStay(d, h)
  BY <1>3, <1>4, OpenLinks
<1>6. Subscribed(h, 0)
  BY <1>4, <1>5, LinksKeep
<1> QED BY <1>1, <1>2, <1>5, <1>6, StaySubscribed

LEMMA CloseSubscribed ==
  ASSUME DeviceSound, DeviceSubscribed, NEW e \in Tokens, Close(e)
  PROVE DeviceSubscribed' /\ StepClears
<1>1. PICK f : f = Closed(dev, e)
  OBVIOUS
<1>2. PICK h : h = dev'
  OBVIOUS
<1>3. \A t \in DOMAIN dev.threads[e] : ~dev.threads[e][t].active
  BY DEF Close
<1>4. h = reap_closed(f)
  BY <1>1, <1>2 DEF Close, Closed
<1>5. Sound(f, 0) /\ SameFlow(dev, f)
  BY <1>1, <1>3, ClosedSound DEF DeviceSound
<1>6. f \in Device /\ dev \in Device /\ TokensGiven(dev)
  BY <1>5, SoundFacts, SoundGiven DEF DeviceSound
<1>7. FlowOnly(dev, f)
  BY <1>1, <1>6, ClosedLinks
<1>8. LinksStay(dev, f)
  BY <1>5, <1>6, <1>7, FlowLinks
<1>9. Subscribed(f, 0)
  BY <1>6, <1>8, LinksKeep DEF DeviceSubscribed
<1>10. Subscribed(h, 0) /\ SlotsReaped(f, h)
  BY <1>4, <1>5, <1>9, ReapLinks
<1>11. SlotsReaped(dev, h)
  BY <1>7, <1>10 DEF FlowOnly, SlotsReaped
<1>12. SlotsMove(dev, h)
  BY <1>6, <1>11, ReapedMoves
<1>13. StepClears
  BY <1>2, <1>12, MovesClear DEF StepClears
<1> QED BY <1>2, <1>10, <1>13 DEF DeviceSubscribed

LEMMA MmapSubscribed ==
  ASSUME DeviceSound, DeviceSubscribed, NEW e \in Tokens, Mmap(e)
  PROVE DeviceSubscribed' /\ StepClears
<1>1. PICK d : d = reap_closed(dev)
  OBVIOUS
<1>2. PICK h : h = dev'
  OBVIOUS
<1>3. PICK m \in {None, "intact", "torn", "gone"} : m = "intact"
  OBVIOUS
<1>4. h = Mapped(d, e, m)
  BY <1>1, <1>2, <1>3 DEF Mmap, mmap, Mapped
<1>5. Sound(d, 0) /\ d \in Device /\ Subscribed(d, 0) /\ TokensGiven(d)
  BY <1>1, AfterReap
<1>6. h \in Device /\ SameFlow(d, h) /\ FlowOnly(d, h)
  BY <1>4, <1>5, MappedSound, SoundFacts, MappedLinks
<1>7. LinksStay(d, h)
  BY <1>5, <1>6, FlowLinks
<1>8. Subscribed(h, 0)
  BY <1>5, <1>6, <1>7, LinksKeep
<1> QED BY <1>1, <1>2, <1>7, <1>8, StaySubscribed

\* A step of the host that does not reap.
LEMMA FlowSubscribed ==
  ASSUME DeviceSound, DeviceSubscribed, NEW h, h = dev', Sound(h, 0), SameFlow(dev, h),
         FlowOnly(dev, h)
  PROVE DeviceSubscribed' /\ StepClears
<1>1. dev \in Device /\ TokensGiven(dev) /\ h \in Device
  BY SoundFacts, SoundGiven DEF DeviceSound
<1>2. LinksStay(dev, h)
  BY <1>1, FlowLinks
<1>3. Subscribed(h, 0)
  BY <1>1, <1>2, LinksKeep DEF DeviceSubscribed
<1>4. SlotsMove(dev, h)
  BY <1>2, StayEnds, EndsMove
<1>5. StepClears
  BY <1>4, MovesClear DEF StepClears
<1> QED BY <1>3, <1>5 DEF DeviceSubscribed

LEMMA UnmapSubscribed ==
  ASSUME DeviceSound, DeviceSubscribed, NEW e \in Tokens, NEW part, part \in {"torn", "gone"},
         Unmap(e, part)
  PROVE DeviceSubscribed' /\ StepClears
<1>1. PICK h : h = dev'
  OBVIOUS
<1>2. h = Mapped(dev, e, part)
  BY <1>1 DEF Unmap, Mapped
<1>3. part \in {None, "intact", "torn", "gone"} /\ dev \in Device
  BY SoundFacts DEF DeviceSound
<1>4. Sound(h, 0) /\ SameFlow(dev, h) /\ FlowOnly(dev, h)
  BY <1>2, <1>3, MappedSound, MappedLinks DEF DeviceSound
<1> QED BY <1>1, <1>4, FlowSubscribed

LEMMA NonblockingSubscribed ==
  ASSUME DeviceSound, DeviceSubscribed, NEW e \in Tokens, NEW enabled \in BOOLEAN,
         set_nonblocking(e, enabled)
  PROVE DeviceSubscribed' /\ StepClears
<1>1. PICK h : h = dev'
  OBVIOUS
<1>2. h = Blocking(dev, e, enabled)
  BY <1>1 DEF set_nonblocking, Blocking
<1>3. dev \in Device
  BY SoundFacts DEF DeviceSound
<1>4. Sound(h, 0) /\ SameFlow(dev, h) /\ FlowOnly(dev, h)
  BY <1>2, <1>3, BlockingSound, BlockingLinks DEF DeviceSound
<1> QED BY <1>1, <1>4, FlowSubscribed

LEMMA RefusedSubscribed ==
  ASSUME DeviceSound, DeviceSubscribed, Refused
  PROVE DeviceSubscribed' /\ StepClears
<1>1. PICK d : d = reap_closed(dev)
  OBVIOUS
<1>2. d = dev'
  BY <1>1 DEF Refused
<1>3. Subscribed(d, 0)
  BY <1>1, AfterReap
<1>4. SlotsMove(d, d)
  BY DEF SlotsMove, SlotMoves
<1> QED BY <1>1, <1>2, <1>3, <1>4, AfterReap

LEMMA CreatedSubscribed == Subscribed(Created, 0)
<1>1. Created.references = <<>> /\ Created.deaths = [i \in Slots |-> NoDeath]
  BY DEF Created
<1>2. DOMAIN Created.references = {}
  BY <1>1, EmptyTable DEF References
<1>3. \A i \in Slots : Created.deaths[i].endpoint = 0
  BY <1>1 DEF NoDeath
<1> QED BY <1>2, <1>3 DEF Subscribed, SlotsOwn, SlotGood, Attached

LEMMA ThreadStepSubscribed ==
  ASSUME DeviceSound, DeviceSubscribed, NEW e \in Tokens, NEW t \in Tids, ThreadStep(e, t)
  PROVE DeviceSubscribed' /\ StepClears
<1>1. \/ Leads(e, t) \/ ThreadExit(e, t) \/ Sleep(e, t) \/ Poll(e, t)
      \/ Interrupted(e, t) \/ Events(e, t)
  BY ThreadStepLeads
<1> QED BY <1>1, LeadsSubscribed, ThreadExitSubscribed, SleepSubscribed, PollSubscribed,
           InterruptedSubscribed, EventsSubscribed

LEMMA StepSubscribed ==
  ASSUME DeviceSound, DeviceSubscribed, [Next]_dev
  PROVE DeviceSubscribed' /\ StepClears
<1>1. CASE UNCHANGED dev
  <2>1. SlotsMove(dev, dev')
    BY <1>1 DEF SlotsMove, SlotMoves
  <2> QED BY <1>1, <2>1, MovesClear DEF DeviceSubscribed, StepClears
<1>2. ASSUME NEW p \in Procs, Open(p) PROVE DeviceSubscribed' /\ StepClears
  BY <1>2, OpenSubscribed
<1>3. CASE Refused
  BY <1>3, RefusedSubscribed
<1>4. ASSUME NEW e \in Tokens, Close(e) \/ Mmap(e) PROVE DeviceSubscribed' /\ StepClears
  BY <1>4, CloseSubscribed, MmapSubscribed
<1>5. ASSUME NEW e \in Tokens, NEW part \in {"torn", "gone"}, Unmap(e, part)
      PROVE DeviceSubscribed' /\ StepClears
  BY <1>5, UnmapSubscribed
<1>6. ASSUME NEW e \in Tokens, NEW enabled \in BOOLEAN, set_nonblocking(e, enabled)
      PROVE DeviceSubscribed' /\ StepClears
  BY <1>6, NonblockingSubscribed
<1>7. ASSUME NEW e \in Tokens, NEW t \in Tids, ThreadStep(e, t)
      PROVE DeviceSubscribed' /\ StepClears
  BY <1>7, ThreadStepSubscribed
<1> QED BY <1>1, <1>2, <1>3, <1>4, <1>5, <1>6, <1>7 DEF Next

DeviceWatched == DeviceSound /\ DeviceSubscribed

LEMMA WatchedInit == Init => DeviceWatched
  BY CreatedSound, CreatedSubscribed DEF Init, DeviceSound, DeviceSubscribed, DeviceWatched

LEMMA WatchedStep ==
  ASSUME DeviceWatched, [Next]_dev
  PROVE DeviceWatched' /\ StepClears
  BY StepKeeps, StepSubscribed DEF DeviceWatched

\* request_death, clear_death, death_done and what ends endpoints, threads and
\* references: a slot is shared by no two references and watches what its
\* reference names; it is armed exactly as long as that owner lives; one that no
\* reference has is being cleared, and only then does it await a thread, which
\* is there.
THEOREM SlotsAgree == Spec => []DeathSlots
<1>1. DeviceWatched => DeathSlots
  <2> SUFFICES ASSUME DeviceWatched PROVE DeathSlots
    OBVIOUS
  <2>0. dev \in Device /\ Subscribed(dev, 0)
    BY SoundFacts DEF DeviceWatched, DeviceSound, DeviceSubscribed
  <2>1. ASSUME NEW k \in DOMAIN dev.references, dev.references[k].death # 0
        PROVE LET i == dev.references[k].death IN
              /\ dev.deaths[i].endpoint = k[1] /\ ~dev.deaths[i].clearing
              /\ dev.deaths[i].owner = dev.references[k].owner
              /\ \A j \in DOMAIN dev.references \ {k} : dev.references[j].death # i
    <3>1. PICK i \in Slots : i = dev.references[k].death
      BY <2>0, <2>1, DeathTypes
    <3>2. LinkGood(dev, k) /\ \A j : Attached(dev, j, i) /\ Attached(dev, k, i) => j = k
      BY <2>0 DEF Subscribed, SlotsOwn
    <3> QED BY <2>1, <3>1, <3>2 DEF LinkGood, Attached
  <2>2. ASSUME NEW i \in Slots, dev.deaths[i].endpoint # 0
        PROVE LET death == dev.deaths[i] IN
              /\ endpoint_for(dev, death.endpoint)
              /\ death.clearing <=> \A k \in DOMAIN dev.references : dev.references[k].death # i
              /\ death.state = "armed" <=> endpoint_for(dev, death.owner)
                                           /\ death.state # "clear_queued"
              /\ death.state = "clear_queued" => death.clearing
              /\ death.tid # 0 => thread_for(dev, death.endpoint, death.tid)
    <3>1. SlotGood(dev, 0, i) /\ 0 \notin Tokens
      BY <2>0, DeathTypes DEF Subscribed
    <3>2. endpoint_for(dev, dev.deaths[i].owner) => dev.deaths[i].owner # 0
      BY <3>1 DEF endpoint_for
    <3> QED BY <2>2, <3>1, <3>2 DEF SlotGood, Unattached
  <2> QED BY <2>1, <2>2 DEF DeathSlots
<1>2. Init => DeviceWatched
  BY WatchedInit
<1>3. DeviceWatched /\ [Next]_dev => DeviceWatched'
  BY WatchedStep
<1> QED BY <1>1, <1>2, <1>3, PTL DEF Spec

\* queue_clear, clear_death and death_done: a death is reported once; a
\* subscription whose death was reported completes its clearing only when
\* BC_DEAD_BINDER_DONE has come.
THEOREM ClearedInOrder == Spec => ClearAfterDone
<1> DEFINE InOrder == \A i \in Slots :
       LET before == dev.deaths[i]
           after == dev'.deaths[i]
       IN /\ before.endpoint # 0 /\ after.endpoint = before.endpoint
          /\ reap_closed(dev).deaths[i].endpoint # 0
          => /\ before.state = "delivered" /\ after.state = "clear_queued"
                  => before.clearing
             /\ before.state \in {"delivered", "acknowledged"}
                  => after.state \notin {"armed", "queued"}
             /\ before.state = "queued" => after.state \in {"queued", "delivered"}
<1>1. Init => DeviceWatched
  BY WatchedInit
<1>2. DeviceWatched /\ [Next]_dev => DeviceWatched' /\ [InOrder]_dev
  <2> SUFFICES ASSUME DeviceWatched, [Next]_dev PROVE DeviceWatched' /\ InOrder
    OBVIOUS
  <2>1. DeviceWatched' /\ StepClears
    BY WatchedStep
  <2> QED BY <2>1 DEF StepClears, Clears, SlotMoves
<1> QED BY <1>1, <1>2, PTL DEF Spec, ClearAfterDone
=============================================================================
