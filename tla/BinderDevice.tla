---------------------------- MODULE BinderDevice ----------------------------
(***************************************************************************)
(* The userspace Binder context of core/src/binder_device.cpp.             *)
(*                                                                         *)
(* One mutex guards the whole device, so its state is one record and every *)
(* helper of the code is an operator from device states to device states;  *)
(* an action is one entry point, helpers, reaping and all.  An ioctl       *)
(* executes one write command or returns one item: a batch is a sequence   *)
(* of such ioctls that nothing interleaves with.  The only place where the *)
(* mutex is released inside a call is the blocking read (Sleep, Poll).     *)
(***************************************************************************)
EXTENDS Integers, Sequences, FiniteSets, FiniteSetsExt, Functions, Vectors

CONSTANTS
  Procs,        \* virtual PIDs, positive
  Uid,          \* the user of each process
  Threads,      \* the guest thread ids of each process, never 0
  Pointers,     \* addresses of guest Binder objects, positive
  Handles,      \* the handles guests name
  Cookies,      \* death and object cookies
  Parcels,      \* object tables a guest may send
  Enabled,      \* the operations each process of this instance uses
  TokenLimit,   \* bound of the model: endpoints ever opened
  NodeLimit,    \* bound of the model: nodes ever created
  TxnLimit,     \* bound of the model: synchronous calls ever accepted
  EndpointLimit, ThreadLimit,   \* artbox_binder_device_create's arguments
  PacketLimit,  \* packet_limit: transactions, references, deaths, nodes, work
  ClaimLimit,   \* claim_limit
  BufferLimit,  \* receive buffers an endpoint's arena has room for
  CountMax      \* the largest reference count, UINT32_MAX in the code

Tids == UNION {Threads[p] : p \in Procs}
Tokens == 1..TokenLimit
Buffers == 1..BufferLimit
Slots == 1..PacketLimit
\* An object table: flat_binder_object entries, valid ones and others.
Objects == [kind : {"BINDER"}, pointer : Nat, cookie : Nat]
           \cup [kind : {"HANDLE"}, handle : Nat]
           \cup [kind : {"FD", "MALFORMED"}]

ASSUME BinderAssumption ==
  /\ {TokenLimit, NodeLimit, TxnLimit, EndpointLimit, ThreadLimit, PacketLimit,
      ClaimLimit, BufferLimit, CountMax} \subseteq Nat \ {0}
  /\ DOMAIN Threads = Procs /\ 0 \notin Tids /\ Pointers \subseteq Nat \ {0}
  /\ Procs \subseteq Nat \ {0} /\ Cookies \subseteq Nat /\ Handles \subseteq Nat
  /\ Uid \in [Procs -> Nat \ {0}] /\ Parcels \subseteq Seq(Objects)
  /\ IsFiniteSet(Tids) /\ IsFiniteSet(Procs)

VARIABLE dev  \* artbox_binder_device, the endpoints' mappings included

None == "none"
Looper == {"entered", "registered", "exited", "invalid"}

Endpoint == [used : BOOLEAN, opened : BOOLEAN, nonblocking : BOOLEAN,
             pid : Procs \cup {0},
             mapping : {None, "intact", "torn", "gone"},
             arena : [Buffers -> {"free", "reserved", "delivered"}]]
Thread == [looper : SUBSET Looper, incoming : 0..TxnLimit, outgoing : 0..TxnLimit,
           error : {None, "DEAD_REPLY", "FAILED_REPLY"}, completions : 0..PacketLimit,
           dead_reply : BOOLEAN, initial_return : BOOLEAN, active : BOOLEAN]
Transaction == [id : 1..TxnLimit, source : Tokens, target : Tokens,
                source_tid : Tids, target_tid : Tids \cup {0}]
Work == [endpoint : Tokens, tid : Tids \cup {0}, command : {"TRANSACTION", "REPLY"},
         transaction : 0..TxnLimit, async_node : 0..NodeLimit, buffer : Buffers]
Reference == [owner : Tokens, handle : Nat, strong : 0..CountMax, weak : 0..CountMax,
              temporary_strong : 0..CountMax, death : 0..PacketLimit]
Node == [owner : Tokens, pointer : Nat, cookie : Nat, notification_tid : Tids \cup {0},
         manager : BOOLEAN, dead : BOOLEAN, has_strong : BOOLEAN, has_weak : BOOLEAN,
         pending_strong : BOOLEAN, pending_weak : BOOLEAN,
         async_buffer : 0..BufferLimit]
\* `index' tells apart the holds one buffer has on the same node.
Claim == [endpoint : Tokens, buffer : Buffers, index : Nat, node : 1..NodeLimit,
          handle : Nat, remote : BOOLEAN]
Death == [endpoint : Tokens \cup {0}, owner : Tokens \cup {0}, cookie : Nat,
          tid : Tids \cup {0}, clearing : BOOLEAN,
          state : {None, "armed", "queued", "delivered", "acknowledged", "clear_queued"}]

NoEndpoint == [used |-> FALSE, opened |-> FALSE, nonblocking |-> FALSE, pid |-> 0,
               mapping |-> None, arena |-> [b \in Buffers |-> "free"]]
NewThread == [looper |-> {}, incoming |-> 0, outgoing |-> 0, error |-> None,
              completions |-> 0, dead_reply |-> FALSE, initial_return |-> TRUE,
              active |-> FALSE]
NoDeath == [endpoint |-> 0, owner |-> 0, cookie |-> 0, tid |-> 0,
            clearing |-> FALSE, state |-> None]

\* artbox_binder_device_create and _set_memory.
Created ==
        [next_token |-> 1, next_node |-> 1, next_transaction |-> 1,
         endpoints |-> [e \in Tokens |-> NoEndpoint],
         threads |-> [e \in Tokens |-> <<>>],
         manager |-> 0, manager_node |-> 0, manager_uid |-> 0,
         transactions |-> {}, work |-> <<>>, references |-> <<>>,
         nodes |-> <<>>, claims |-> {}, deaths |-> [i \in Slots |-> NoDeath]]

----------------------------------------------------------------------------
(* Lookups.                                                                *)

\* Functions with a changing domain: threads of an endpoint by TID, nodes by
\* id, references by endpoint and node.
With(f, x, v) == [y \in DOMAIN f \cup {x} |-> IF y = x THEN v ELSE f[y]]
Without(f, S) == Restrict(f, DOMAIN f \ S)

endpoint_for(d, e) == e \in Tokens /\ d.endpoints[e].used
thread_for(d, e, t) == endpoint_for(d, e) /\ t \in DOMAIN d.threads[e]

\* The keys of the references of endpoint e that handle h names.
reference_for(d, e, h) == {k \in DOMAIN d.references :
                             k[1] = e /\ d.references[k].handle = h}
owned_node(d, e, pointer) == {n \in DOMAIN d.nodes :
   d.nodes[n].owner = e /\ d.nodes[n].pointer = pointer /\ ~d.nodes[n].dead}

\* The node a strong handle of endpoint e routes to, 0 if there is none.
StrongNode(d, e, h) ==
  LET K == {k \in reference_for(d, e, h) :
              d.references[k].strong > 0 \/ d.references[k].temporary_strong > 0}
  IN IF K = {} THEN 0 ELSE (CHOOSE k \in K : TRUE)[2]

\* What the process that opened endpoint e does in this instance.
Does(e, op) == dev.endpoints[e].used /\ op \in Enabled[dev.endpoints[e].pid]

Live(mapping) == mapping \in {"intact", "torn"}
SetThread(d, e, t, th) == [d EXCEPT !.threads[e] = With(@, t, th)]

----------------------------------------------------------------------------
(* Nodes, references and the holds of receive buffers.                     *)

\* A faulty count: an acquisition the owner has not acknowledged is not a use.
StrongUseUnpended(d, n) ==
  \/ d.nodes[n].manager /\ ~d.nodes[n].dead
  \/ \E k \in DOMAIN d.references : /\ k[2] = n
                                    /\ \/ d.references[k].strong > 0
                                       \/ d.references[k].temporary_strong > 0
  \/ \E c \in d.claims : c.node = n /\ ~c.remote

\* node_usage, the strong part.
StrongUse(d, n) ==
  LET node == d.nodes[n] IN
  \/ node.manager /\ ~node.dead
  \/ node.pending_strong
  \/ \E k \in DOMAIN d.references : /\ k[2] = n
                                    /\ \/ d.references[k].strong > 0
                                       \/ d.references[k].temporary_strong > 0
  \/ \E c \in d.claims : c.node = n /\ ~c.remote
\* node_usage, the weak part.
WeakUse(d, n) == \/ d.nodes[n].pending_weak
                 \/ \E k \in DOMAIN d.references : k[2] = n
                 \/ StrongUse(d, n)

\* collect_nodes: nodes nobody uses, and whose owner knows it, disappear.
collect_nodes(d) ==
  [d EXCEPT !.nodes = Restrict(@, {n \in DOMAIN @ :
     d.nodes[n].has_strong \/ d.nodes[n].has_weak \/ WeakUse(d, n)})]

create_node(d, e, pointer, cookie, t, manager) ==
  [d EXCEPT !.next_node = @ + 1,
            !.nodes = With(@, d.next_node,
     [owner |-> e, pointer |-> pointer, cookie |-> cookie, notification_tid |-> t,
      manager |-> manager, dead |-> FALSE, has_strong |-> manager,
      has_weak |-> manager, pending_strong |-> FALSE, pending_weak |-> FALSE,
      async_buffer |-> 0])]
NodeAvailable(d) == d.next_node <= NodeLimit /\ Cardinality(DOMAIN d.nodes) < PacketLimit

\* ensure_reference: the handle is the first free one, from 0 for the manager.
ReferenceAvailable(d, e, n) ==
  <<e, n>> \in DOMAIN d.references \/ Cardinality(DOMAIN d.references) < PacketLimit
ensure_reference(d, e, n) ==
  IF <<e, n>> \in DOMAIN d.references THEN d
  ELSE LET first == IF n = d.manager_node THEN 0 ELSE 1
           h == Min({i \in first..(first + PacketLimit) : reference_for(d, e, i) = {}})
       IN [d EXCEPT !.references = With(@, <<e, n>>,
             [owner |-> d.nodes[n].owner, handle |-> h, strong |-> 0, weak |-> 0,
              temporary_strong |-> 0, death |-> 0])]

\* A faulty drop: the death slot of a dropped reference stays behind.
DropReferencesOnly(d, K) == [d EXCEPT !.references = Without(@, K)]

\* drop_reference, for a set of references: their subscriptions go with them.
drop_references(d, K) ==
  [d EXCEPT !.references = Without(@, K),
            !.deaths = [i \in Slots |->
               IF \E k \in K : d.references[k].death = i THEN NoDeath ELSE @[i]]]

\* A faulty test: the holds of receive buffers do not keep a reference.
UnreferencedByCommands(d, K) == {k \in K \cap DOMAIN d.references :
   d.references[k].strong = 0 /\ d.references[k].weak = 0}

Unreferenced(d, K) == {k \in K \cap DOMAIN d.references :
   LET r == d.references[k] IN r.strong = 0 /\ r.weak = 0 /\ r.temporary_strong = 0}

\* release_claims, for a set of claims: a remote hold gives its temporary
\* reference back, and a reference nothing else counts on is dropped.
release_claims(d, C) ==
  LET Remote(k) == {c \in C : c.remote /\ <<c.endpoint, c.node>> = k
                              /\ d.references[k].handle = c.handle}
      K == {k \in DOMAIN d.references : Remote(k) # {}}
      refs == [k \in DOMAIN d.references |->
                 [d.references[k] EXCEPT
                    !.temporary_strong = Max({0, @ - Cardinality(Remote(k))})]]
      e == [d EXCEPT !.references = refs, !.claims = @ \ C]
  IN collect_nodes(drop_references(e, Unreferenced(e, K)))

ClaimsOf(d, e, b) == {c \in d.claims : c.endpoint = e /\ c.buffer = b}

\* add_claim, on a pair of a device and the error so far.
add_claim(s, e, b, index, n, remote) ==
  LET d == ensure_reference(s.dev, e, n) IN
  IF Cardinality(s.dev.claims) = ClaimLimit THEN [s EXCEPT !.error = "ENOMEM"]
  ELSE IF ~remote
  THEN [s EXCEPT !.dev.claims = @ \cup {[endpoint |-> e, buffer |-> b,
          index |-> index, node |-> n, handle |-> 0, remote |-> FALSE]}]
  ELSE IF ~ReferenceAvailable(s.dev, e, n)
          \/ d.references[<<e, n>>].temporary_strong = CountMax
  THEN [s EXCEPT !.error = "ENOMEM"]
  ELSE [s EXCEPT !.dev =
          [d EXCEPT !.references[<<e, n>>].temporary_strong = @ + 1,
                    !.claims = @ \cup {[endpoint |-> e, buffer |-> b,
                       index |-> index, node |-> n,
                       handle |-> d.references[<<e, n>>].handle, remote |-> TRUE]}]]

----------------------------------------------------------------------------
(* Tearing down threads and endpoints.                                     *)

\* A faulty drop: the buffers of the dropped packets stay reserved.
DropWorkOnly(d, I) == [d EXCEPT !.work = EraseAll(@, I)]

\* drop_work, for a set of positions of the work queue.
drop_work(d, I) ==
  LET Dropped == {d.work[i] : i \in I}
      Of(e, b) == \E w \in Dropped : w.endpoint = e /\ w.buffer = b
      e == [d EXCEPT
              !.work = EraseAll(@, I),
              !.endpoints = [x \in Tokens |-> [d.endpoints[x] EXCEPT !.arena =
                 [b \in Buffers |-> IF Of(x, b) THEN "free"
                                    ELSE d.endpoints[x].arena[b]]]]]
  IN release_claims(e, {c \in d.claims : Of(c.endpoint, c.buffer)})

\* A faulty cancellation: the calls a dying thread has received are forgotten.
CancelledAsSource(d, e, t) == {x \in d.transactions :
  \/ x.source = e /\ (t = 0 \/ x.source_tid = t)
  \/ x.target = e /\ t = 0}

\* A faulty cancellation: calls that wait in the queue are forgotten.
CancelledDelivered(d, e, t) == {x \in d.transactions :
  \/ x.source = e /\ (t = 0 \/ x.source_tid = t)
  \/ x.target = e /\ x.target_tid # 0 /\ (t = 0 \/ x.target_tid = t)}

Cancelled(d, e, t) == {x \in d.transactions :
  \/ x.source = e /\ (t = 0 \/ x.source_tid = t)
  \/ x.target = e /\ (t = 0 \/ x.target_tid = t)}

\* A faulty choice: a thread takes the process work down with it.
OwnWorkAndProcess(w, e, t) == w.endpoint = e /\ (t = 0 \/ w.tid \in {0, t})

\* The queued packets that die with the endpoint, or with its thread t # 0.
OwnWork(w, e, t) == w.endpoint = e /\ (t = 0 \/ w.tid = t)

\* cancel_transactions: every call the endpoint (or its thread t # 0) takes part
\* in ends, its caller with DEAD_REPLY; its queued work is dropped.
cancel_transactions(d, e, t) ==
  LET X == Cancelled(d, e, t)
      Ids == {x.id : x \in X}
      Ended(th) == [th EXCEPT
        !.outgoing = IF th.outgoing \in Ids THEN 0 ELSE th.outgoing,
        !.error = IF th.outgoing \in Ids THEN "DEAD_REPLY" ELSE th.error,
        !.incoming = IF th.incoming \in Ids THEN 0 ELSE th.incoming,
        !.dead_reply = th.dead_reply \/ th.incoming \in Ids]
      f == [d EXCEPT
              !.threads = [u \in Tokens |->
                 [y \in DOMAIN d.threads[u] |-> Ended(d.threads[u][y])]],
              !.transactions = @ \ X]
  IN drop_work(f, {i \in DOMAIN d.work :
                     \/ d.work[i].transaction \in Ids
                     \/ OwnWork(d.work[i], e, t)})

\* A death slot after endpoint e is gone.
Orphaned(death, e) ==
  IF death.endpoint = e THEN NoDeath
  ELSE IF death.owner = e /\ death.state = "armed" THEN [death EXCEPT !.state = "queued"]
  ELSE death

\* release_references: what endpoint e refers to, and what refers to its nodes.
release_references(d, e) ==
  LET f == drop_references(d, {k \in DOMAIN d.references : k[1] = e}) IN
  collect_nodes([f EXCEPT
    !.deaths = [i \in Slots |-> Orphaned(f.deaths[i], e)],
    !.nodes = [n \in DOMAIN f.nodes |->
       IF f.nodes[n].owner # e THEN f.nodes[n]
       ELSE [f.nodes[n] EXCEPT !.dead = TRUE, !.has_strong = FALSE, !.has_weak = FALSE,
                               !.pending_strong = FALSE, !.pending_weak = FALSE]]])

release_endpoint(d, e) ==
  LET f == release_references(cancel_transactions(d, e, 0), e)
      g == release_claims(f, {c \in f.claims : c.endpoint = e})
  IN [g EXCEPT !.endpoints[e] = NoEndpoint,
               !.threads[e] = <<>>,
               !.manager = IF g.manager = e THEN 0 ELSE @,
               !.manager_node = IF g.manager = e THEN 0 ELSE @]

\* The result of n steps from d, the first one with 1.
InTurn(Step(_, _), d, n) ==
  LET after[i \in 0..n] == IF i = 0 THEN d ELSE Step(after[i - 1], i)
  IN after[n]

GoneIn(d, e) == /\ d.endpoints[e].used /\ ~d.endpoints[e].opened
                /\ ~Live(d.endpoints[e].mapping)

\* reap_closed: endpoints that are closed and whose mapping is gone.
reap_closed(d) ==
  InTurn(LAMBDA f, e : IF GoneIn(f, e) THEN release_endpoint(f, e) ELSE f, d, TokenLimit)

----------------------------------------------------------------------------
(* Sending.                                                                *)

\* One object of a parcel, translated for the target: a BINDER of the sender
\* exports its node, a HANDLE must be a strong one of the sender.
Translate(s, e, t, target, b, index, object) ==
  IF s.error # "OK" THEN s
  ELSE IF object.kind = "BINDER"
  THEN LET N == owned_node(s.dev, e, object.pointer) IN
       IF N # {} /\ \E n \in N : s.dev.nodes[n].cookie # object.cookie
       THEN [s EXCEPT !.error = "EINVAL"]
       ELSE IF N = {} /\ ~NodeAvailable(s.dev) THEN [s EXCEPT !.error = "ENOMEM"]
       ELSE LET n == IF N = {} THEN s.dev.next_node ELSE CHOOSE m \in N : TRUE
                d == IF N = {}
                     THEN create_node(s.dev, e, object.pointer, object.cookie, t, FALSE)
                     ELSE s.dev
            IN add_claim([s EXCEPT !.dev = d], target, b, index, n, e # target)
  ELSE LET n == StrongNode(s.dev, e, object.handle) IN
       IF n = 0 THEN [s EXCEPT !.error = "EINVAL"]
       ELSE add_claim(s, target, b, index, n, s.dev.nodes[n].owner # target)

\* The objects of a parcel, one after the other.
Translated(s, e, t, target, b, parcel) ==
  InTurn(LAMBDA r, i : Translate(r, e, t, target, b, i, parcel[i]), s, Len(parcel))

FreeBuffers(d, e) == {b \in Buffers : d.endpoints[e].arena[b] = "free"}

\* reserve_payload: snapshot, validate, reserve, translate; a failure unwinds
\* every hold it took.  n is the target node, 0 for a reply.
reserve_payload(d, e, t, target, n, parcel) ==
  IF d.endpoints[target].mapping # "intact" THEN [dev |-> d, error |-> "EOPNOTSUPP"]
  ELSE IF \E i \in DOMAIN parcel : parcel[i].kind = "MALFORMED"
  THEN [dev |-> d, error |-> "EINVAL"]
  ELSE IF \E i \in DOMAIN parcel : parcel[i].kind = "FD"
  THEN [dev |-> d, error |-> "EOPNOTSUPP"]
  ELSE IF FreeBuffers(d, target) = {} THEN [dev |-> d, error |-> "ENOMEM"]
  ELSE LET b == Min(FreeBuffers(d, target))
           s0 == [dev |-> [d EXCEPT !.endpoints[target].arena[b] = "reserved"],
                  error |-> "OK"]
           s1 == IF n # 0 /\ ~d.nodes[n].manager
                 THEN add_claim(s0, target, b, 0, n, FALSE) ELSE s0
           s2 == Translated(s1, e, t, target, b, parcel)
       IN IF s2.error = "OK" THEN s2
          ELSE [s2 EXCEPT !.dev =
                  [release_claims(s2.dev, ClaimsOf(s2.dev, target, b)) EXCEPT
                     !.endpoints[target].arena[b] = "free"]]

Failed(d, e, t, error) == [d EXCEPT !.threads[e][t].error = error]

\* The part of transfer_packet after the target is known.  An ill-formed parcel
\* queues FAILED_REPLY; an admission limit fails the ioctl and changes nothing
\* but the node counter.
Queue(d, e, t, target, n, parcel, Commit(_, _)) ==
  LET s == reserve_payload(d, e, t, target, n, parcel) IN
  IF s.error = "EINVAL" THEN Failed(s.dev, e, t, "FAILED_REPLY")
  ELSE IF s.error # "OK" THEN s.dev
  ELSE [Commit(s.dev, Min(FreeBuffers(d, target))) EXCEPT
          !.threads[e][t].completions = @ + 1]

\* A faulty admission: the completions of the sender are not bounded.
FullQueue(d, e, t) == d.threads[e][t].error # None \/ Len(d.work) = PacketLimit

Full(d, e, t) == \/ d.threads[e][t].error # None
                 \/ d.threads[e][t].completions = PacketLimit
                 \/ Len(d.work) = PacketLimit

\* A one-way call: the first one of a node is its active one.
SendOneWay(d, n, b) ==
  [d EXCEPT !.nodes[n].async_buffer = IF @ = 0 THEN b ELSE @,
            !.work = Append(@, [endpoint |-> d.nodes[n].owner, tid |-> 0,
                                command |-> "TRANSACTION", transaction |-> 0,
                                async_node |-> n, buffer |-> b])]

\* A synchronous call.
SendCall(d, e, t, n, b) ==
  LET id == d.next_transaction IN
  [d EXCEPT !.next_transaction = @ + 1,
            !.transactions = @ \cup {[id |-> id, source |-> e, source_tid |-> t,
                                      target |-> d.nodes[n].owner, target_tid |-> 0]},
            !.threads[e][t].outgoing = id,
            !.work = Append(@, [endpoint |-> d.nodes[n].owner, tid |-> 0,
                                command |-> "TRANSACTION", transaction |-> id,
                                async_node |-> 0, buffer |-> b])]

\* BC_TRANSACTION.
transfer_packet(d, e, t, h, oneway, parcel) ==
  LET th == d.threads[e][t]
      n == IF h = 0 THEN d.manager_node ELSE StrongNode(d, e, h)
      target == d.nodes[n].owner
  IN IF Full(d, e, t) \/ (~oneway /\ (th.incoming # 0 \/ th.outgoing # 0)) THEN d
     ELSE IF h # 0 /\ n = 0 THEN Failed(d, e, t, "FAILED_REPLY")
     ELSE IF n = 0 \/ n \notin DOMAIN d.nodes THEN Failed(d, e, t, "DEAD_REPLY")
     ELSE IF d.nodes[n].dead \/ ~endpoint_for(d, target)
     THEN Failed(d, e, t, "DEAD_REPLY")
     ELSE IF target = e \/ (h = 0 /\ d.endpoints[target].pid = d.endpoints[e].pid)
     THEN Failed(d, e, t, "FAILED_REPLY")
     ELSE IF ~oneway /\ (\/ Cardinality(d.transactions) = PacketLimit
                         \/ d.next_transaction > TxnLimit) THEN d
     ELSE Queue(d, e, t, target, n, parcel, LAMBDA f, b :
            IF oneway THEN SendOneWay(f, n, b) ELSE SendCall(f, e, t, n, b))

\* The reply of thread t of endpoint e to call x: both threads are free of it.
SendReply(d, e, t, x, b) ==
  LET f == [d EXCEPT !.threads[e][t].incoming = 0] IN
  [f EXCEPT !.threads[x.source][x.source_tid].outgoing = 0,
            !.transactions = @ \ {x},
            !.work = Append(@, [endpoint |-> x.source, tid |-> x.source_tid,
                                command |-> "REPLY", transaction |-> 0,
                                async_node |-> 0, buffer |-> b])]

\* BC_REPLY, to the thread whose call this one received.
reply_packet(d, e, t, parcel) ==
  LET th == d.threads[e][t]
      X == {x \in d.transactions : x.id = th.incoming}
      x == CHOOSE y \in X : TRUE
  IN IF Full(d, e, t) THEN d
     ELSE IF th.dead_reply
     THEN Failed([d EXCEPT !.threads[e][t].dead_reply = FALSE], e, t, "DEAD_REPLY")
     ELSE IF X = {} \/ th.outgoing # 0 THEN d
     ELSE IF ~thread_for(d, x.source, x.source_tid) THEN d
     ELSE IF d.threads[x.source][x.source_tid].outgoing # x.id THEN d
     ELSE Queue(d, e, t, x.source, 0, parcel, LAMBDA f, b : SendReply(f, e, t, x, b))

\* A faulty free: the node's next one-way call is not made active.
NextAsyncNever(d, n) == 0

\* The buffer of the first one-way call still queued for node n, 0 if none.
NextAsync(d, n) ==
  LET I == {i \in DOMAIN d.work : d.work[i].async_node = n}
  IN IF I = {} THEN 0 ELSE d.work[Min(I)].buffer

\* BC_FREE_BUFFER: only a delivered buffer can be released; a one-way call that
\* held its node's active buffer lets the next one through.
free_packet(d, e, b) ==
  IF d.endpoints[e].arena[b] # "delivered" THEN d
  ELSE LET f == [d EXCEPT
                   !.endpoints[e].arena[b] = "free",
                   !.nodes = [n \in DOMAIN d.nodes |->
                      IF d.nodes[n].owner = e /\ d.nodes[n].async_buffer = b
                      THEN [d.nodes[n] EXCEPT !.async_buffer = NextAsync(d, n)]
                      ELSE d.nodes[n]]]
       IN release_claims(f, ClaimsOf(f, e, b))

----------------------------------------------------------------------------
(* The other write commands.                                               *)

looper_command(d, e, t, command) ==
  [d EXCEPT !.threads[e][t].looper =
     CASE command = "ENTER" ->
            @ \cup {"entered"} \cup (IF "registered" \in @ THEN {"invalid"} ELSE {})
       [] command = "REGISTER" -> @ \cup {"registered", "invalid"}
       [] command = "EXIT" -> @ \cup {"exited"}]

\* BC_INCREFS, BC_ACQUIRE, BC_RELEASE and BC_DECREFS on handle h.  Incrementing
\* handle 0 takes a reference to the current manager.
reference_command(d, e, h, strong, increment) ==
  LET manager == increment /\ h = 0 /\ d.manager # 0
      f == IF manager /\ d.manager # e /\ ReferenceAvailable(d, e, d.manager_node)
           THEN ensure_reference(d, e, d.manager_node) ELSE d
      K == IF manager THEN {<<e, d.manager_node>>} ELSE reference_for(f, e, h)
      k == CHOOSE x \in K : TRUE
      Bumped(c) == IF increment THEN c + 1 ELSE Max({0, c - 1})
      r == f.references[k]
      g == [f EXCEPT !.references[k] =
              IF strong THEN [r EXCEPT !.strong = Bumped(r.strong)]
              ELSE [r EXCEPT !.weak = Bumped(r.weak)]]
  IN IF K = {} \/ k \notin DOMAIN f.references THEN d
     ELSE IF increment /\ (IF strong THEN r.strong ELSE r.weak) = CountMax THEN f
     ELSE collect_nodes(drop_references(g, Unreferenced(g, {k})))

\* BC_INCREFS_DONE and BC_ACQUIRE_DONE.
node_done_command(d, e, pointer, cookie, strong) ==
  LET N == {n \in owned_node(d, e, pointer) : d.nodes[n].cookie = cookie}
      n == CHOOSE m \in N : TRUE
      f == [d EXCEPT !.nodes[n].pending_strong = @ /\ ~strong,
                     !.nodes[n].pending_weak = @ /\ strong]
      node == f.nodes[n]
      settled == /\ ~node.pending_strong /\ ~node.pending_weak
                 /\ ~(StrongUse(f, n) /\ ~node.has_strong)
                 /\ ~(WeakUse(f, n) /\ ~node.has_weak)
  IN IF N = {} THEN d
     ELSE collect_nodes([f EXCEPT !.nodes[n].notification_tid = IF settled THEN 0 ELSE @])

queue_clear(d, i, e, t) ==
  [d EXCEPT !.deaths[i].state = "clear_queued",
            !.deaths[i].tid =
              IF d.threads[e][t].looper \cap {"entered", "registered"} # {} THEN t ELSE 0]

\* BC_REQUEST_DEATH_NOTIFICATION.
request_death(d, e, h, cookie) ==
  LET K == reference_for(d, e, h)
      k == CHOOSE x \in K : TRUE
      I == {i \in Slots : d.deaths[i].endpoint = 0}
      owner == d.references[k].owner
  IN IF K = {} \/ I = {} THEN d
     ELSE IF d.references[k].death # 0 THEN d
     ELSE [d EXCEPT !.references[k].death = Min(I),
                    !.deaths[Min(I)] = [endpoint |-> e, owner |-> owner,
                       cookie |-> cookie, tid |-> 0, clearing |-> FALSE,
                       state |-> IF endpoint_for(d, owner) THEN "armed" ELSE "queued"]]

\* A faulty clear: completes at once whatever the state of the notification.
ClearableAlways(state) == TRUE

\* The states in which a cleared subscription completes at once; a queued or
\* delivered death is acknowledged first.
Clearable(state) == state \in {"armed", "acknowledged"}

\* BC_CLEAR_DEATH_NOTIFICATION.
clear_death(d, e, t, h, cookie) ==
  LET K == {k \in reference_for(d, e, h) : d.references[k].death # 0}
      k == CHOOSE x \in K : TRUE
      i == d.references[k].death
      f == [d EXCEPT !.references[k].death = 0, !.deaths[i].clearing = TRUE]
  IN IF K = {} THEN d
     ELSE IF d.deaths[i].cookie # cookie THEN d
     ELSE IF Clearable(d.deaths[i].state) THEN queue_clear(f, i, e, t) ELSE f

\* BC_DEAD_BINDER_DONE.
death_done(d, e, t, cookie) ==
  LET I == {i \in Slots : /\ d.deaths[i].endpoint = e /\ d.deaths[i].cookie = cookie
                          /\ d.deaths[i].state = "delivered"}
  IN IF I = {} THEN d
     ELSE IF d.deaths[Min(I)].clearing THEN queue_clear(d, Min(I), e, t)
     ELSE [d EXCEPT !.deaths[Min(I)].state = "acknowledged"]

----------------------------------------------------------------------------
(* Reading.                                                                *)

accepts_process_work(th, polling) ==
  /\ th.incoming = 0 /\ th.outgoing = 0 /\ ~th.dead_reply
  /\ polling \/ ("entered" \in th.looper /\ th.looper \cap {"invalid", "exited"} = {})

Addressed(tid, t, th, polling) ==
  tid = t \/ (tid = 0 /\ accepts_process_work(th, polling))

\* work_for: the positions a read may return; it returns the first one.
work_for(d, e, t, polling) ==
  {i \in DOMAIN d.work :
     LET w == d.work[i] IN
     /\ w.async_node # 0 => /\ w.async_node \in DOMAIN d.nodes
                            /\ d.nodes[w.async_node].async_buffer = w.buffer
     /\ w.endpoint = e /\ Addressed(w.tid, t, d.threads[e][t], polling)}

death_for(d, e, t, polling) ==
  {i \in Slots : /\ d.deaths[i].endpoint = e
                 /\ d.deaths[i].state \in {"queued", "clear_queued"}
                 /\ Addressed(d.deaths[i].tid, t, d.threads[e][t], polling)}

\* node_command: the callback the owner of node n is due.
node_command(d, n) ==
  LET node == d.nodes[n] IN
  IF WeakUse(d, n) /\ ~node.has_weak THEN "INCREFS"
  ELSE IF StrongUse(d, n) /\ ~node.has_strong THEN "ACQUIRE"
  ELSE IF ~StrongUse(d, n) /\ node.has_strong THEN "RELEASE"
  ELSE IF ~WeakUse(d, n) /\ node.has_weak THEN "DECREFS" ELSE None

\* node_event_for: the nodes with a callback for this thread; which of them
\* comes first depends on the slots they were given.
node_event_for(d, e, t, polling) ==
  {n \in DOMAIN d.nodes :
     LET node == d.nodes[n] IN
     /\ node.owner = e /\ ~node.dead /\ ~node.manager
     /\ Addressed(node.notification_tid, t, d.threads[e][t], polling)
     /\ node_command(d, n) # None}

read_ready(d, e, t, polling) ==
  LET th == d.threads[e][t] IN
  \/ th.initial_return \/ th.error # None \/ th.completions > 0
  \/ work_for(d, e, t, polling) # {} \/ death_for(d, e, t, polling) # {}
  \/ node_event_for(d, e, t, polling) # {}

\* A node whose owner was told a command; what it acquires is pending.
Called(node, command) ==
  [node EXCEPT
     !.has_weak = (node.has_weak \/ command = "INCREFS") /\ command # "DECREFS",
     !.pending_weak = node.pending_weak \/ command = "INCREFS",
     !.has_strong = (node.has_strong \/ command = "ACQUIRE") /\ command # "RELEASE",
     !.pending_strong = node.pending_strong \/ command = "ACQUIRE"]

\* The effect of returning a callback to the owner of node n.
TakeNodeEvent(d, n) ==
  collect_nodes([d EXCEPT !.nodes[n] = Called(d.nodes[n], node_command(d, n))])

\* The effect of returning the work at position i: its buffer is published, and
\* a call becomes the thread's incoming one.
TakeWork(d, e, t, i) ==
  LET w == d.work[i] IN
  [d EXCEPT
     !.endpoints[e].arena[w.buffer] = "delivered",
     !.transactions = {IF x.id = w.transaction THEN [x EXCEPT !.target_tid = t]
                       ELSE x : x \in @},
     !.threads[e][t].incoming = IF w.transaction # 0 THEN w.transaction ELSE @,
     !.work = Erase(@, i)]

TakeDeath(d, i) ==
  [d EXCEPT !.deaths[i] =
     IF d.deaths[i].state = "clear_queued" THEN NoDeath
     ELSE [d.deaths[i] EXCEPT !.state = "delivered"]]

\* read_work, one item: error, node callback, completion, work, death, in that
\* order; a new thread's first read may return nothing.
read_work(d, e, t) ==
  LET th == d.threads[e][t]
      N == node_event_for(d, e, t, FALSE)
      W == work_for(d, e, t, FALSE)
      D == death_for(d, e, t, FALSE)
  IN IF th.error # None THEN {[d EXCEPT !.threads[e][t].error = None]}
     ELSE IF N # {} THEN {TakeNodeEvent(d, n) : n \in N}
     ELSE IF th.completions > 0 THEN {[d EXCEPT !.threads[e][t].completions = @ - 1]}
     ELSE IF W # {} THEN {TakeWork(d, e, t, Min(W))}
     ELSE IF D # {} THEN {TakeDeath(d, Min(D))} ELSE {d}

----------------------------------------------------------------------------
(* Entry points: each one reaps the endpoints that are gone first.         *)

open(d, p) ==
  [d EXCEPT !.next_token = @ + 1,
            !.endpoints[d.next_token] = [NoEndpoint EXCEPT
               !.used = TRUE, !.opened = TRUE, !.pid = p]]
Open(p) ==
  LET d == reap_closed(dev) IN
  /\ "open" \in Enabled[p] /\ d.next_token <= TokenLimit
  /\ Cardinality({e \in Tokens : d.endpoints[e].used}) < EndpointLimit
  /\ dev' = open(d, p)

\* artbox_binder_device_close: refused while a call is inside the endpoint.
Close(e) ==
  /\ Does(e, "close") /\ dev.endpoints[e].opened
  /\ \A t \in DOMAIN dev.threads[e] : ~dev.threads[e][t].active
  /\ dev' = reap_closed([dev EXCEPT !.endpoints[e].opened = FALSE])

set_nonblocking(e, enabled) ==
  /\ Does(e, "nonblocking") /\ dev.endpoints[e].opened
  /\ dev' = [dev EXCEPT !.endpoints[e].nonblocking = enabled]

\* mapped_once: an endpoint is mapped at most once in its life.
mmap(d, e) == [d EXCEPT !.endpoints[e].mapping = "intact"]
Mmap(e) ==
  LET d == reap_closed(dev) IN
  /\ d.endpoints[e].opened /\ d.endpoints[e].mapping = None
  /\ dev' = mmap(d, e)

\* The guest unmaps part or all of the receive mapping: the passive watch
\* changes, the device is not called.
Unmap(e, part) ==
  /\ Does(e, part) /\ Live(dev.endpoints[e].mapping)
  /\ dev.endpoints[e].mapping = "intact" \/ part = "gone"
  /\ dev' = [dev EXCEPT !.endpoints[e].mapping = part]

\* A call that is refused (bad token, busy thread, no slot, a host error while
\* reaping) has reaped all the same.
Refused == /\ reap_closed(dev) # dev
           /\ dev' = reap_closed(dev)

\* An ioctl on endpoint e by thread t: reap, admit the thread, run Body on the
\* device, and leave.
admit_thread(d, e, t) ==
  IF t \in DOMAIN d.threads[e] THEN d ELSE SetThread(d, e, t, NewThread)
CanEnter(d, e, t) ==
  /\ d.endpoints[e].opened /\ t \in Threads[d.endpoints[e].pid]
  /\ t \in DOMAIN d.threads[e] \/ Cardinality(DOMAIN d.threads[e]) < ThreadLimit
  /\ t \in DOMAIN d.threads[e] => ~d.threads[e][t].active
Leave(d, e, t) == [d EXCEPT !.threads[e][t].initial_return = FALSE,
                            !.threads[e][t].active = FALSE]
Ioctl(e, t, op, Body(_)) ==
  LET d == reap_closed(dev) IN
  /\ Does(e, op) /\ CanEnter(d, e, t)
  /\ dev' = Leave(Body(admit_thread(d, e, t)), e, t)

\* One command of the write half of BINDER_WRITE_READ; a thread with an error to
\* read executes none.
Write(e, t, op, Body(_)) ==
  Ioctl(e, t, op, LAMBDA d : IF d.threads[e][t].error # None THEN d ELSE Body(d))

\* A faulty registration: an existing manager is replaced.
ReplaceManager(d, e, pointer, cookie) ==
  IF \/ d.manager_uid \notin {0, Uid[d.endpoints[e].pid]}
     \/ owned_node(d, e, pointer) # {} \/ ~NodeAvailable(d) THEN d
  ELSE [create_node(d, e, pointer, cookie, 0, TRUE) EXCEPT
          !.manager = e, !.manager_node = d.next_node,
          !.manager_uid = Uid[d.endpoints[e].pid]]

\* BINDER_SET_CONTEXT_MGR_EXT; BINDER_SET_CONTEXT_MGR passes a zero object.
set_context_manager(d, e, pointer, cookie) ==
  IF \/ d.manager # 0
     \/ d.manager_uid \notin {0, Uid[d.endpoints[e].pid]}
     \/ owned_node(d, e, pointer) # {} \/ ~NodeAvailable(d) THEN d
  ELSE [create_node(d, e, pointer, cookie, 0, TRUE) EXCEPT
          !.manager = e, !.manager_node = d.next_node,
          !.manager_uid = Uid[d.endpoints[e].pid]]
SetContextManager(e, t, pointer, cookie) ==
  Ioctl(e, t, "manager", LAMBDA d : set_context_manager(d, e, pointer, cookie))

\* BINDER_THREAD_EXIT.
ThreadExit(e, t) ==
  LET d == reap_closed(dev)
      f == cancel_transactions(admit_thread(d, e, t), e, t)
  IN /\ Does(e, "thread_exit") /\ CanEnter(d, e, t)
     /\ dev' = [f EXCEPT
          !.nodes = [n \in DOMAIN f.nodes |->
             IF f.nodes[n].owner = e /\ f.nodes[n].notification_tid = t
             THEN [f.nodes[n] EXCEPT !.notification_tid = 0] ELSE f.nodes[n]],
          !.deaths = [i \in Slots |->
             IF f.deaths[i].endpoint = e /\ f.deaths[i].tid = t THEN NoDeath
             ELSE f.deaths[i]],
          !.threads[e] = Without(@, {t})]

LooperCommand(e, t, c) == Write(e, t, c, LAMBDA d : looper_command(d, e, t, c))
Call(e, t, h, parcel) ==
  Write(e, t, "call", LAMBDA d : transfer_packet(d, e, t, h, FALSE, parcel))
OneWay(e, t, h, parcel) ==
  Write(e, t, "oneway", LAMBDA d : transfer_packet(d, e, t, h, TRUE, parcel))
Reply(e, t, parcel) == Write(e, t, "reply", LAMBDA d : reply_packet(d, e, t, parcel))
FreeBuffer(e, t, b) == Write(e, t, "free", LAMBDA d : free_packet(d, e, b))
ReferenceCommand(e, t, h, strong, increment) ==
  Write(e, t, "reference", LAMBDA d : reference_command(d, e, h, strong, increment))
NodeDone(e, t, pointer, cookie, strong) ==
  Write(e, t, "done", LAMBDA d : node_done_command(d, e, pointer, cookie, strong))
RequestDeath(e, t, h, cookie) ==
  Write(e, t, "death", LAMBDA d : request_death(d, e, h, cookie))
ClearDeath(e, t, h, cookie) ==
  Write(e, t, "death", LAMBDA d : clear_death(d, e, t, h, cookie))
DeathDone(e, t, cookie) == Write(e, t, "death", LAMBDA d : death_done(d, e, t, cookie))

\* A read returns an item if there is one and the buffer has room for it, and
\* nothing on a thread's first ioctl, in nonblocking mode or when a signal was
\* taken since the ioctl began.
Read(e, t) ==
  LET d == reap_closed(dev)
      f == admit_thread(d, e, t)
      ready == read_ready(f, e, t, FALSE)
  IN /\ CanEnter(d, e, t)
     /\ \/ ready /\ \E g \in read_work(f, e, t) : dev' = Leave(g, e, t)
        \/ /\ ready \/ d.endpoints[e].nonblocking \/ Does(e, "interrupt")
           /\ dev' = Leave(f, e, t)

\* read_wait: an empty blocking read releases the mutex.
Sleep(e, t) ==
  LET d == reap_closed(dev) IN
  /\ CanEnter(d, e, t) /\ ~d.endpoints[e].nonblocking
  /\ t \in DOMAIN d.threads[e] /\ ~read_ready(d, e, t, FALSE)
  /\ dev' = [d EXCEPT !.threads[e][t].active = TRUE]

Sleeping(e, t) == t \in DOMAIN dev.threads[e] /\ dev.threads[e][t].active

\* The wait ends, on a notification or after 5 ms: reap, look again, return
\* what there is or go back to sleep.
Poll(e, t) ==
  LET d == reap_closed(dev) IN
  /\ Sleeping(e, t)
  /\ IF read_ready(d, e, t, FALSE)
     THEN \E g \in read_work(d, e, t) : dev' = Leave(g, e, t)
     ELSE dev' = d

\* A signal was taken by the sleeping thread: EINTR.
Interrupted(e, t) ==
  /\ Does(e, "interrupt") /\ Sleeping(e, t)
  /\ dev' = Leave(reap_closed(dev), e, t)

\* artbox_binder_device_events: admits the thread, consumes nothing.  It also
\* observes an endpoint that was closed while it is mapped.
Events(e, t) ==
  LET d == reap_closed(dev) IN
  /\ Does(e, "events") /\ endpoint_for(d, e)
  /\ t \in Threads[d.endpoints[e].pid]
  /\ Cardinality(DOMAIN d.threads[e]) < ThreadLimit
  /\ dev' = admit_thread(d, e, t)

Init == dev = Created

ThreadStep(e, t) ==
  \/ ThreadExit(e, t) \/ Read(e, t) \/ Sleep(e, t) \/ Poll(e, t)
  \/ Interrupted(e, t) \/ Events(e, t)
  \/ \E c \in {"ENTER", "REGISTER", "EXIT"} : LooperCommand(e, t, c)
  \/ \E b \in Buffers : FreeBuffer(e, t, b)
  \/ \E parcel \in Parcels :
       \/ Reply(e, t, parcel)
       \/ \E h \in Handles : Call(e, t, h, parcel) \/ OneWay(e, t, h, parcel)
  \/ \E h \in Handles, strong, increment \in BOOLEAN :
       ReferenceCommand(e, t, h, strong, increment)
  \/ \E c \in Cookies :
       \/ DeathDone(e, t, c)
       \/ \E h \in Handles : RequestDeath(e, t, h, c) \/ ClearDeath(e, t, h, c)
       \/ \E p \in Pointers :
            \/ SetContextManager(e, t, p, c)
            \/ \E strong \in BOOLEAN : NodeDone(e, t, p, c, strong)

Next ==
  \/ \E p \in Procs : Open(p)
  \/ Refused
  \/ \E e \in Tokens :
       \/ Close(e) \/ Mmap(e)
       \/ \E part \in {"torn", "gone"} : Unmap(e, part)
       \/ \E enabled \in BOOLEAN : set_nonblocking(e, enabled)
       \/ \E t \in Tids : ThreadStep(e, t)

Spec == Init /\ [][Next]_dev

\* A reader that sleeps wakes at least every 5 ms; nothing else is promised.
\* This is WF_dev(Poll(e, t)) with ENABLED <<Poll(e, t)>>_dev written out.
PollMatters(e, t) ==
  LET d == reap_closed(dev) IN
  Sleeping(e, t) /\ (d # dev \/ read_ready(d, e, t, FALSE))
Fairness == \A e \in Tokens, t \in Tids :
  []<>~PollMatters(e, t) \/ []<><<Poll(e, t)>>_dev

----------------------------------------------------------------------------
(* Properties.                                                             *)

\* Every component of the device has the type its C++ declaration gives it.
TypeOK ==
  /\ DOMAIN dev = DOMAIN Created
  /\ dev.next_token \in Nat /\ dev.next_node \in Nat /\ dev.next_transaction \in Nat
  /\ \A e \in Tokens :
       /\ dev.endpoints[e] \in Endpoint
       /\ DOMAIN dev.threads[e] \subseteq Tids
       /\ \A t \in DOMAIN dev.threads[e] : dev.threads[e][t] \in Thread
       /\ Cardinality(DOMAIN dev.threads[e]) <= ThreadLimit
  /\ dev.manager \in Tokens \cup {0} /\ dev.manager_node \in 0..NodeLimit
  /\ dev.transactions \subseteq Transaction
  /\ Len(dev.work) <= PacketLimit /\ \A i \in DOMAIN dev.work : dev.work[i] \in Work
  /\ Cardinality(DOMAIN dev.references) <= PacketLimit
  /\ \A k \in DOMAIN dev.references : dev.references[k] \in Reference
  /\ \A n \in DOMAIN dev.nodes : n < dev.next_node /\ dev.nodes[n] \in Node
  /\ dev.claims \subseteq Claim /\ Cardinality(dev.claims) <= ClaimLimit
  /\ \A i \in Slots : dev.deaths[i] \in Death

QueuedFor(id) == {i \in DOMAIN dev.work : dev.work[i].transaction = id}
Callers(id) == {z \in Tokens \X Tids : /\ thread_for(dev, z[1], z[2])
                                       /\ dev.threads[z[1]][z[2]].outgoing = id}

\* cancel_transactions: "Reaping a process or thread must not strand its peer's
\* synchronous wait".  A caller waits for a call exactly as long as the call is
\* either queued for an endpoint that exists or being served by one thread that
\* knows it; a thread never serves and calls at once.  read_wait keeps a reference to
\* its endpoint across the unlocked wait: the endpoint stays open until it returns.
CallsPaired ==
  /\ \A x \in dev.transactions :
       /\ Callers(x.id) = {<<x.source, x.source_tid>>}
       /\ endpoint_for(dev, x.target) /\ x.source # x.target
       /\ IF x.target_tid = 0
          THEN /\ Cardinality(QueuedFor(x.id)) = 1
               /\ \A i \in QueuedFor(x.id) : dev.work[i].endpoint = x.target
          ELSE /\ QueuedFor(x.id) = {}
               /\ thread_for(dev, x.target, x.target_tid)
               /\ dev.threads[x.target][x.target_tid].incoming = x.id
  /\ \A e \in Tokens : \A t \in DOMAIN dev.threads[e] :
       LET th == dev.threads[e][t] IN
       /\ th.active => dev.endpoints[e].opened
       /\ th.incoming = 0 \/ (th.outgoing = 0 /\ ~th.dead_reply)
       /\ \A id \in {th.incoming, th.outgoing} \ {0} :
            \E x \in dev.transactions :
              /\ x.id = id
              /\ id = th.incoming => x.target = e /\ x.target_tid = t
  /\ \A i \in DOMAIN dev.work : dev.work[i].transaction # 0 =>
       \E x \in dev.transactions : x.id = dev.work[i].transaction

\* The arena and the work queue agree: a buffer is reserved exactly while one
\* queued packet will publish it, packets are queued for endpoints that exist,
\* and a reply is queued for a thread that exists.
BuffersOwned ==
  /\ \A e \in Tokens, b \in Buffers :
       Cardinality({i \in DOMAIN dev.work :
                      dev.work[i].endpoint = e /\ dev.work[i].buffer = b})
         = IF dev.endpoints[e].arena[b] = "reserved" THEN 1 ELSE 0
  /\ \A i \in DOMAIN dev.work :
       LET w == dev.work[i] IN
       /\ endpoint_for(dev, w.endpoint)
       /\ w.tid # 0 => thread_for(dev, w.endpoint, w.tid)

\* The temporary strong count of an imported reference is the number of holds
\* that receive buffers of its endpoint have on the node, its handle names no
\* other node, and what a hold, or a queued one-way call names is still there.
ClaimsCounted ==
  /\ \A k \in DOMAIN dev.references :
       /\ dev.references[k].temporary_strong =
            Cardinality({c \in dev.claims : /\ c.remote /\ c.endpoint = k[1]
                                            /\ c.node = k[2]})
       /\ Unreferenced(dev, {k}) = {}
       /\ k[2] \in DOMAIN dev.nodes /\ endpoint_for(dev, k[1])
       /\ dev.references[k].owner = dev.nodes[k[2]].owner /\ k[1] # dev.nodes[k[2]].owner
       /\ reference_for(dev, k[1], dev.references[k].handle) = {k}
  /\ \A c \in dev.claims :
       /\ c.node \in DOMAIN dev.nodes
       /\ dev.endpoints[c.endpoint].arena[c.buffer] # "free"
       /\ c.remote => /\ <<c.endpoint, c.node>> \in DOMAIN dev.references
                      /\ dev.references[<<c.endpoint, c.node>>].handle = c.handle
  /\ \A i \in DOMAIN dev.work : dev.work[i].async_node \in DOMAIN dev.nodes \cup {0}

\* The callbacks of a node's owner: no RELEASE or DECREFS while the matching
\* acquisition is unacknowledged, a strong reference only on top of a weak one,
\* and a node dies exactly with its endpoint.
OwnerCallbacks ==
  \A n \in DOMAIN dev.nodes :
    LET node == dev.nodes[n] IN
    /\ node.pending_strong => node.has_strong
    /\ node.pending_weak => node.has_weak
    /\ node.has_strong => node.has_weak
    /\ node.dead <=> ~endpoint_for(dev, node.owner)
    /\ ~node.dead => \A m \in DOMAIN dev.nodes \ {n} :
         ~(dev.nodes[m].owner = node.owner /\ dev.nodes[m].pointer = node.pointer)

Delivered(e, b) == dev.endpoints[e].arena[b] = "delivered"

\* One-way calls of a node are dispatched one at a time: as long as calls are
\* queued, the node's active buffer is the first queued call's or belongs to a
\* call whose receiver has not freed it, so the queue neither stalls nor runs
\* ahead.
OneWayInTurn ==
  \A n \in DOMAIN dev.nodes :
    LET node == dev.nodes[n]
        Q == {i \in DOMAIN dev.work : dev.work[i].async_node = n}
    IN /\ Q # {} =>
            \/ node.async_buffer = dev.work[Min(Q)].buffer
            \/ node.async_buffer # 0 /\ Delivered(node.owner, node.async_buffer)
       /\ node.async_buffer # 0 /\ ~node.dead =>
            dev.endpoints[node.owner].arena[node.async_buffer] # "free"

\* "Sender/thread teardown cannot cancel an accepted one-way parcel": a queued
\* one-way call leaves the queue only by delivery or with its target.
OneWayKept ==
  [][\A i \in DOMAIN dev.work :
       LET w == dev.work[i] IN
       w.async_node # 0 => \/ w \in Range(dev'.work)
                           \/ dev'.endpoints[w.endpoint].arena[w.buffer] = "delivered"
                           \/ ~dev'.endpoints[w.endpoint].used]_dev

\* Death subscriptions: a reference's slot is its endpoint's, is watching the
\* reference's owner, and is shared with no other reference; a slot is armed
\* exactly as long as its owner lives; an unattached slot is being cleared.
DeathSlots ==
  /\ \A k \in DOMAIN dev.references :
       LET i == dev.references[k].death IN
       i # 0 => /\ dev.deaths[i].endpoint = k[1] /\ ~dev.deaths[i].clearing
                /\ dev.deaths[i].owner = dev.references[k].owner
                /\ \A j \in DOMAIN dev.references \ {k} : dev.references[j].death # i
  /\ \A i \in Slots :
       LET death == dev.deaths[i] IN
       death.endpoint # 0 =>
         /\ endpoint_for(dev, death.endpoint)
         /\ death.clearing <=> \A k \in DOMAIN dev.references : dev.references[k].death # i
         /\ death.state = "armed" <=> endpoint_for(dev, death.owner)
                                      /\ death.state # "clear_queued"
         /\ death.state = "clear_queued" => death.clearing
         /\ death.tid # 0 => thread_for(dev, death.endpoint, death.tid)

\* A death is reported at most once, and a subscription that is being cleared
\* completes only after a death it has reported was acknowledged with
\* BC_DEAD_BINDER_DONE.  A slot that reaping empties and that is taken again in
\* the same step is another subscription.
ClearAfterDone ==
  [][\A i \in Slots :
       LET before == dev.deaths[i]
           after == dev'.deaths[i]
       IN /\ before.endpoint # 0 /\ after.endpoint = before.endpoint
          /\ reap_closed(dev).deaths[i].endpoint # 0
          => /\ before.state = "delivered" /\ after.state = "clear_queued"
                  => before.clearing
             /\ before.state \in {"delivered", "acknowledged"}
                  => after.state \notin {"armed", "queued"}
             /\ before.state = "queued" => after.state \in {"queued", "delivered"}]_dev

\* At most one live context manager: its endpoint exists, its node is there, its
\* user is the one recorded for good, and the node of every earlier manager is
\* dead, so handle 0 can only be routed to the current one.
OneManager ==
  /\ dev.manager = 0 <=> dev.manager_node = 0
  /\ dev.manager # 0 =>
       /\ endpoint_for(dev, dev.manager) /\ dev.manager_node \in DOMAIN dev.nodes
       /\ dev.nodes[dev.manager_node].owner = dev.manager
       /\ dev.manager_uid = Uid[dev.endpoints[dev.manager].pid]
  /\ \A n \in DOMAIN dev.nodes :
       dev.nodes[n].manager /\ ~dev.nodes[n].dead => n = dev.manager_node

Gone(e) == /\ dev.endpoints[e].used /\ ~dev.endpoints[e].opened
           /\ ~Live(dev.endpoints[e].mapping)

\* Unmapping only changes a passive watch that no one is notified of.  A caller
\* asleep in a read learns all the same that its call's target is gone.
CallerLearns ==
  \A e \in Tokens, t \in Tids :
    /\ Sleeping(e, t)
    /\ \E x \in dev.transactions :
         x.source = e /\ x.source_tid = t /\ Gone(x.target)
    ~> ~Sleeping(e, t)

PoolAsleep(e) == \E t \in DOMAIN dev.threads[e] :
  dev.threads[e][t].active /\ accepts_process_work(dev.threads[e][t], FALSE)

\* As long as pool threads of a subscriber sleep in reads, one of them learns
\* that the owner of an object with a death notification is gone.
SubscriberLearns ==
  \A i \in Slots :
    /\ dev.deaths[i].state = "armed" /\ Gone(dev.deaths[i].owner)
    /\ PoolAsleep(dev.deaths[i].endpoint)
    ~> \/ dev.deaths[i].state \notin {"armed", "queued"}
       \/ ~PoolAsleep(dev.deaths[i].endpoint)

\* Nobody sleeps on a peer that is gone.
PeersLearn == CallerLearns /\ SubscriberLearns
=============================================================================
