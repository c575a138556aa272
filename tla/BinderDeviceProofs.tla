------------------------- MODULE BinderDeviceProofs -------------------------
(* The invariants of the Binder device, for every set of processes, threads, *)
(* pointers, parcels and every limit.                                        *)
(*                                                                           *)
(* Sound(d, x) is the invariant.  Its parts relate the tables of a device;   *)
(* x is the endpoint that is being released, whose nodes are dead while it   *)
(* is still there, or 0 between the calls.  An operation that leaves what    *)
(* Sound speaks of alone is shown to satisfy Keeps(d, f), and KeepsSound     *)
(* does the rest.  The lemmas follow the code: updates of one table, the     *)
(* helpers, release and reaping, parcels, calls and replies, buffers,        *)
(* reading, entering and leaving, the commands; then one lemma per action.   *)
(* Subscribed(d, x) is what references and death slots know of each other;   *)
(* the last section shows that what makes no subscription satisfies          *)
(* LinksStay(d, f), which keeps it.                                          *)
EXTENDS BinderDevice, FiniteSetTheorems, TLAPS

-----------------------------------------------------------------------------
(* Facts about the operations of Vectors.                                    *)

\* Every nonempty set of naturals has a least member.
LEMMA LeastNatural ==
  ASSUME NEW S \in SUBSET Nat, S # {}
  PROVE \E m \in S : \A n \in S : m <= n
<1> DEFINE below == {1..n : n \in S}
<1>1. below \subseteq FiniteSubsetsOf(Nat) /\ below # {}
  <2>1. ASSUME NEW n \in S PROVE 1..n \in FiniteSubsetsOf(Nat)
    <3>1. IsFiniteSet(1..n) /\ 1..n \subseteq Nat
      BY FS_Interval
    <3> QED BY <3>1 DEF FiniteSubsetsOf
  <2> QED BY <2>1
<1>2. PICK x \in below : \A y \in below : ~(<<y, x>> \in StrictSubsetOrdering(Nat))
  BY <1>1, FS_StrictSubsetOrderingWellFounded, WFMin
<1>3. PICK m \in S : x = 1..m
  BY <1>2
<1>4. ASSUME NEW n \in S, n < m PROVE FALSE
  <2>1. 1..n \in below /\ 1..n \subseteq 1..m /\ m \in 1..m /\ m \notin 1..n
    BY <1>4
  <2>2. 1..n # 1..m /\ 1..n \subseteq Nat /\ 1..m \subseteq Nat
    BY <2>1
  <2>3. <<1..n, 1..m>> \in StrictSubsetOrdering(Nat)
    BY <2>1, <2>2, Zenon DEF StrictSubsetOrdering
  <2> QED BY <2>1, <2>3, <1>2, <1>3
<1> QED BY <1>3, <1>4

\* Induction over the naturals, for sets.
LEMMA Induct ==
  ASSUME NEW S, 0 \in S, \A n \in Nat : n \in S => n + 1 \in S
  PROVE \A n \in Nat : n \in S
<1> DEFINE T == {n \in Nat : n \notin S}
<1>1. ASSUME T # {} PROVE FALSE
  <2>1. PICK m \in T : \A n \in T : m <= n
    BY <1>1, LeastNatural, T \in SUBSET Nat
  <2>2. m # 0 /\ m \in Nat
    BY <2>1
  <2>3. m - 1 \in Nat /\ m - 1 \notin T /\ (m - 1) + 1 = m
    BY <2>1, <2>2
  <2> QED BY <2>1, <2>3
<1> QED BY <1>1

\* Erasing an entry leaves a sequence that is one shorter.
LEMMA EraseType ==
  ASSUME NEW S, NEW s \in Seq(S), NEW i \in DOMAIN s
  PROVE /\ Erase(s, i) \in Seq(S)
        /\ Len(Erase(s, i)) = Len(s) - 1
        /\ DOMAIN Erase(s, i) = 1..(Len(s) - 1)
  BY DEF Erase

\* What erasing several entries does: the others stay, in order.
LEMMA EraseAllKeeps ==
  ASSUME NEW S, NEW s \in Seq(S), NEW I
  PROVE LET e == EraseAll(s, I) IN
        /\ e \in Seq(S) /\ Len(e) <= Len(s)
        /\ \E m \in [DOMAIN e -> DOMAIN s \ I] :
             /\ \A j \in DOMAIN e : e[j] = s[m[j]]
             /\ \A i, j \in DOMAIN e : i < j => m[i] < m[j]
             /\ \A k \in DOMAIN s \ I : \E j \in DOMAIN e : m[j] = k
<1> DEFINE Body(f, n) == IF n = 0 THEN <<>>
                         ELSE IF n \in I THEN f[n - 1] ELSE Append(f[n - 1], s[n])
           Is(f, n) == f = [k \in 0..n |-> Body(f, k)]
           Built == {n \in Nat : \E f : Is(f, n)}
           rest == CHOOSE f : Is(f, Len(s))
<1>0. Len(s) \in Nat /\ DOMAIN s = 1..Len(s) /\ \A k \in 1..Len(s) : s[k] \in S
  OBVIOUS
<1>1. 0 \in Built
  <2> DEFINE f == [k \in 0..0 |-> <<>>]
  <2>1. Is(f, 0)
    OBVIOUS
  <2> QED BY <2>1
<1>2. ASSUME NEW n \in Nat, n \in Built PROVE n + 1 \in Built
  <2>1. PICK f : Is(f, n)
    BY <1>2
  <2> DEFINE g == [k \in 0..(n + 1) |->
                     IF k = n + 1 THEN Body(f, n + 1) ELSE f[k]]
  <2>2. ASSUME NEW k \in 0..(n + 1) PROVE g[k] = Body(g, k)
    <3>1. CASE k = n + 1
      <4>1. g[k] = Body(f, n + 1) /\ g[n] = f[n] /\ k # 0 /\ k - 1 = n
        BY <3>1
      <4> QED BY <4>1, <3>1
    <3>2. CASE k # n + 1
      <4>1. k \in 0..n /\ (k # 0 => k - 1 \in 0..n /\ k - 1 \in 0..(n + 1) /\ k - 1 # n + 1)
        BY <3>2
      <4>2. g[k] = f[k] /\ (k # 0 => g[k - 1] = f[k - 1])
        BY <4>1, <3>2
      <4>3. f[k] = Body(f, k)
        BY <4>1, <2>1
      <4> QED BY <4>2, <4>3
    <3> QED BY <3>1, <3>2
  <2>3. Is(g, n + 1)
    BY <2>2
  <2> HIDE DEF g, Is
  <2> QED BY <2>3
<1>3. Is(rest, Len(s))
  <2> HIDE DEF Is
  <2>1. \A n \in Nat : n \in Built
    <3> HIDE DEF Built
    <3> QED BY <1>1, <1>2, Induct
  <2> QED BY <2>1, <1>0
<1>4. EraseAll(s, I) = rest[Len(s)]
  BY DEF EraseAll
<1> HIDE DEF rest
<1>5. rest[0] = <<>>
  BY <1>3, <1>0
<1>6. ASSUME NEW n \in Nat, n + 1 \in 1..Len(s)
      PROVE rest[n + 1] = IF n + 1 \in I THEN rest[n] ELSE Append(rest[n], s[n + 1])
  <2>1. n + 1 \in 0..Len(s) /\ n + 1 # 0 /\ (n + 1) - 1 = n
    BY <1>6, <1>0
  <2>2. rest[n + 1] = Body(rest, n + 1)
    BY <2>1, <1>3
  <2> QED BY <2>1, <2>2
<1> HIDE DEF Body
<1> DEFINE Maps(n, m) ==
      /\ \A j \in DOMAIN rest[n] : rest[n][j] = s[m[j]]
      /\ \A i, j \in DOMAIN rest[n] : i < j => m[i] < m[j]
      /\ \A k \in (1..n) \ I : \E j \in DOMAIN rest[n] : m[j] = k
           Good(n) == /\ rest[n] \in Seq(S) /\ Len(rest[n]) <= n
                      /\ \E m \in [DOMAIN rest[n] -> (1..n) \ I] : Maps(n, m)
           G == {n \in Nat : n <= Len(s) => Good(n)}
<1>7. 0 \in G
  <2> DEFINE m == [j \in {} |-> 0]
  <2>1. rest[0] \in Seq(S) /\ Len(rest[0]) <= 0 /\ DOMAIN rest[0] = {}
    BY <1>5
  <2>2. m \in [DOMAIN rest[0] -> (1..0) \ I] /\ Maps(0, m)
    BY <2>1
  <2> QED BY <2>1, <2>2
<1>8. ASSUME NEW n \in Nat, n \in G PROVE n + 1 \in G
  <2> SUFFICES ASSUME n + 1 <= Len(s) PROVE Good(n + 1)
    OBVIOUS
  <2>1. Good(n) /\ n + 1 \in 1..Len(s)
    BY <1>8, <1>0
  <2>2. PICK m \in [DOMAIN rest[n] -> (1..n) \ I] : Maps(n, m)
    BY <2>1
  <2>3. CASE n + 1 \in I
    <3>1. rest[n + 1] = rest[n] /\ (1..(n + 1)) \ I = (1..n) \ I
      BY <2>3, <2>1, <1>6
    <3>2. Maps(n + 1, m) /\ m \in [DOMAIN rest[n + 1] -> (1..(n + 1)) \ I]
      BY <3>1, <2>2
    <3>3. rest[n + 1] \in Seq(S) /\ Len(rest[n + 1]) <= n + 1
      BY <3>1, <2>1
    <3> HIDE DEF Maps
    <3> QED BY <3>2, <3>3
  <2>4. CASE n + 1 \notin I
    <3> DEFINE r == rest[n]
               l == Len(r) + 1
               h == [j \in 1..l |-> IF j = l THEN n + 1 ELSE m[j]]
    <3>1. rest[n + 1] = Append(r, s[n + 1]) /\ s[n + 1] \in S /\ r \in Seq(S)
      BY <2>4, <2>1, <1>6, <1>0
    <3>2. /\ rest[n + 1] \in Seq(S) /\ Len(rest[n + 1]) = l /\ DOMAIN rest[n + 1] = 1..l
          /\ DOMAIN r = 1..(l - 1) /\ l \in Nat /\ l <= n + 1 /\ l \in 1..l
          /\ rest[n + 1][l] = s[n + 1]
          /\ \A j \in 1..(l - 1) : rest[n + 1][j] = r[j]
      BY <3>1, <2>1
    <3> HIDE DEF r, l
    <3>3. h \in [DOMAIN rest[n + 1] -> (1..(n + 1)) \ I]
      <4>1. ASSUME NEW j \in 1..l PROVE h[j] \in (1..(n + 1)) \ I
        <5>1. CASE j = l
          BY <5>1, <2>4
        <5>2. CASE j # l
          <6>1. j \in 1..(l - 1) /\ h[j] = m[j]
            BY <5>2, <3>2
          <6>2. m[j] \in (1..n) \ I
            BY <6>1, <3>2, <2>2 DEF r
          <6> QED BY <6>1, <6>2
        <5> QED BY <5>1, <5>2
      <4> QED BY <4>1, <3>2
    <3>4. \A j \in DOMAIN rest[n + 1] : rest[n + 1][j] = s[h[j]]
      <4>1. ASSUME NEW j \in 1..l PROVE rest[n + 1][j] = s[h[j]]
        <5>1. CASE j = l
          BY <5>1, <3>2
        <5>2. CASE j # l
          <6>1. j \in 1..(l - 1) /\ h[j] = m[j]
            BY <5>2, <3>2
          <6> QED BY <6>1, <3>2, <2>2 DEF r
        <5> QED BY <5>1, <5>2
      <4> QED BY <4>1, <3>2
    <3>5. \A i, j \in DOMAIN rest[n + 1] : i < j => h[i] < h[j]
      <4>1. ASSUME NEW i \in 1..l, NEW j \in 1..l, i < j PROVE h[i] < h[j]
        <5>1. i \in 1..(l - 1) /\ h[i] = m[i] /\ m[i] \in 1..n
          BY <4>1, <3>2, <2>2 DEF r
        <5>2. CASE j = l
          BY <5>1, <5>2
        <5>3. CASE j # l
          <6>1. j \in 1..(l - 1) /\ h[j] = m[j]
            BY <5>3, <3>2
          <6> QED BY <6>1, <5>1, <4>1, <3>2, <2>2 DEF r
        <5> QED BY <5>2, <5>3
      <4> QED BY <4>1, <3>2
    <3>6. \A k \in (1..(n + 1)) \ I : \E j \in DOMAIN rest[n + 1] : h[j] = k
      <4>1. ASSUME NEW k \in (1..(n + 1)) \ I PROVE \E j \in 1..l : h[j] = k
        <5>1. CASE k = n + 1
          <6> QED BY <5>1, <3>2
        <5>2. CASE k # n + 1
          <6>1. k \in (1..n) \ I
            BY <5>2
          <6>2. PICK j \in 1..(l - 1) : m[j] = k
            BY <6>1, <2>2, <3>2 DEF r
          <6>3. j \in 1..l /\ j # l
            BY <3>2
          <6> QED BY <6>2, <6>3
        <5> QED BY <5>1, <5>2
      <4> QED BY <4>1, <3>2
    <3>7. Maps(n + 1, h)
      BY <3>4, <3>5, <3>6, Zenon
    <3> HIDE DEF Maps, h
    <3> QED BY <3>2, <3>3, <3>7
  <2> QED BY <2>3, <2>4
<1>9. Good(Len(s))
  <2> HIDE DEF Good
  <2>1. Len(s) \in G
    BY <1>0, <1>7, <1>8, Induct
  <2> QED BY <2>1, <1>0
<1> QED BY <1>9, <1>4, <1>0


----------------------------------------------------------------------------
(* The type of a device.                                                     *)

\* The functions from a subset of S to T.
Tables(S, T) == UNION {[D -> T] : D \in SUBSET S}

\* A node whose callbacks are in order.
GoodNode == {node \in Node : /\ node.pending_strong => node.has_strong
                             /\ node.pending_weak => node.has_weak
                             /\ node.has_strong => node.has_weak}

NodeIds == 1..NodeLimit
Nodes == Tables(NodeIds, GoodNode)
References == Tables(Tokens \X NodeIds, Reference)
ThreadTables == [Tokens -> Tables(Tids, Thread)]
Endpoints == [Tokens -> Endpoint]
Transactions == SUBSET Transaction
Works == Seq(Work)
Claims == SUBSET Claim
Deaths == [Slots -> Death]

Counters == Nat \ {0}

Device ==
  [next_token : Counters, next_node : Counters, next_transaction : Counters,
   endpoints : Endpoints, threads : ThreadTables,
   manager : Tokens \cup {0}, manager_node : 0..NodeLimit, manager_uid : Nat,
   transactions : Transactions, work : Works, references : References,
   nodes : Nodes, claims : Claims, deaths : Deaths]

LEMMA TableMember ==
  ASSUME NEW S, NEW T, NEW f
  PROVE /\ f \in Tables(S, T) => /\ DOMAIN f \subseteq S /\ f \in [DOMAIN f -> T]
                                 /\ \A x \in DOMAIN f : f[x] \in T
        /\ f \in [DOMAIN f -> T] /\ DOMAIN f \subseteq S => f \in Tables(S, T)
  BY DEF Tables

LEMMA TableWith ==
  ASSUME NEW S, NEW T, NEW f \in Tables(S, T), NEW x \in S, NEW v \in T
  PROVE /\ With(f, x, v) \in Tables(S, T)
        /\ \A y : y \in DOMAIN With(f, x, v) <=> y \in DOMAIN f \/ y = x
        /\ With(f, x, v)[x] = v
        /\ \A y \in DOMAIN f : y # x => With(f, x, v)[y] = f[y]
<1>1. DOMAIN f \subseteq S /\ \A y \in DOMAIN f : f[y] \in T
  BY TableMember
<1> DEFINE g == With(f, x, v)
<1>2. DOMAIN g = DOMAIN f \cup {x} /\ g \in [DOMAIN g -> T]
  BY <1>1 DEF With
<1>3. g \in Tables(S, T)
  BY <1>1, <1>2, TableMember
<1> QED BY <1>2, <1>3 DEF With

LEMMA TableRestrict ==
  ASSUME NEW S, NEW T, NEW f \in Tables(S, T), NEW D, D \subseteq DOMAIN f
  PROVE /\ Restrict(f, D) \in Tables(S, T) /\ DOMAIN Restrict(f, D) = D
        /\ \A x \in D : Restrict(f, D)[x] = f[x]
<1>1. DOMAIN f \subseteq S /\ \A y \in DOMAIN f : f[y] \in T
  BY TableMember
<1> DEFINE g == Restrict(f, D)
<1>2. DOMAIN g = D /\ g \in [DOMAIN g -> T]
  BY <1>1 DEF Restrict
<1>3. g \in Tables(S, T)
  BY <1>1, <1>2, TableMember
<1> QED BY <1>2, <1>3 DEF Restrict

LEMMA TableExcept ==
  ASSUME NEW S, NEW T, NEW f \in Tables(S, T), NEW x \in DOMAIN f, NEW v \in T
  PROVE [f EXCEPT ![x] = v] \in Tables(S, T)
<1>1. DOMAIN f \subseteq S /\ f \in [DOMAIN f -> T]
  BY TableMember
<1> DEFINE g == [f EXCEPT ![x] = v]
<1>2. DOMAIN g = DOMAIN f /\ g \in [DOMAIN g -> T]
  BY <1>1
<1> QED BY <1>1, <1>2, TableMember

\* Two devices that agree but on objects: nodes, references, holds and deaths.
SameCalls(d, f) ==
  /\ f.next_token = d.next_token /\ f.next_transaction = d.next_transaction
  /\ f.endpoints = d.endpoints /\ f.threads = d.threads
  /\ f.manager = d.manager /\ f.manager_node = d.manager_node
  /\ f.manager_uid = d.manager_uid
  /\ f.transactions = d.transactions /\ f.work = d.work

LEMMA FieldTypes ==
  ASSUME NEW d \in Device
  PROVE /\ d.next_token \in Counters /\ d.next_node \in Counters
        /\ d.next_transaction \in Counters
        /\ d.endpoints \in Endpoints /\ d.threads \in ThreadTables
        /\ d.manager \in Tokens \cup {0} /\ d.manager_node \in 0..NodeLimit
        /\ d.manager_uid \in Nat
        /\ d.transactions \in Transactions /\ d.work \in Works
        /\ d.references \in References /\ d.nodes \in Nodes
        /\ d.claims \in Claims /\ d.deaths \in Deaths
  BY DEF Device

\* The updates the operations are made of.
PutNodes(d, N) == [d EXCEPT !.nodes = N]
PutNewNode(d, nn, N) == [d EXCEPT !.next_node = nn, !.nodes = N]

LEMMA PutNewNodeFacts ==
  ASSUME NEW d \in Device, NEW nn \in Counters, NEW N \in Nodes, NEW f,
         f = PutNewNode(d, nn, N)
  PROVE /\ f \in Device /\ SameCalls(d, f)
        /\ f.next_node = nn /\ f.nodes = N /\ f.references = d.references
        /\ f.claims = d.claims /\ f.deaths = d.deaths
  BY FieldTypes DEF Device, SameCalls, PutNewNode

LEMMA PutNodesFacts ==
  ASSUME NEW d \in Device, NEW N \in Nodes, NEW f, f = PutNodes(d, N)
  PROVE /\ f \in Device /\ SameCalls(d, f)
        /\ f.next_node = d.next_node /\ f.nodes = N /\ f.references = d.references
        /\ f.claims = d.claims /\ f.deaths = d.deaths
  BY FieldTypes DEF Device, SameCalls, PutNodes

----------------------------------------------------------------------------
(* What the operations on objects keep.                                      *)

\* The cardinalities the device admits.
Bounded(d) ==
  /\ Cardinality(DOMAIN d.references) <= PacketLimit
  /\ IsFiniteSet(d.claims) /\ Cardinality(d.claims) <= ClaimLimit
  /\ Len(d.work) <= PacketLimit
  /\ \A e \in Tokens : Cardinality(DOMAIN d.threads[e]) <= ThreadLimit

\* Nodes have numbers that were given, and what a reference names is there.
NodesKnown(d) ==
  /\ \A n \in DOMAIN d.nodes : n < d.next_node
  /\ \A k \in DOMAIN d.references : k[2] \in DOMAIN d.nodes

\* A node is dead exactly when its endpoint is gone, or is x, which is going;
\* the live nodes of an endpoint have different pointers.
NodesOwned(d, x) ==
  /\ \A n \in DOMAIN d.nodes :
       d.nodes[n].dead <=> (d.nodes[n].owner = x \/ ~endpoint_for(d, d.nodes[n].owner))
  /\ \A n, m \in DOMAIN d.nodes :
       /\ n # m /\ ~d.nodes[n].dead /\ ~d.nodes[m].dead
       /\ d.nodes[n].owner = d.nodes[m].owner
       => d.nodes[n].pointer # d.nodes[m].pointer

\* The manager that is recorded exists, and its node, unless it is x; every
\* other manager's node is dead.
ManagerKnown(d, x) ==
  /\ d.manager = 0 <=> d.manager_node = 0
  /\ d.manager # 0 => /\ endpoint_for(d, d.manager)
                      /\ d.manager_uid = Uid[d.endpoints[d.manager].pid]
  /\ d.manager \notin {0, x} =>
       /\ d.manager_node \in DOMAIN d.nodes
       /\ d.nodes[d.manager_node].owner = d.manager
       /\ d.nodes[d.manager_node].manager /\ ~d.nodes[d.manager_node].dead
  /\ \A n \in DOMAIN d.nodes :
       d.nodes[n].manager /\ ~d.nodes[n].dead =>
         n = d.manager_node /\ d.nodes[n].owner = d.manager

\* Tokens are given in order, to processes; what is open is in use, and a node
\* belongs to an endpoint that was opened.
TokensGiven(d) ==
  /\ \A e \in Tokens :
       /\ d.endpoints[e].opened => d.endpoints[e].used
       /\ d.endpoints[e].used => e < d.next_token /\ d.endpoints[e].pid \in Procs
  /\ \A n \in DOMAIN d.nodes : d.nodes[n].owner < d.next_token

\* An endpoint one of whose threads sleeps in a read is open.
SleepersOpen(d) ==
  \A e \in Tokens : \A t \in DOMAIN d.threads[e] :
    d.threads[e][t].active => d.endpoints[e].opened

Known(d, x) ==
  /\ d \in Device
  /\ NodesKnown(d) /\ NodesOwned(d, x) /\ ManagerKnown(d, x)
  /\ TokensGiven(d) /\ SleepersOpen(d)

Sound(d, x) == Known(d, x) /\ Bounded(d)

SameNode(a, b) == /\ b.owner = a.owner /\ b.pointer = a.pointer
                  /\ b.manager = a.manager /\ b.dead = a.dead

\* The nodes of f are nodes of d, their owners and active one-way calls the same.
OldNodes(d, f) ==
  /\ f.next_token = d.next_token /\ f.next_node = d.next_node
  /\ \A n \in DOMAIN f.nodes : /\ n \in DOMAIN d.nodes
                               /\ f.nodes[n].owner = d.nodes[n].owner
                               /\ f.nodes[n].async_buffer = d.nodes[n].async_buffer

\* A thread that sleeps in f slept in d, or its endpoint is open.
NoNewSleepers(d, f) ==
  \A e \in Tokens : \A t \in DOMAIN f.threads[e] :
    f.threads[e][t].active => \/ d.endpoints[e].opened
                              \/ t \in DOMAIN d.threads[e] /\ d.threads[e][t].active

\* f is what is left of d after an operation that makes no node and no endpoint.
Keeps(d, f) ==
  /\ f \in Device
  /\ f.next_token = d.next_token /\ f.next_node = d.next_node
  /\ f.manager = d.manager /\ f.manager_node = d.manager_node
  /\ f.manager_uid = d.manager_uid
  /\ \A e \in Tokens : /\ f.endpoints[e].used = d.endpoints[e].used
                       /\ f.endpoints[e].opened = d.endpoints[e].opened
                       /\ f.endpoints[e].pid = d.endpoints[e].pid
  /\ DOMAIN f.nodes \subseteq DOMAIN d.nodes
  /\ \A n \in DOMAIN f.nodes : SameNode(d.nodes[n], f.nodes[n])
  /\ \A n \in DOMAIN d.nodes :
       d.nodes[n].manager /\ ~d.nodes[n].dead => n \in DOMAIN f.nodes
  /\ \A k \in DOMAIN f.references : k[2] \in DOMAIN f.nodes
  /\ NoNewSleepers(d, f)

LEMMA KeepsKnown ==
  ASSUME NEW x, NEW d, Known(d, x), NEW f, Keeps(d, f)
  PROVE Known(f, x)
<1>1. \A e : endpoint_for(f, e) <=> endpoint_for(d, e)
  BY DEF Keeps, endpoint_for
<1>2. NodesKnown(f)
  BY DEF Known, NodesKnown, Keeps
<1>3. NodesOwned(f, x)
  BY <1>1 DEF Known, NodesOwned, Keeps, SameNode
<1>4. ManagerKnown(f, x)
  <2>1. d.manager # 0 => d.manager \in Tokens
    BY FieldTypes DEF Known
  <2>2. f.manager = 0 <=> f.manager_node = 0
    BY DEF Known, ManagerKnown, Keeps
  <2>3. f.manager # 0 => /\ endpoint_for(f, f.manager)
                         /\ f.manager_uid = Uid[f.endpoints[f.manager].pid]
    BY <1>1, <2>1 DEF Known, ManagerKnown, Keeps
  <2>4. f.manager \notin {0, x} =>
          /\ f.manager_node \in DOMAIN f.nodes
          /\ f.nodes[f.manager_node].owner = f.manager
          /\ f.nodes[f.manager_node].manager /\ ~f.nodes[f.manager_node].dead
    BY DEF Known, ManagerKnown, Keeps, SameNode
  <2>5. \A n \in DOMAIN f.nodes :
          f.nodes[n].manager /\ ~f.nodes[n].dead =>
            n = f.manager_node /\ f.nodes[n].owner = f.manager
    BY DEF Known, ManagerKnown, Keeps, SameNode
  <2> QED BY <2>2, <2>3, <2>4, <2>5 DEF ManagerKnown
<1>5. TokensGiven(f)
  <2>1. \A n \in DOMAIN f.nodes : f.nodes[n].owner < f.next_token
    BY DEF Known, TokensGiven, Keeps, SameNode
  <2>2. \A e \in Tokens :
          /\ f.endpoints[e].opened => f.endpoints[e].used
          /\ f.endpoints[e].used => e < f.next_token /\ f.endpoints[e].pid \in Procs
    BY DEF Known, TokensGiven, Keeps
  <2> QED BY <2>1, <2>2 DEF TokensGiven
<1>6. SleepersOpen(f)
  BY DEF Known, SleepersOpen, Keeps, NoNewSleepers
<1> QED BY <1>2, <1>3, <1>4, <1>5, <1>6 DEF Known, Keeps

LEMMA KeepsTrans ==
  ASSUME NEW d, NEW f, NEW g, Keeps(d, f), Keeps(f, g)
  PROVE Keeps(d, g)
<1>1. \A n \in DOMAIN g.nodes : SameNode(d.nodes[n], g.nodes[n])
  BY DEF Keeps, SameNode
<1>2. \A n \in DOMAIN d.nodes :
        d.nodes[n].manager /\ ~d.nodes[n].dead => n \in DOMAIN g.nodes
  BY DEF Keeps, SameNode
<1>3. NoNewSleepers(d, g)
  BY DEF Keeps, NoNewSleepers
<1> QED BY <1>1, <1>2, <1>3 DEF Keeps

\* collect_nodes.
LEMMA CollectFacts ==
  ASSUME NEW d \in Device
  PROVE LET f == collect_nodes(d) IN
        /\ f \in Device /\ SameCalls(d, f)
        /\ f.next_node = d.next_node /\ f.references = d.references
        /\ f.claims = d.claims /\ f.deaths = d.deaths
        /\ \A n : n \in DOMAIN f.nodes <=>
                   /\ n \in DOMAIN d.nodes
                   /\ d.nodes[n].has_strong \/ d.nodes[n].has_weak \/ WeakUse(d, n)
        /\ \A n \in DOMAIN f.nodes : f.nodes[n] = d.nodes[n]
<1> DEFINE D == {n \in DOMAIN d.nodes : \/ d.nodes[n].has_strong
                                        \/ d.nodes[n].has_weak
                                        \/ WeakUse(d, n)}
           N == Restrict(d.nodes, D)
<1>1. d.nodes \in Nodes
  BY FieldTypes
<1>2. N \in Nodes /\ DOMAIN N = D /\ \A n \in D : N[n] = d.nodes[n]
  BY <1>1, TableRestrict DEF Nodes
<1>3. collect_nodes(d) = PutNodes(d, N)
  BY DEF collect_nodes, PutNodes
<1> HIDE DEF N
<1> QED BY <1>2, <1>3, PutNodesFacts

LEMMA SameCallsKeeps ==
  ASSUME NEW d \in Device, NEW f \in Device, SameCalls(d, f),
         f.next_node = d.next_node,
         DOMAIN f.nodes \subseteq DOMAIN d.nodes,
         \A n \in DOMAIN f.nodes : SameNode(d.nodes[n], f.nodes[n]),
         \A n \in DOMAIN d.nodes :
           d.nodes[n].manager /\ ~d.nodes[n].dead => n \in DOMAIN f.nodes,
         \A k \in DOMAIN f.references : k[2] \in DOMAIN f.nodes
  PROVE Keeps(d, f)
  BY DEF Keeps, SameCalls, NoNewSleepers

LEMMA CollectKeeps ==
  ASSUME NEW d \in Device,
         \A k \in DOMAIN d.references : k[2] \in DOMAIN d.nodes
  PROVE Keeps(d, collect_nodes(d))
<1> DEFINE f == collect_nodes(d)
<1>1. /\ f \in Device /\ SameCalls(d, f) /\ f.next_node = d.next_node
      /\ f.references = d.references
      /\ \A n \in DOMAIN f.nodes : f.nodes[n] = d.nodes[n]
      /\ DOMAIN f.nodes \subseteq DOMAIN d.nodes
      /\ \A n \in DOMAIN d.nodes : WeakUse(d, n) => n \in DOMAIN f.nodes
  BY CollectFacts
<1>2. \A n : d.nodes[n].manager /\ ~d.nodes[n].dead => WeakUse(d, n)
  BY DEF WeakUse, StrongUse
<1>3. \A k \in DOMAIN d.references : WeakUse(d, k[2])
  BY DEF WeakUse
<1>4. \A n \in DOMAIN f.nodes : SameNode(d.nodes[n], f.nodes[n])
  BY <1>1 DEF SameNode
<1> QED BY <1>1, <1>2, <1>3, <1>4, SameCallsKeeps

\* create_node: one more node, with the next number.
LEMMA AddNode ==
  ASSUME NEW d \in Device, NEW m \in NodeIds, NEW nn \in Counters, NEW node \in GoodNode
  PROVE LET f == PutNewNode(d, nn, With(d.nodes, m, node)) IN
        /\ f \in Device /\ SameCalls(d, f) /\ f.next_node = nn
        /\ f.references = d.references /\ f.claims = d.claims /\ f.deaths = d.deaths
        /\ \A n : n \in DOMAIN f.nodes <=> n \in DOMAIN d.nodes \/ n = m
        /\ \A n \in DOMAIN d.nodes : n # m => f.nodes[n] = d.nodes[n]
        /\ f.nodes[m] = node
<1> DEFINE N == With(d.nodes, m, node)
<1>1. d.nodes \in Tables(NodeIds, GoodNode)
  BY FieldTypes DEF Nodes
<1>2. /\ N \in Tables(NodeIds, GoodNode) /\ \A n : n \in DOMAIN N <=> n \in DOMAIN d.nodes \/ n = m
      /\ N[m] = node /\ \A n \in DOMAIN d.nodes : n # m => N[n] = d.nodes[n]
  BY <1>1, TableWith
<1> HIDE DEF N
<1>3. N \in Nodes
  BY <1>2 DEF Nodes
<1> DEFINE f == PutNewNode(d, nn, N)
<1>4. /\ f \in Device /\ SameCalls(d, f) /\ f.next_node = nn /\ f.nodes = N
      /\ f.references = d.references /\ f.claims = d.claims /\ f.deaths = d.deaths
  BY <1>3, PutNewNodeFacts
<1> QED BY <1>2, <1>4 DEF N

FreshNode(e, pointer, cookie, t, manager) ==
  [owner |-> e, pointer |-> pointer, cookie |-> cookie, notification_tid |-> t,
   manager |-> manager, dead |-> FALSE, has_strong |-> manager, has_weak |-> manager,
   pending_strong |-> FALSE, pending_weak |-> FALSE, async_buffer |-> 0]

LEMMA FreshNodeFacts ==
  ASSUME NEW e \in Tokens, NEW pointer \in Nat, NEW cookie \in Nat,
         NEW t \in Tids \cup {0}, NEW manager \in BOOLEAN
  PROVE LET node == FreshNode(e, pointer, cookie, t, manager) IN
        /\ node \in GoodNode
        /\ node.owner = e /\ node.pointer = pointer /\ node.cookie = cookie
        /\ node.notification_tid = t /\ node.manager = manager /\ ~node.dead
        /\ node.has_strong = manager /\ node.has_weak = manager
        /\ ~node.pending_strong /\ ~node.pending_weak /\ node.async_buffer = 0
  BY BinderAssumption DEF GoodNode, Node, FreshNode

\* f is d with one more node.
Creates(d, f, node) ==
  /\ f \in Device /\ SameCalls(d, f) /\ f.next_node = d.next_node + 1
  /\ f.references = d.references /\ f.claims = d.claims /\ f.deaths = d.deaths
  /\ \A n : n \in DOMAIN f.nodes <=> n \in DOMAIN d.nodes \/ n = d.next_node
  /\ \A n \in DOMAIN d.nodes : n # d.next_node => f.nodes[n] = d.nodes[n]
  /\ f.nodes[d.next_node] = node

LEMMA CreateFacts ==
  ASSUME NEW d \in Device, NEW e \in Tokens, NEW pointer \in Nat, NEW cookie \in Nat,
         NEW t \in Tids \cup {0}, NEW manager \in BOOLEAN, d.next_node <= NodeLimit,
         NEW f, f = create_node(d, e, pointer, cookie, t, manager)
  PROVE Creates(d, f, FreshNode(e, pointer, cookie, t, manager))
<1>1. PICK m \in NodeIds : m = d.next_node
  BY FieldTypes, BinderAssumption DEF NodeIds, Counters
<1>2. PICK nn \in Counters : nn = d.next_node + 1
  BY FieldTypes DEF Counters
<1>3. PICK node \in GoodNode : node = FreshNode(e, pointer, cookie, t, manager)
  BY FreshNodeFacts
<1> DEFINE g == PutNewNode(d, nn, With(d.nodes, m, node))
<1>4. f = g
  BY <1>1, <1>2, <1>3 DEF create_node, FreshNode, PutNewNode
<1>5. /\ g \in Device /\ SameCalls(d, g) /\ g.next_node = nn
      /\ g.references = d.references /\ g.claims = d.claims /\ g.deaths = d.deaths
      /\ \A n : n \in DOMAIN g.nodes <=> n \in DOMAIN d.nodes \/ n = m
      /\ \A n \in DOMAIN d.nodes : n # m => g.nodes[n] = d.nodes[n]
      /\ g.nodes[m] = node
  BY AddNode
<1> HIDE DEF g
<1> QED BY <1>1, <1>2, <1>3, <1>4, <1>5 DEF Creates

LEMMA CreateKnown ==
  ASSUME NEW x, NEW d, Known(d, x),
         NEW e \in Tokens, endpoint_for(d, e), e # x, NEW pointer \in Nat,
         NEW cookie \in Nat, NEW t \in Tids \cup {0}, d.next_node <= NodeLimit,
         owned_node(d, e, pointer) = {}
  PROVE Known(create_node(d, e, pointer, cookie, t, FALSE), x)
<1> DEFINE f == create_node(d, e, pointer, cookie, t, FALSE)
           m == d.next_node
<1>1. /\ f \in Device /\ SameCalls(d, f) /\ f.next_node = m + 1
      /\ f.references = d.references
      /\ \A n : n \in DOMAIN f.nodes <=> n \in DOMAIN d.nodes \/ n = m
      /\ \A n \in DOMAIN d.nodes : n # m => f.nodes[n] = d.nodes[n]
      /\ f.nodes[m].owner = e /\ f.nodes[m].pointer = pointer
      /\ ~f.nodes[m].manager /\ ~f.nodes[m].dead
  <2>1. d \in Device
    BY DEF Known
  <2>2. PICK manager \in BOOLEAN : manager = FALSE
    OBVIOUS
  <2>3. LET node == FreshNode(e, pointer, cookie, t, manager) IN
        node.owner = e /\ node.pointer = pointer /\ node.manager = manager /\ ~node.dead
    BY FreshNodeFacts
  <2>4. f = create_node(d, e, pointer, cookie, t, manager)
    BY <2>2
  <2> HIDE DEF f
  <2>5. Creates(d, f, FreshNode(e, pointer, cookie, t, manager))
    BY <2>1, <2>4, CreateFacts
  <2> QED BY <2>2, <2>3, <2>5 DEF Creates
<1> HIDE DEF f
<1>2. m \in Nat /\ \A n \in DOMAIN d.nodes : n \in Nat /\ n < m
  <2>1. d.next_node \in Nat /\ d.nodes \in Tables(NodeIds, GoodNode)
    BY FieldTypes DEF Known, Nodes, Counters
  <2>2. DOMAIN d.nodes \subseteq NodeIds
    BY <2>1, TableMember
  <2> QED BY <2>1, <2>2 DEF Known, NodesKnown, NodeIds
<1>3. m \notin DOMAIN d.nodes /\ \A n \in DOMAIN d.nodes : f.nodes[n] = d.nodes[n]
  BY <1>1, <1>2
<1>4. \A y : endpoint_for(f, y) <=> endpoint_for(d, y)
  BY <1>1 DEF SameCalls, endpoint_for
<1>5. NodesKnown(f)
  BY <1>1, <1>2, <1>3 DEF Known, NodesKnown
<1>6. NodesOwned(f, x)
  <2>1. \A n \in DOMAIN f.nodes :
          f.nodes[n].dead <=> (f.nodes[n].owner = x \/ ~endpoint_for(f, f.nodes[n].owner))
    BY <1>1, <1>3, <1>4 DEF Known, NodesOwned
  <2>2. \A n \in DOMAIN d.nodes :
          ~d.nodes[n].dead /\ d.nodes[n].owner = e => d.nodes[n].pointer # pointer
    BY DEF owned_node
  <2>3. \A n, k \in DOMAIN f.nodes :
          /\ n # k /\ ~f.nodes[n].dead /\ ~f.nodes[k].dead
          /\ f.nodes[n].owner = f.nodes[k].owner
          => f.nodes[n].pointer # f.nodes[k].pointer
    <3> SUFFICES ASSUME NEW n \in DOMAIN f.nodes, NEW k \in DOMAIN f.nodes,
                        n # k, ~f.nodes[n].dead, ~f.nodes[k].dead,
                        f.nodes[n].owner = f.nodes[k].owner
                 PROVE f.nodes[n].pointer # f.nodes[k].pointer
      OBVIOUS
    <3>1. CASE n = m
      BY <3>1, <2>2, <1>1, <1>3
    <3>2. CASE k = m
      BY <3>2, <2>2, <1>1, <1>3
    <3>3. CASE n # m /\ k # m
      BY <3>3, <1>1, <1>3 DEF Known, NodesOwned
    <3> QED BY <3>1, <3>2, <3>3
  <2> QED BY <2>1, <2>3 DEF NodesOwned
<1>7. ManagerKnown(f, x)
  <2>1. /\ f.manager = d.manager /\ f.manager_node = d.manager_node
        /\ f.manager_uid = d.manager_uid /\ f.endpoints = d.endpoints
    BY <1>1 DEF SameCalls
  <2>2. f.manager \notin {0, x} =>
          /\ f.manager_node \in DOMAIN f.nodes
          /\ f.nodes[f.manager_node].owner = f.manager
          /\ f.nodes[f.manager_node].manager /\ ~f.nodes[f.manager_node].dead
    BY <1>1, <1>3, <2>1 DEF Known, ManagerKnown
  <2>3. \A n \in DOMAIN f.nodes :
          f.nodes[n].manager /\ ~f.nodes[n].dead =>
            n = f.manager_node /\ f.nodes[n].owner = f.manager
    BY <1>1, <1>3, <2>1 DEF Known, ManagerKnown
  <2>4. /\ f.manager = 0 <=> f.manager_node = 0
        /\ f.manager # 0 => /\ endpoint_for(f, f.manager)
                            /\ f.manager_uid = Uid[f.endpoints[f.manager].pid]
    BY <2>1, <1>4 DEF Known, ManagerKnown
  <2> QED BY <2>2, <2>3, <2>4 DEF ManagerKnown
<1>8. TokensGiven(f)
  <2>1. e < d.next_token
    BY DEF Known, TokensGiven, endpoint_for
  <2>2. \A n \in DOMAIN f.nodes : f.nodes[n].owner < f.next_token
    BY <1>1, <2>1 DEF Known, TokensGiven, SameCalls
  <2>3. \A u \in Tokens :
          /\ f.endpoints[u].opened => f.endpoints[u].used
          /\ f.endpoints[u].used => u < f.next_token /\ f.endpoints[u].pid \in Procs
    BY <1>1 DEF Known, TokensGiven, SameCalls
  <2> QED BY <2>2, <2>3 DEF TokensGiven
<1>9. SleepersOpen(f)
  BY <1>1 DEF Known, SleepersOpen, SameCalls
<1> QED BY <1>1, <1>5, <1>6, <1>7, <1>8, <1>9 DEF Known, f

\* The references of a device are finitely many.
LEMMA ReferencesFinite ==
  ASSUME NEW d \in Device
  PROVE /\ IsFiniteSet(DOMAIN d.references)
        /\ Cardinality(DOMAIN d.references) \in Nat
        /\ DOMAIN d.references \subseteq Tokens \X NodeIds
<1>1. DOMAIN d.references \subseteq Tokens \X NodeIds
  BY FieldTypes, TableMember DEF References
<1>2. IsFiniteSet(Tokens) /\ IsFiniteSet(NodeIds)
  BY FS_Interval, BinderAssumption DEF Tokens, NodeIds
<1>3. IsFiniteSet(Tokens \X NodeIds)
  BY <1>2, FS_Product
<1> QED BY <1>1, <1>3, FS_Subset, FS_CardinalityType

FirstFree(d, e, first) ==
  Min({i \in first..(first + PacketLimit) : reference_for(d, e, i) = {}})

\* There is a handle left for one more reference.
LEMMA FreeHandle ==
  ASSUME NEW d \in Device, Bounded(d), NEW e, NEW first \in {0, 1}
  PROVE LET h == FirstFree(d, e, first) IN
        h \in Nat /\ h >= first /\ reference_for(d, e, h) = {}
<1> DEFINE H == first..(first + PacketLimit)
           F == {i \in H : reference_for(d, e, i) = {}}
           Of == [i \in H |-> CHOOSE k \in reference_for(d, e, i) : TRUE]
<1>1. ASSUME F = {} PROVE FALSE
  <2>1. \A i \in H : Of[i] \in DOMAIN d.references /\ d.references[Of[i]].handle = i
    BY <1>1 DEF reference_for
  <2>2. Of \in [H -> DOMAIN d.references]
    BY <2>1
  <2>3. PacketLimit \in Nat
    BY BinderAssumption
  <2>4. IsFiniteSet(H) /\ Cardinality(H) = PacketLimit + 1
    BY <2>3, FS_Interval
  <2>5. Cardinality(DOMAIN d.references) < Cardinality(H)
    BY <2>3, <2>4, ReferencesFinite DEF Bounded
  <2> HIDE DEF H, Of
  <2>6. PICK i, j \in H : i # j /\ Of[i] = Of[j]
    BY <2>2, <2>4, <2>5, ReferencesFinite, FS_PigeonHole
  <2> QED BY <2>6, <2>1
<1>2. F \in SUBSET Nat
  BY BinderAssumption
<1>3. PICK m \in F : \A i \in F : m <= i
  BY <1>1, <1>2, LeastNatural
<1>4. Min(F) \in F
  BY <1>3 DEF Min
<1>5. PacketLimit \in Nat
  BY BinderAssumption
<1> QED BY <1>4, <1>5 DEF FirstFree

PutReferences(d, R) == [d EXCEPT !.references = R]
PutReferencesDeaths(d, R, D) == [d EXCEPT !.references = R, !.deaths = D]
PutReferencesClaims(d, R, C) == [d EXCEPT !.references = R, !.claims = C]
PutClaims(d, C) == [d EXCEPT !.claims = C]

LEMMA PutReferencesFacts ==
  ASSUME NEW d \in Device, NEW R \in References, NEW f, f = PutReferences(d, R)
  PROVE /\ f \in Device /\ SameCalls(d, f)
        /\ f.next_node = d.next_node /\ f.nodes = d.nodes /\ f.references = R
        /\ f.claims = d.claims /\ f.deaths = d.deaths
  BY FieldTypes DEF Device, SameCalls, PutReferences

LEMMA PutReferencesDeathsFacts ==
  ASSUME NEW d \in Device, NEW R \in References, NEW D \in Deaths, NEW f,
         f = PutReferencesDeaths(d, R, D)
  PROVE /\ f \in Device /\ SameCalls(d, f)
        /\ f.next_node = d.next_node /\ f.nodes = d.nodes /\ f.references = R
        /\ f.claims = d.claims /\ f.deaths = D
  BY FieldTypes DEF Device, SameCalls, PutReferencesDeaths

LEMMA PutReferencesClaimsFacts ==
  ASSUME NEW d \in Device, NEW R \in References, NEW C \in Claims, NEW f,
         f = PutReferencesClaims(d, R, C)
  PROVE /\ f \in Device /\ SameCalls(d, f)
        /\ f.next_node = d.next_node /\ f.nodes = d.nodes /\ f.references = R
        /\ f.claims = C /\ f.deaths = d.deaths
  BY FieldTypes DEF Device, SameCalls, PutReferencesClaims

LEMMA PutClaimsFacts ==
  ASSUME NEW d \in Device, NEW C \in Claims, NEW f, f = PutClaims(d, C)
  PROVE /\ f \in Device /\ SameCalls(d, f)
        /\ f.next_node = d.next_node /\ f.nodes = d.nodes
        /\ f.references = d.references
        /\ f.claims = C /\ f.deaths = d.deaths
  BY FieldTypes DEF Device, SameCalls, PutClaims

NewReference(owner, h) == [owner |-> owner, handle |-> h, strong |-> 0, weak |-> 0,
                           temporary_strong |-> 0, death |-> 0]

LEMMA NewReferenceFacts ==
  ASSUME NEW owner \in Tokens, NEW h \in Nat
  PROVE LET r == NewReference(owner, h) IN
        /\ r \in Reference /\ r.owner = owner /\ r.handle = h /\ r.strong = 0
        /\ r.weak = 0 /\ r.temporary_strong = 0 /\ r.death = 0
  BY BinderAssumption DEF NewReference, Reference

LEMMA AddReference ==
  ASSUME NEW d \in Device, NEW k \in Tokens \X NodeIds, NEW r \in Reference, NEW f,
         f = PutReferences(d, With(d.references, k, r))
  PROVE /\ f \in Device /\ SameCalls(d, f)
        /\ f.next_node = d.next_node /\ f.nodes = d.nodes
        /\ f.claims = d.claims /\ f.deaths = d.deaths
        /\ \A y : y \in DOMAIN f.references <=> y \in DOMAIN d.references \/ y = k
        /\ \A y \in DOMAIN d.references : y # k => f.references[y] = d.references[y]
        /\ f.references[k] = r
<1> DEFINE R == With(d.references, k, r)
<1>1. d.references \in Tables(Tokens \X NodeIds, Reference)
  BY FieldTypes DEF References
<1>2. /\ R \in Tables(Tokens \X NodeIds, Reference)
      /\ \A y : y \in DOMAIN R <=> y \in DOMAIN d.references \/ y = k
      /\ R[k] = r /\ \A y \in DOMAIN d.references : y # k => R[y] = d.references[y]
  BY <1>1, TableWith
<1> HIDE DEF R
<1>3. R \in References
  BY <1>2 DEF References
<1>4. /\ f \in Device /\ SameCalls(d, f) /\ f.references = R
      /\ f.next_node = d.next_node /\ f.nodes = d.nodes
      /\ f.claims = d.claims /\ f.deaths = d.deaths
  BY <1>3, PutReferencesFacts DEF R
<1> QED BY <1>2, <1>4

\* What f has imported: a reference of its own handle, that counts nothing.
Imported(d, f, e, n) ==
  \E h \in Nat : /\ f.references[<<e, n>>] = NewReference(d.nodes[n].owner, h)
                 /\ reference_for(d, e, h) = {}
                 /\ h = 0 => n = d.manager_node

\* f has the references of d, and that of endpoint e to node n.
AlsoRefers(d, f, e, n) ==
  \A k : k \in DOMAIN f.references <=> k \in DOMAIN d.references \/ k = <<e, n>>

\* ensure_reference: the reference is there, new or as it was; a new one has a
\* handle of its own.
\* f is d with a reference of e to n; the reference was there or is new.
Ensured(d, f, e, n) ==
  /\ f \in Device /\ SameCalls(d, f)
  /\ f.next_node = d.next_node /\ f.nodes = d.nodes
  /\ f.claims = d.claims /\ f.deaths = d.deaths
  /\ AlsoRefers(d, f, e, n)
  /\ \A k \in DOMAIN d.references : f.references[k] = d.references[k]
  /\ <<e, n>> \notin DOMAIN d.references => Imported(d, f, e, n)
  /\ Bounded(f)

LEMMA EnsureFacts ==
  ASSUME NEW d \in Device, Bounded(d), NEW e \in Tokens, NEW n \in DOMAIN d.nodes,
         ReferenceAvailable(d, e, n), NEW f, f = ensure_reference(d, e, n)
  PROVE Ensured(d, f, e, n)
<1> DEFINE k == <<e, n>>
<1>0. n \in NodeIds /\ d.nodes[n].owner \in Tokens
  <2>1. d.nodes \in Tables(NodeIds, GoodNode)
    BY FieldTypes DEF Nodes
  <2>2. n \in NodeIds /\ d.nodes[n] \in GoodNode
    BY <2>1, TableMember
  <2> QED BY <2>2 DEF GoodNode, Node
<1>1. CASE k \in DOMAIN d.references
  <2>1. f = d
    BY <1>1 DEF ensure_reference
  <2> QED BY <2>1, <1>1 DEF Ensured, SameCalls, AlsoRefers
<1>2. CASE k \notin DOMAIN d.references
  <2>1. PICK first \in {0, 1} : first = IF n = d.manager_node THEN 0 ELSE 1
    OBVIOUS
  <2>2. PICK h \in Nat :
          h = FirstFree(d, e, first) /\ reference_for(d, e, h) = {} /\ h >= first
    BY FreeHandle
  <2>3. f = PutReferences(d, With(d.references, k, NewReference(d.nodes[n].owner, h)))
    BY <1>2, <2>1, <2>2 DEF ensure_reference, PutReferences, NewReference, FirstFree
  <2>4. PICK r \in Reference : r = NewReference(d.nodes[n].owner, h)
    BY <1>0, NewReferenceFacts
  <2>5. k \in Tokens \X NodeIds
    BY <1>0
  <2> HIDE DEF k
  <2>6. /\ f \in Device /\ SameCalls(d, f)
        /\ f.next_node = d.next_node /\ f.nodes = d.nodes
        /\ f.claims = d.claims /\ f.deaths = d.deaths
        /\ \A y : y \in DOMAIN f.references <=> y \in DOMAIN d.references \/ y = k
        /\ \A y \in DOMAIN d.references : y # k => f.references[y] = d.references[y]
        /\ f.references[k] = r
    BY <2>3, <2>4, <2>5, AddReference
  <2>7. h = 0 => n = d.manager_node
    BY <2>1, <2>2
  <2>8. Cardinality(DOMAIN f.references) <= PacketLimit
    <3>1. DOMAIN f.references = DOMAIN d.references \cup {k}
      BY <2>6
    <3>2. Cardinality(DOMAIN d.references) < PacketLimit
      BY <1>2 DEF ReferenceAvailable, k
    <3>3. Cardinality(DOMAIN f.references) = Cardinality(DOMAIN d.references) + 1
      BY <3>1, <1>2, FS_AddElement, ReferencesFinite
    <3> QED BY <3>2, <3>3, ReferencesFinite, BinderAssumption
  <2>9. Bounded(f)
    BY <2>6, <2>8 DEF Bounded, SameCalls
  <2>10. \A y \in DOMAIN d.references : f.references[y] = d.references[y]
    BY <2>6, <1>2
  <2>11. Imported(d, f, e, n)
    BY <2>2, <2>4, <2>6, <2>7 DEF Imported, k
  <2>12. AlsoRefers(d, f, e, n)
    BY <2>6 DEF AlsoRefers, k
  <2> QED BY <2>6, <2>9, <2>10, <2>11, <2>12 DEF Ensured, k
<1> QED BY <1>1, <1>2

\* drop_references: the references in K are gone, their subscriptions with them.
LEMMA DropFacts ==
  ASSUME NEW d \in Device, NEW K, NEW f, f = drop_references(d, K)
  PROVE /\ f \in Device /\ SameCalls(d, f)
        /\ f.next_node = d.next_node /\ f.nodes = d.nodes /\ f.claims = d.claims
        /\ \A k : k \in DOMAIN f.references <=> k \in DOMAIN d.references /\ k \notin K
        /\ \A k \in DOMAIN f.references : f.references[k] = d.references[k]
        /\ \A i \in Slots :
             f.deaths[i] = IF \E k \in K : d.references[k].death = i
                           THEN NoDeath ELSE d.deaths[i]
        /\ Bounded(d) => Bounded(f)
<1> DEFINE R == Without(d.references, K)
           D == [i \in Slots |-> IF \E k \in K : d.references[k].death = i
                                 THEN NoDeath ELSE d.deaths[i]]
<1>1. d.references \in Tables(Tokens \X NodeIds, Reference) /\ d.deaths \in [Slots -> Death]
  BY FieldTypes DEF References, Deaths
<1>2. R \in Tables(Tokens \X NodeIds, Reference) /\ DOMAIN R = DOMAIN d.references \ K
      /\ \A k \in DOMAIN R : R[k] = d.references[k]
  <2>1. DOMAIN d.references \ K \subseteq DOMAIN d.references
    OBVIOUS
  <2> QED BY <1>1, <2>1, TableRestrict DEF Without
<1>3. NoDeath \in Death
  BY DEF NoDeath, Death
<1>4. D \in Deaths
  BY <1>1, <1>3 DEF Deaths
<1>5. \A i \in Slots : D[i] = IF \E k \in K : d.references[k].death = i
                              THEN NoDeath ELSE d.deaths[i]
  OBVIOUS
<1>6. f = PutReferencesDeaths(d, R, D)
  BY DEF drop_references, PutReferencesDeaths
<1> HIDE DEF R, D
<1>7. R \in References
  BY <1>2 DEF References
<1>8. /\ f \in Device /\ SameCalls(d, f) /\ f.references = R /\ f.deaths = D
      /\ f.next_node = d.next_node /\ f.nodes = d.nodes /\ f.claims = d.claims
  BY <1>4, <1>6, <1>7, PutReferencesDeathsFacts
<1>9. Cardinality(DOMAIN f.references) <= Cardinality(DOMAIN d.references)
  BY <1>2, <1>8, ReferencesFinite, FS_Subset
<1>10. Bounded(d) => Bounded(f)
  <2> SUFFICES ASSUME Bounded(d) PROVE Bounded(f)
    OBVIOUS
  <2>1. Cardinality(DOMAIN f.references) <= PacketLimit
    BY <1>8, <1>9, ReferencesFinite, BinderAssumption DEF Bounded
  <2> QED BY <1>8, <2>1 DEF Bounded, SameCalls
<1> QED BY <1>2, <1>5, <1>8, <1>10

\* A reference dropped, or nothing done to the nodes: the rest stays known.
LEMMA SameNodesKeeps ==
  ASSUME NEW d \in Device, NEW f \in Device, SameCalls(d, f), NodesKnown(d),
         f.next_node = d.next_node, f.nodes = d.nodes,
         \A k \in DOMAIN f.references : k[2] \in DOMAIN d.nodes
  PROVE Keeps(d, f)
<1>1. \A n \in DOMAIN f.nodes : SameNode(d.nodes[n], f.nodes[n])
  BY DEF SameNode
<1> QED BY <1>1, SameCallsKeeps

LEMMA MaxZero ==
  ASSUME NEW x \in Int
  PROVE Max({0, x}) = IF x > 0 THEN x ELSE 0
<1> DEFINE m == IF x > 0 THEN x ELSE 0
<1>1. m \in {0, x} /\ \A y \in {0, x} : m >= y
  OBVIOUS
<1>2. \A z \in {0, x} : (\A y \in {0, x} : z >= y) => z = m
  OBVIOUS
<1> QED BY <1>1, <1>2 DEF Max

----------------------------------------------------------------------------
(* release_claims, step by step.                                             *)

\* The remote holds among C on the reference with key k.
RemoteIn(d, C, k) == {c \in C : c.remote /\ <<c.endpoint, c.node>> = k
                                /\ d.references[k].handle = c.handle}
GivenBack(d, C, k) ==
  [d.references[k] EXCEPT
     !.temporary_strong = Max({0, @ - Cardinality(RemoteIn(d, C, k))})]
\* The device once the holds in C are given back, before anything is dropped.
AfterGiving(d, C) ==
  PutReferencesClaims(d, [k \in DOMAIN d.references |-> GivenBack(d, C, k)],
                      d.claims \ C)
\* The references that this leaves without use.
Idle(d, C) == Unreferenced(AfterGiving(d, C),
                           {k \in DOMAIN d.references : RemoteIn(d, C, k) # {}})
BeforeCollect(d, C) == drop_references(AfterGiving(d, C), Idle(d, C))

LEMMA ReleaseSteps ==
  ASSUME NEW d, NEW C
  PROVE release_claims(d, C) = collect_nodes(BeforeCollect(d, C))
  BY DEF release_claims, BeforeCollect, Idle, AfterGiving, GivenBack, RemoteIn,
         PutReferencesClaims

LEMMA GivenBackFacts ==
  ASSUME NEW d \in Device, NEW C \in SUBSET d.claims, IsFiniteSet(d.claims),
         NEW k \in DOMAIN d.references
  PROVE LET a == d.references[k]
            b == GivenBack(d, C, k) IN
        /\ a \in Reference /\ b \in Reference
        /\ b.owner = a.owner /\ b.handle = a.handle /\ b.strong = a.strong
        /\ b.weak = a.weak /\ b.death = a.death
        /\ a.temporary_strong \in Nat /\ Cardinality(RemoteIn(d, C, k)) \in Nat
        /\ b.temporary_strong =
             IF a.temporary_strong > Cardinality(RemoteIn(d, C, k))
             THEN a.temporary_strong - Cardinality(RemoteIn(d, C, k)) ELSE 0
<1> DEFINE a == d.references[k]
           c == Cardinality(RemoteIn(d, C, k))
<1>1. a \in Reference
  <2>1. d.references \in Tables(Tokens \X NodeIds, Reference)
    BY FieldTypes DEF References
  <2> QED BY <2>1, TableMember
<1>2. c \in Nat
  <2>1. RemoteIn(d, C, k) \in SUBSET d.claims
    BY DEF RemoteIn
  <2> QED BY <2>1, FS_Subset, FS_CardinalityType
<1>3. a.temporary_strong \in 0..CountMax /\ CountMax \in Nat
  BY <1>1, BinderAssumption DEF Reference
<1> HIDE DEF c
<1>4. Max({0, a.temporary_strong - c})
        = IF a.temporary_strong > c THEN a.temporary_strong - c ELSE 0
  <2>1. a.temporary_strong - c \in Int
    BY <1>2, <1>3
  <2> QED BY <2>1, <1>2, <1>3, MaxZero
<1>5. PICK m \in 0..CountMax : m = Max({0, a.temporary_strong - c})
  BY <1>2, <1>3, <1>4
<1>6. GivenBack(d, C, k) = [a EXCEPT !.temporary_strong = m]
  BY <1>5 DEF GivenBack, c
<1>7. LET b == [a EXCEPT !.temporary_strong = m] IN
      /\ b \in Reference /\ b.temporary_strong = m
      /\ b.owner = a.owner /\ b.handle = a.handle /\ b.strong = a.strong
      /\ b.weak = a.weak /\ b.death = a.death
  BY <1>1 DEF Reference
<1>8. a.temporary_strong \in Nat
  BY <1>3
<1> QED BY <1>1, <1>2, <1>4, <1>5, <1>6, <1>7, <1>8 DEF c

LEMMA GivingFacts ==
  ASSUME NEW d \in Device, NEW C \in SUBSET d.claims, Bounded(d), NEW f,
         f = AfterGiving(d, C)
  PROVE /\ f \in Device /\ SameCalls(d, f)
        /\ f.next_node = d.next_node /\ f.nodes = d.nodes /\ f.deaths = d.deaths
        /\ DOMAIN f.references = DOMAIN d.references
        /\ \A k \in DOMAIN d.references : f.references[k] = GivenBack(d, C, k)
        /\ f.claims = d.claims \ C
        /\ Bounded(f)
<1> DEFINE R == [k \in DOMAIN d.references |-> GivenBack(d, C, k)]
           L == d.claims \ C
<1>1. IsFiniteSet(d.claims)
  BY DEF Bounded
<1>2. R \in References
  <2>1. d.references \in Tables(Tokens \X NodeIds, Reference)
    BY FieldTypes DEF References
  <2>2. DOMAIN R \subseteq Tokens \X NodeIds
    BY <2>1, TableMember
  <2>3. \A k \in DOMAIN d.references : GivenBack(d, C, k) \in Reference
    BY <1>1, GivenBackFacts
  <2>4. R \in [DOMAIN R -> Reference]
    BY <2>3
  <2> HIDE DEF R
  <2>5. R \in Tables(Tokens \X NodeIds, Reference)
    BY <2>2, <2>4, TableMember
  <2> QED BY <2>5 DEF References
<1>3. L \in Claims /\ IsFiniteSet(L) /\ Cardinality(L) <= Cardinality(d.claims)
  BY <1>1, FieldTypes, FS_Subset DEF Claims
<1>4. \A k \in DOMAIN d.references : R[k] = GivenBack(d, C, k)
  OBVIOUS
<1>5. DOMAIN R = DOMAIN d.references
  OBVIOUS
<1>6. f = PutReferencesClaims(d, R, L)
  BY DEF AfterGiving
<1> HIDE DEF R, L
<1>7. /\ f \in Device /\ SameCalls(d, f)
      /\ f.next_node = d.next_node /\ f.nodes = d.nodes /\ f.deaths = d.deaths
      /\ f.references = R /\ f.claims = L
  BY <1>2, <1>3, <1>6, PutReferencesClaimsFacts
<1>8. Cardinality(f.claims) <= ClaimLimit
  BY <1>1, <1>3, <1>7, FS_CardinalityType, BinderAssumption DEF Bounded
<1>9. Bounded(f)
  BY <1>3, <1>5, <1>7, <1>8 DEF Bounded, SameCalls
<1> QED BY <1>4, <1>5, <1>7, <1>9 DEF L

\* What is left once nothing but the nodes is to be collected.
LEMMA BeforeCollectFacts ==
  ASSUME NEW d \in Device, NEW C \in SUBSET d.claims, Bounded(d), NodesKnown(d),
         NEW f, f = BeforeCollect(d, C)
  PROVE /\ f \in Device /\ SameCalls(d, f)
        /\ f.next_node = d.next_node /\ f.nodes = d.nodes
        /\ \A k : k \in DOMAIN f.references <=> k \in DOMAIN d.references /\ k \notin Idle(d, C)
        /\ \A k \in DOMAIN f.references : f.references[k] = GivenBack(d, C, k)
        /\ f.claims = d.claims \ C
        /\ \A i \in Slots :
             f.deaths[i] = IF \E k \in Idle(d, C) : d.references[k].death = i
                           THEN NoDeath ELSE d.deaths[i]
        /\ Bounded(f) /\ Keeps(d, f) /\ NodesKnown(f)
<1> DEFINE g == AfterGiving(d, C)
<1>1. /\ g \in Device /\ SameCalls(d, g)
      /\ g.next_node = d.next_node /\ g.nodes = d.nodes /\ g.deaths = d.deaths
      /\ DOMAIN g.references = DOMAIN d.references
      /\ \A k \in DOMAIN d.references : g.references[k] = GivenBack(d, C, k)
      /\ g.claims = d.claims \ C /\ Bounded(g)
  BY GivingFacts
<1> HIDE DEF g
<1>2. f = drop_references(g, Idle(d, C))
  BY DEF BeforeCollect, g
<1>3. /\ f \in Device /\ SameCalls(g, f)
      /\ f.next_node = g.next_node /\ f.nodes = g.nodes /\ f.claims = g.claims
      /\ \A k : k \in DOMAIN f.references <=> k \in DOMAIN g.references /\ k \notin Idle(d, C)
      /\ \A k \in DOMAIN f.references : f.references[k] = g.references[k]
      /\ \A i \in Slots :
             f.deaths[i] = IF \E k \in Idle(d, C) : g.references[k].death = i
                           THEN NoDeath ELSE g.deaths[i]
      /\ Bounded(f)
  BY <1>1, <1>2, DropFacts
<1>4. Idle(d, C) \subseteq DOMAIN d.references
  BY DEF Idle, Unreferenced
<1>5. \A k \in Idle(d, C) : g.references[k].death = d.references[k].death
  <2> SUFFICES ASSUME NEW k \in Idle(d, C)
               PROVE g.references[k].death = d.references[k].death
    OBVIOUS
  <2>1. k \in DOMAIN d.references /\ IsFiniteSet(d.claims)
    BY <1>4 DEF Bounded
  <2>2. GivenBack(d, C, k).death = d.references[k].death
    BY <2>1, GivenBackFacts
  <2> QED BY <2>1, <2>2, <1>1
<1>6. SameCalls(d, f)
  BY <1>1, <1>3 DEF SameCalls
<1>7. \A i \in Slots :
        f.deaths[i] = IF \E k \in Idle(d, C) : d.references[k].death = i
                      THEN NoDeath ELSE d.deaths[i]
  BY <1>1, <1>3, <1>5
<1>8. /\ \A k : k \in DOMAIN f.references <=> k \in DOMAIN d.references /\ k \notin Idle(d, C)
      /\ \A k \in DOMAIN f.references : f.references[k] = GivenBack(d, C, k)
  BY <1>1, <1>3
<1>9. Keeps(d, f) /\ NodesKnown(f)
  <2>1. \A k \in DOMAIN f.references : k[2] \in DOMAIN d.nodes
    BY <1>8 DEF NodesKnown
  <2>2. Keeps(d, f)
    BY <2>1, <1>1, <1>3, <1>6, SameNodesKeeps
  <2> QED BY <2>1, <2>2, <1>1, <1>3 DEF NodesKnown
<1> QED BY <1>1, <1>3, <1>6, <1>7, <1>8, <1>9

\* release_claims: the holds are gone, references they held may be, and nodes.
LEMMA ReleaseFacts ==
  ASSUME NEW d \in Device, NEW C \in SUBSET d.claims, Bounded(d), NodesKnown(d),
         NEW f, f = release_claims(d, C)
  PROVE /\ f \in Device /\ SameCalls(d, f) /\ f.next_node = d.next_node
        /\ f.claims = d.claims \ C
        /\ \A k : k \in DOMAIN f.references <=> k \in DOMAIN d.references /\ k \notin Idle(d, C)
        /\ \A k \in DOMAIN f.references : f.references[k] = GivenBack(d, C, k)
        /\ \A i \in Slots :
             f.deaths[i] = IF \E k \in Idle(d, C) : d.references[k].death = i
                           THEN NoDeath ELSE d.deaths[i]
        /\ \A n : n \in DOMAIN f.nodes <=>
                   /\ n \in DOMAIN d.nodes
                   /\ \/ d.nodes[n].has_strong \/ d.nodes[n].has_weak
                      \/ WeakUse(BeforeCollect(d, C), n)
        /\ \A n \in DOMAIN f.nodes : f.nodes[n] = d.nodes[n]
        /\ Bounded(f) /\ Keeps(d, f)
<1> DEFINE g == BeforeCollect(d, C)
<1>1. /\ g \in Device /\ SameCalls(d, g)
      /\ g.next_node = d.next_node /\ g.nodes = d.nodes
      /\ \A k : k \in DOMAIN g.references <=> k \in DOMAIN d.references /\ k \notin Idle(d, C)
      /\ \A k \in DOMAIN g.references : g.references[k] = GivenBack(d, C, k)
      /\ g.claims = d.claims \ C
      /\ \A i \in Slots :
           g.deaths[i] = IF \E k \in Idle(d, C) : d.references[k].death = i
                         THEN NoDeath ELSE d.deaths[i]
      /\ Bounded(g) /\ Keeps(d, g) /\ NodesKnown(g)
  BY BeforeCollectFacts
<1>2. f = collect_nodes(g)
  BY ReleaseSteps
<1>3. \A n : WeakUse(g, n) <=> WeakUse(BeforeCollect(d, C), n)
  OBVIOUS
<1> HIDE DEF g
<1>4. /\ f \in Device /\ SameCalls(g, f)
      /\ f.next_node = g.next_node /\ f.references = g.references
      /\ f.claims = g.claims /\ f.deaths = g.deaths
      /\ \A n : n \in DOMAIN f.nodes <=>
                   /\ n \in DOMAIN g.nodes
                   /\ g.nodes[n].has_strong \/ g.nodes[n].has_weak \/ WeakUse(g, n)
      /\ \A n \in DOMAIN f.nodes : f.nodes[n] = g.nodes[n]
  BY <1>1, <1>2, CollectFacts
<1>5. Keeps(d, f)
  <2>1. Keeps(g, f)
    BY <1>1, <1>2, CollectKeeps DEF NodesKnown
  <2> QED BY <2>1, <1>1, KeepsTrans
<1>6. Bounded(f)
  BY <1>1, <1>4 DEF Bounded, SameCalls
<1>7. SameCalls(d, f)
  BY <1>1, <1>4 DEF SameCalls
<1>8. \A n : n \in DOMAIN f.nodes <=>
                   /\ n \in DOMAIN d.nodes
                   /\ \/ d.nodes[n].has_strong \/ d.nodes[n].has_weak
                      \/ WeakUse(BeforeCollect(d, C), n)
  BY <1>1, <1>3, <1>4
<1>9. /\ \A k : k \in DOMAIN f.references <=> k \in DOMAIN d.references /\ k \notin Idle(d, C)
      /\ \A k \in DOMAIN f.references : f.references[k] = GivenBack(d, C, k)
  BY <1>1, <1>4
<1>10. \A i \in Slots :
         f.deaths[i] = IF \E k \in Idle(d, C) : d.references[k].death = i
                       THEN NoDeath ELSE d.deaths[i]
  BY <1>1, <1>4
<1>11. /\ f.claims = d.claims \ C /\ f.next_node = d.next_node
       /\ \A n \in DOMAIN f.nodes : f.nodes[n] = d.nodes[n]
  BY <1>1, <1>4
<1> QED BY <1>4, <1>5, <1>6, <1>7, <1>8, <1>9, <1>10, <1>11

----------------------------------------------------------------------------
(* add_claim.                                                                *)

Attempts == [dev : Device, error : {"OK", "EINVAL", "ENOMEM", "EOPNOTSUPP"}]
PutError(s, error) == [s EXCEPT !.error = error]
PutDevice(s, d) == [s EXCEPT !.dev = d]

LEMMA AttemptFacts ==
  ASSUME NEW s \in Attempts
  PROVE /\ s.dev \in Device
        /\ \A error \in {"OK", "EINVAL", "ENOMEM", "EOPNOTSUPP"} :
             /\ PutError(s, error) \in Attempts
             /\ PutError(s, error).dev = s.dev /\ PutError(s, error).error = error
        /\ \A d \in Device : /\ PutDevice(s, d) \in Attempts
                             /\ PutDevice(s, d).dev = d /\ PutDevice(s, d).error = s.error
  BY DEF Attempts, PutError, PutDevice

Hold(e, b, index, n, h, remote) ==
  [endpoint |-> e, buffer |-> b, index |-> index, node |-> n, handle |-> h,
   remote |-> remote]

LEMMA HoldFacts ==
  ASSUME NEW e \in Tokens, NEW b \in Buffers, NEW index \in Nat, NEW n \in NodeIds,
         NEW h \in Nat, NEW remote \in BOOLEAN
  PROVE LET c == Hold(e, b, index, n, h, remote) IN
        /\ c \in Claim /\ c.endpoint = e /\ c.buffer = b /\ c.index = index
        /\ c.node = n /\ c.handle = h /\ c.remote = remote
  BY DEF Hold, Claim, NodeIds

AddHold(d, c) == PutClaims(d, d.claims \cup {c})

LEMMA AddHoldFacts ==
  ASSUME NEW d \in Device, Bounded(d), NEW c \in Claim,
         Cardinality(d.claims) # ClaimLimit, NEW f, f = AddHold(d, c)
  PROVE /\ f \in Device /\ SameCalls(d, f) /\ Bounded(f)
        /\ f.next_node = d.next_node /\ f.nodes = d.nodes
        /\ f.references = d.references /\ f.deaths = d.deaths
        /\ \A y : y \in f.claims <=> y \in d.claims \/ y = c
<1> DEFINE C == d.claims \cup {c}
<1>1. C \in Claims
  BY FieldTypes DEF Claims
<1>2. f = PutClaims(d, C)
  BY DEF AddHold
<1>3. IsFiniteSet(C) /\ Cardinality(C) <= ClaimLimit
  <2>1. IsFiniteSet(d.claims) /\ Cardinality(d.claims) \in Nat
    BY FS_CardinalityType DEF Bounded
  <2>2. IsFiniteSet(C) /\ Cardinality(C) = IF c \in d.claims THEN Cardinality(d.claims)
                                           ELSE Cardinality(d.claims) + 1
    BY <2>1, FS_AddElement
  <2> HIDE DEF C
  <2>3. Cardinality(C) \in Nat
    BY <2>2, FS_CardinalityType
  <2> QED BY <2>1, <2>2, <2>3, BinderAssumption DEF Bounded
<1>4. \A y : y \in C <=> y \in d.claims \/ y = c
  OBVIOUS
<1> HIDE DEF C
<1>5. /\ f \in Device /\ SameCalls(d, f)
      /\ f.next_node = d.next_node /\ f.nodes = d.nodes
      /\ f.references = d.references /\ f.deaths = d.deaths /\ f.claims = C
  BY <1>1, <1>2, PutClaimsFacts
<1>6. Bounded(f)
  BY <1>3, <1>5 DEF Bounded, SameCalls
<1> QED BY <1>4, <1>5, <1>6

\* One more temporary strong use of the reference with key k.
CountUse(d, k) ==
  PutReferences(d, [d.references EXCEPT
    ![k] = [d.references[k] EXCEPT
              !.temporary_strong = d.references[k].temporary_strong + 1]])

LEMMA CountUseFacts ==
  ASSUME NEW d \in Device, Bounded(d), NEW k \in DOMAIN d.references,
         d.references[k].temporary_strong # CountMax, NEW f, f = CountUse(d, k)
  PROVE /\ f \in Device /\ SameCalls(d, f) /\ Bounded(f)
        /\ f.next_node = d.next_node /\ f.nodes = d.nodes
        /\ f.claims = d.claims /\ f.deaths = d.deaths
        /\ DOMAIN f.references = DOMAIN d.references
        /\ \A y \in DOMAIN d.references : y # k => f.references[y] = d.references[y]
        /\ f.references[k].owner = d.references[k].owner
        /\ f.references[k].handle = d.references[k].handle
        /\ f.references[k].strong = d.references[k].strong
        /\ f.references[k].weak = d.references[k].weak
        /\ f.references[k].death = d.references[k].death
        /\ d.references[k].temporary_strong \in Nat
        /\ f.references[k].temporary_strong = d.references[k].temporary_strong + 1
<1> DEFINE a == d.references[k]
<1>1. d.references \in Tables(Tokens \X NodeIds, Reference)
  BY FieldTypes DEF References
<1>2. a \in Reference
  BY <1>1, TableMember
<1>3. PICK m \in 0..CountMax : m = a.temporary_strong + 1
  <2>1. a.temporary_strong \in 0..CountMax /\ CountMax \in Nat
    BY <1>2, BinderAssumption DEF Reference
  <2>2. a.temporary_strong + 1 \in 0..CountMax
    BY <2>1
  <2> QED BY <2>2
<1>4. PICK b \in Reference : b = [a EXCEPT !.temporary_strong = m]
  BY <1>2 DEF Reference
<1>5. /\ b.temporary_strong = m
      /\ b.owner = a.owner /\ b.handle = a.handle /\ b.strong = a.strong
      /\ b.weak = a.weak /\ b.death = a.death
  BY <1>2, <1>4 DEF Reference
<1>6. PICK R : R = [d.references EXCEPT ![k] = b]
  OBVIOUS
<1>7. f = PutReferences(d, R)
  BY <1>3, <1>4, <1>6 DEF CountUse
<1>8. R \in Tables(Tokens \X NodeIds, Reference)
  BY <1>1, <1>6, TableExcept
<1>9. /\ DOMAIN R = DOMAIN d.references /\ R[k] = b
      /\ \A y \in DOMAIN d.references : y # k => R[y] = d.references[y]
  <2>1. d.references \in [DOMAIN d.references -> Reference]
    BY <1>1, TableMember
  <2> QED BY <2>1, <1>6
<1>10. R \in References
  BY <1>8 DEF References
<1>11. /\ f \in Device /\ SameCalls(d, f)
       /\ f.next_node = d.next_node /\ f.nodes = d.nodes
       /\ f.claims = d.claims /\ f.deaths = d.deaths /\ f.references = R
  BY <1>7, <1>10, PutReferencesFacts
<1>12. Bounded(f)
  BY <1>9, <1>11 DEF Bounded, SameCalls
<1>13. a.temporary_strong \in Nat
  BY <1>2 DEF Reference
<1> QED BY <1>3, <1>5, <1>9, <1>11, <1>12, <1>13

\* The three outcomes of add_claim.
HeldLocally(s, g, e, b, index, n) ==
  /\ Cardinality(s.dev.claims) # ClaimLimit
  /\ g = PutDevice(s, AddHold(s.dev, Hold(e, b, index, n, 0, FALSE)))
HeldRemotely(s, g, d, e, b, index, n) ==
  /\ Cardinality(s.dev.claims) # ClaimLimit /\ ReferenceAvailable(s.dev, e, n)
  /\ d = ensure_reference(s.dev, e, n)
  /\ d.references[<<e, n>>].temporary_strong # CountMax
  /\ g = PutDevice(s, AddHold(CountUse(d, <<e, n>>),
            Hold(e, b, index, n, d.references[<<e, n>>].handle, TRUE)))

LEMMA AddClaimCases ==
  ASSUME NEW s \in Attempts, Bounded(s.dev), NodesKnown(s.dev), NEW e \in Tokens,
         NEW b \in Buffers, NEW index \in Nat, NEW n \in DOMAIN s.dev.nodes,
         NEW remote \in BOOLEAN, NEW g, g = add_claim(s, e, b, index, n, remote)
  PROVE \/ g = PutError(s, "ENOMEM")
        \/ ~remote /\ HeldLocally(s, g, e, b, index, n)
        \/ remote /\ \E d : HeldRemotely(s, g, d, e, b, index, n)
<1> DEFINE d == ensure_reference(s.dev, e, n)
<1>0. s.dev \in Device
  BY AttemptFacts
<1>1. CASE Cardinality(s.dev.claims) = ClaimLimit
  BY <1>1 DEF add_claim, PutError
<1>2. CASE Cardinality(s.dev.claims) # ClaimLimit /\ ~remote
  BY <1>2 DEF add_claim, PutDevice, AddHold, PutClaims, Hold, HeldLocally
<1>3. CASE /\ Cardinality(s.dev.claims) # ClaimLimit /\ remote
           /\ \/ ~ReferenceAvailable(s.dev, e, n)
              \/ d.references[<<e, n>>].temporary_strong = CountMax
  BY <1>3 DEF add_claim, PutError
<1>4. CASE /\ Cardinality(s.dev.claims) # ClaimLimit /\ remote
           /\ ReferenceAvailable(s.dev, e, n)
           /\ d.references[<<e, n>>].temporary_strong # CountMax
  <2>e. Ensured(s.dev, d, e, n)
    BY <1>0, <1>4, EnsureFacts
  <2>1. d \in Device /\ <<e, n>> \in DOMAIN d.references /\ d.claims = s.dev.claims
    BY <2>e DEF Ensured, AlsoRefers
  <2>2. Bounded(d)
    BY <2>e DEF Ensured
  <2> HIDE DEF d
  <2> DEFINE c == Hold(e, b, index, n, d.references[<<e, n>>].handle, TRUE)
             R == [d.references EXCEPT ![<<e, n>>] =
                     [d.references[<<e, n>>] EXCEPT !.temporary_strong =
                        d.references[<<e, n>>].temporary_strong + 1]]
  <2>3. g = [s EXCEPT !.dev = [d EXCEPT !.references = R, !.claims = @ \cup {c}]]
    BY <1>4 DEF add_claim, Hold, d
  <2> HIDE DEF R, c
  <2>4. [d EXCEPT !.references = R, !.claims = @ \cup {c}]
          = PutClaims(PutReferences(d, R), d.claims \cup {c})
    BY <2>1 DEF PutClaims, PutReferences, Device
  <2>5. CountUse(d, <<e, n>>) = PutReferences(d, R)
    BY DEF CountUse, R
  <2>6. CountUse(d, <<e, n>>).claims = d.claims
    BY <2>1, <2>2, <1>4, CountUseFacts DEF d
  <2>7. g = PutDevice(s, AddHold(CountUse(d, <<e, n>>), c))
    BY <2>3, <2>4, <2>5, <2>6 DEF AddHold, PutDevice
  <2>8. HeldRemotely(s, g, d, e, b, index, n)
    BY <2>7, <1>4 DEF c, d, HeldRemotely
  <2> QED BY <2>8, <1>4
<1> QED BY <1>1, <1>2, <1>3, <1>4

\* add_claim makes no node and forgets none.
LEMMA AddClaimKeeps ==
  ASSUME NEW s \in Attempts, Bounded(s.dev), NodesKnown(s.dev), NEW e \in Tokens,
         NEW b \in Buffers, NEW index \in Nat, NEW n \in DOMAIN s.dev.nodes,
         NEW remote \in BOOLEAN, NEW g, g = add_claim(s, e, b, index, n, remote)
  PROVE /\ g \in Attempts /\ SameCalls(s.dev, g.dev) /\ Bounded(g.dev)
        /\ g.dev.next_node = s.dev.next_node /\ g.dev.nodes = s.dev.nodes
        /\ g.dev.deaths = s.dev.deaths
        /\ Keeps(s.dev, g.dev) /\ NodesKnown(g.dev)
<1>0. s.dev \in Device
  BY AttemptFacts
<1>n. n \in NodeIds
  <2>1. s.dev.nodes \in Tables(NodeIds, GoodNode)
    BY <1>0, FieldTypes DEF Nodes
  <2> QED BY <2>1, TableMember
<1>1. CASE g = PutError(s, "ENOMEM")
  <2>1. g \in Attempts /\ g.dev = s.dev
    BY <1>1, AttemptFacts
  <2>2. SameCalls(s.dev, g.dev) /\ \A k \in DOMAIN g.dev.references : k[2] \in DOMAIN s.dev.nodes
    BY <2>1 DEF SameCalls, NodesKnown
  <2>3. Keeps(s.dev, g.dev)
    BY <1>0, <2>1, <2>2, SameNodesKeeps
  <2> QED BY <2>1, <2>2, <2>3
<1>2. CASE HeldLocally(s, g, e, b, index, n)
  <2>1. PICK c \in Claim : c = Hold(e, b, index, n, 0, FALSE)
    <3>1. PICK r \in BOOLEAN : r = FALSE
      OBVIOUS
    <3>2. Hold(e, b, index, n, 0, r) \in Claim
      BY <1>n, HoldFacts
    <3> QED BY <3>1, <3>2
  <2>2. PICK f : f = AddHold(s.dev, c)
    OBVIOUS
  <2>3. /\ f \in Device /\ SameCalls(s.dev, f) /\ Bounded(f)
        /\ f.next_node = s.dev.next_node /\ f.nodes = s.dev.nodes
        /\ f.references = s.dev.references /\ f.deaths = s.dev.deaths
    BY <1>0, <1>2, <2>2, AddHoldFacts DEF HeldLocally
  <2>4. g \in Attempts /\ g.dev = f
    <3>1. g = PutDevice(s, f)
      BY <1>2, <2>1, <2>2 DEF HeldLocally
    <3> QED BY <3>1, <2>3, AttemptFacts
  <2>5. Keeps(s.dev, f) /\ NodesKnown(f)
    BY <1>0, <2>3, SameNodesKeeps DEF NodesKnown
  <2> QED BY <2>3, <2>4, <2>5
<1>3. ASSUME NEW d, HeldRemotely(s, g, d, e, b, index, n)
      PROVE /\ g \in Attempts /\ SameCalls(s.dev, g.dev) /\ Bounded(g.dev)
            /\ g.dev.next_node = s.dev.next_node /\ g.dev.nodes = s.dev.nodes
            /\ g.dev.deaths = s.dev.deaths
            /\ Keeps(s.dev, g.dev) /\ NodesKnown(g.dev)
  <2>1. /\ Cardinality(s.dev.claims) # ClaimLimit /\ ReferenceAvailable(s.dev, e, n)
        /\ d = ensure_reference(s.dev, e, n)
        /\ d.references[<<e, n>>].temporary_strong # CountMax
        /\ g = PutDevice(s, AddHold(CountUse(d, <<e, n>>),
                 Hold(e, b, index, n, d.references[<<e, n>>].handle, TRUE)))
    BY <1>3 DEF HeldRemotely
  <2>2. /\ d \in Device /\ SameCalls(s.dev, d)
        /\ d.next_node = s.dev.next_node /\ d.nodes = s.dev.nodes
        /\ d.claims = s.dev.claims /\ d.deaths = s.dev.deaths
        /\ \A k : k \in DOMAIN d.references <=> k \in DOMAIN s.dev.references \/ k = <<e, n>>
        /\ Bounded(d)
    <3>1. Ensured(s.dev, d, e, n)
      BY <1>0, <2>1, EnsureFacts
    <3> QED BY <3>1 DEF Ensured, AlsoRefers
  <2>4. PICK h \in Nat : h = d.references[<<e, n>>].handle
    <3>1. d.references \in Tables(Tokens \X NodeIds, Reference) /\ <<e, n>> \in DOMAIN d.references
      BY <2>2, FieldTypes DEF References
    <3>2. d.references[<<e, n>>] \in Reference
      BY <3>1, TableMember
    <3> QED BY <3>2 DEF Reference
  <2>5. PICK c \in Claim : c = Hold(e, b, index, n, h, TRUE)
    <3>1. PICK r \in BOOLEAN : r = TRUE
      OBVIOUS
    <3>2. Hold(e, b, index, n, h, r) \in Claim
      BY <1>n, HoldFacts
    <3> QED BY <3>1, <3>2
  <2>6. PICK u : u = CountUse(d, <<e, n>>)
    OBVIOUS
  <2>7. /\ u \in Device /\ SameCalls(d, u) /\ Bounded(u)
        /\ u.next_node = d.next_node /\ u.nodes = d.nodes
        /\ u.claims = d.claims /\ u.deaths = d.deaths
        /\ DOMAIN u.references = DOMAIN d.references
    BY <2>1, <2>2, <2>6, CountUseFacts
  <2>8. PICK f : f = AddHold(u, c)
    OBVIOUS
  <2>9. /\ f \in Device /\ SameCalls(u, f) /\ Bounded(f)
        /\ f.next_node = u.next_node /\ f.nodes = u.nodes
        /\ f.references = u.references /\ f.deaths = u.deaths
    BY <2>1, <2>2, <2>7, <2>8, AddHoldFacts
  <2>10. g \in Attempts /\ g.dev = f
    <3>1. g = PutDevice(s, f)
      BY <2>1, <2>4, <2>5, <2>6, <2>8
    <3> QED BY <3>1, <2>9, AttemptFacts
  <2>11. SameCalls(s.dev, f)
    BY <2>2, <2>7, <2>9 DEF SameCalls
  <2>12. \A k \in DOMAIN f.references : k[2] \in DOMAIN s.dev.nodes
    BY <2>2, <2>7, <2>9 DEF NodesKnown
  <2>13. Keeps(s.dev, f)
    BY <1>0, <2>2, <2>7, <2>9, <2>11, <2>12, SameNodesKeeps
  <2>14. NodesKnown(f)
    BY <2>2, <2>7, <2>9, <2>12 DEF NodesKnown
  <2> QED BY <2>2, <2>7, <2>9, <2>10, <2>11, <2>13, <2>14
<1> QED BY <1>1, <1>2, <1>3, AddClaimCases

----------------------------------------------------------------------------
(* What the operations on calls keep: endpoints, threads, transactions, work. *)

SameObjects(d, f) ==
  /\ f.next_token = d.next_token /\ f.next_node = d.next_node
  /\ f.manager = d.manager /\ f.manager_node = d.manager_node
  /\ f.manager_uid = d.manager_uid
  /\ f.references = d.references /\ f.nodes = d.nodes
  /\ f.claims = d.claims /\ f.deaths = d.deaths

SameOwners(d, f) ==
  \A e \in Tokens : /\ f.endpoints[e].used = d.endpoints[e].used
                    /\ f.endpoints[e].opened = d.endpoints[e].opened
                    /\ f.endpoints[e].pid = d.endpoints[e].pid

PutCalls(d, E, T, x, X, W) ==
  [d EXCEPT !.endpoints = E, !.threads = T, !.next_transaction = x,
            !.transactions = X, !.work = W]

LEMMA PutCallsFacts ==
  ASSUME NEW d \in Device, NEW E \in Endpoints, NEW T \in ThreadTables,
         NEW x \in Counters, NEW X \in Transactions, NEW W \in Works,
         NEW f, f = PutCalls(d, E, T, x, X, W)
  PROVE /\ f \in Device /\ SameObjects(d, f)
        /\ f.endpoints = E /\ f.threads = T /\ f.next_transaction = x
        /\ f.transactions = X /\ f.work = W
  BY FieldTypes DEF Device, SameObjects, PutCalls

LEMMA SameObjectsKeeps ==
  ASSUME NEW d \in Device, NEW f \in Device, SameObjects(d, f), SameOwners(d, f),
         NoNewSleepers(d, f), NodesKnown(d)
  PROVE Keeps(d, f) /\ NodesKnown(f)
<1>1. \A n \in DOMAIN f.nodes : SameNode(d.nodes[n], f.nodes[n])
  BY DEF SameObjects, SameNode
<1>2. NodesKnown(f)
  BY DEF SameObjects, NodesKnown
<1> QED BY <1>1, <1>2 DEF Keeps, SameObjects, SameOwners, NodesKnown

LEMMA KeepsSound ==
  ASSUME NEW x, NEW d, Sound(d, x), NEW f, Keeps(d, f), Bounded(f)
  PROVE Sound(f, x)
  BY KeepsKnown DEF Sound

LEMMA SoundFacts ==
  ASSUME NEW x, NEW d, Sound(d, x)
  PROVE d \in Device /\ Bounded(d) /\ NodesKnown(d)
  BY DEF Sound, Known

LEMMA ThreadTable ==
  ASSUME NEW d \in Device, NEW e \in Tokens
  PROVE /\ d.threads[e] \in Tables(Tids, Thread)
        /\ DOMAIN d.threads[e] \subseteq Tids
        /\ \A t \in DOMAIN d.threads[e] : d.threads[e][t] \in Thread
<1>1. d.threads[e] \in Tables(Tids, Thread)
  BY FieldTypes DEF ThreadTables
<1> QED BY <1>1, TableMember

\* A new state of one thread, which sleeps if it did, or in an open endpoint.
PutThread(d, e, t, th) == [d EXCEPT !.threads[e][t] = th]
MaySleep(d, e, t, th) == th.active => d.endpoints[e].opened \/ d.threads[e][t].active

LEMMA PutThreadFacts ==
  ASSUME NEW d \in Device, NEW e \in Tokens, NEW t \in DOMAIN d.threads[e],
         NEW th \in Thread, MaySleep(d, e, t, th), NEW f, f = PutThread(d, e, t, th)
  PROVE /\ f \in Device /\ SameObjects(d, f) /\ SameOwners(d, f)
        /\ f.endpoints = d.endpoints /\ f.next_transaction = d.next_transaction
        /\ f.transactions = d.transactions /\ f.work = d.work
        /\ \A u \in Tokens : DOMAIN f.threads[u] = DOMAIN d.threads[u]
        /\ \A u \in Tokens \ {e} : f.threads[u] = d.threads[u]
        /\ \A s \in DOMAIN d.threads[e] \ {t} : f.threads[e][s] = d.threads[e][s]
        /\ f.threads[e][t] = th
        /\ Bounded(d) => Bounded(f)
        /\ NodesKnown(d) => Keeps(d, f) /\ NodesKnown(f)
<1>1. d.threads[e] \in Tables(Tids, Thread)
  BY ThreadTable
<1> DEFINE P == [d.threads[e] EXCEPT ![t] = th]
<1>2. P \in Tables(Tids, Thread)
  BY <1>1, TableExcept
<1>3. /\ DOMAIN P = DOMAIN d.threads[e] /\ P[t] = th
      /\ \A s \in DOMAIN d.threads[e] \ {t} : P[s] = d.threads[e][s]
  <2>1. d.threads[e] \in [DOMAIN d.threads[e] -> Thread]
    BY <1>1, TableMember
  <2> QED BY <2>1
<1> HIDE DEF P
<1> DEFINE T == [d.threads EXCEPT ![e] = P]
<1>4. T \in ThreadTables /\ T[e] = P /\ \A u \in Tokens \ {e} : T[u] = d.threads[u]
  BY <1>2, FieldTypes DEF ThreadTables
<1>5. f = [d EXCEPT !.threads = T]
  BY DEF PutThread, P
<1> HIDE DEF T
<1>6. f = PutCalls(d, d.endpoints, T, d.next_transaction, d.transactions, d.work)
  BY <1>5 DEF PutCalls, Device
<1>7. /\ f \in Device /\ SameObjects(d, f) /\ f.endpoints = d.endpoints /\ f.threads = T
      /\ f.next_transaction = d.next_transaction
      /\ f.transactions = d.transactions /\ f.work = d.work
  BY <1>4, <1>6, FieldTypes, PutCallsFacts
<1>8. SameOwners(d, f)
  BY <1>7 DEF SameOwners
<1>9. \A u \in Tokens : DOMAIN f.threads[u] = DOMAIN d.threads[u]
  BY <1>3, <1>4, <1>7
<1>10. Bounded(d) => Bounded(f)
  BY <1>7, <1>9 DEF Bounded, SameObjects
<1>11. NoNewSleepers(d, f)
  <2>1. \A u \in Tokens \ {e} : f.threads[u] = d.threads[u]
    BY <1>4, <1>7
  <2>2. \A s \in DOMAIN d.threads[e] \ {t} : f.threads[e][s] = d.threads[e][s]
    BY <1>3, <1>4, <1>7
  <2>3. f.threads[e][t] = th
    BY <1>3, <1>4, <1>7
  <2> QED BY <1>9, <2>1, <2>2, <2>3 DEF NoNewSleepers, MaySleep
<1>12. NodesKnown(d) => Keeps(d, f) /\ NodesKnown(f)
  BY <1>7, <1>8, <1>11, SameObjectsKeeps
<1> QED BY <1>3, <1>4, <1>7, <1>8, <1>9, <1>10, <1>12

\* A new state of one endpoint, the same process.
PutEndpoint(d, e, ep) == [d EXCEPT !.endpoints[e] = ep]

LEMMA PutEndpointFacts ==
  ASSUME NEW d \in Device, NEW e \in Tokens, NEW ep \in Endpoint,
         NEW f, f = PutEndpoint(d, e, ep)
  PROVE /\ f \in Device /\ SameObjects(d, f)
        /\ f.threads = d.threads /\ f.next_transaction = d.next_transaction
        /\ f.transactions = d.transactions /\ f.work = d.work
        /\ \A u \in Tokens \ {e} : f.endpoints[u] = d.endpoints[u]
        /\ f.endpoints[e] = ep
        /\ Bounded(d) => Bounded(f)
        /\ /\ NodesKnown(d)
           /\ ep.used = d.endpoints[e].used /\ ep.pid = d.endpoints[e].pid
           /\ ep.opened = d.endpoints[e].opened
           => Keeps(d, f) /\ NodesKnown(f) /\ SameOwners(d, f)
<1> DEFINE E == [d.endpoints EXCEPT ![e] = ep]
<1>1. E \in Endpoints /\ E[e] = ep /\ \A u \in Tokens \ {e} : E[u] = d.endpoints[u]
  BY FieldTypes DEF Endpoints
<1>2. f = [d EXCEPT !.endpoints = E]
  BY DEF PutEndpoint
<1> HIDE DEF E
<1>3. f = PutCalls(d, E, d.threads, d.next_transaction, d.transactions, d.work)
  BY <1>2 DEF PutCalls, Device
<1>4. /\ f \in Device /\ SameObjects(d, f) /\ f.endpoints = E /\ f.threads = d.threads
      /\ f.next_transaction = d.next_transaction
      /\ f.transactions = d.transactions /\ f.work = d.work
  BY <1>1, <1>3, FieldTypes, PutCallsFacts
<1>5. Bounded(d) => Bounded(f)
  BY <1>4 DEF Bounded, SameObjects
<1>6. /\ ep.used = d.endpoints[e].used /\ ep.pid = d.endpoints[e].pid
      /\ ep.opened = d.endpoints[e].opened
      => SameOwners(d, f)
  BY <1>1, <1>4 DEF SameOwners
<1>7. SameOwners(d, f) /\ NodesKnown(d) => Keeps(d, f) /\ NodesKnown(f)
  BY <1>4, SameObjectsKeeps DEF NoNewSleepers
<1> QED BY <1>1, <1>4, <1>5, <1>6, <1>7

----------------------------------------------------------------------------
(* drop_work and cancel_transactions.                                        *)

\* A packet among those at the positions I fills buffer b of endpoint e.
Freed(d, I, e, b) == \E i \in I : d.work[i].endpoint = e /\ d.work[i].buffer = b
FreedArenas(d, I) ==
  [x \in Tokens |-> [d.endpoints[x] EXCEPT !.arena =
     [b \in Buffers |-> IF Freed(d, I, x, b) THEN "free" ELSE d.endpoints[x].arena[b]]]]
\* The device without these packets and with their buffers free.
WithoutWork(d, I) ==
  PutCalls(d, FreedArenas(d, I), d.threads, d.next_transaction, d.transactions,
           EraseAll(d.work, I))
FreedClaims(d, I) == {c \in d.claims : Freed(d, I, c.endpoint, c.buffer)}

LEMMA ArenaFacts ==
  ASSUME NEW ep \in Endpoint, NEW A \in [Buffers -> {"free", "reserved", "delivered"}],
         NEW v, v = [ep EXCEPT !.arena = A]
  PROVE /\ v \in Endpoint /\ v.arena = A
        /\ v.used = ep.used /\ v.opened = ep.opened /\ v.nonblocking = ep.nonblocking
        /\ v.pid = ep.pid /\ v.mapping = ep.mapping
  BY DEF Endpoint

LEMMA FreedArenasFacts ==
  ASSUME NEW d \in Device, NEW I, NEW E, E = FreedArenas(d, I)
  PROVE /\ E \in Endpoints
        /\ \A x \in Tokens :
             /\ E[x].used = d.endpoints[x].used /\ E[x].opened = d.endpoints[x].opened
             /\ E[x].nonblocking = d.endpoints[x].nonblocking
             /\ E[x].pid = d.endpoints[x].pid /\ E[x].mapping = d.endpoints[x].mapping
             /\ \A b \in Buffers : E[x].arena[b] = IF Freed(d, I, x, b) THEN "free"
                                                   ELSE d.endpoints[x].arena[b]
<1>1. ASSUME NEW x \in Tokens
      PROVE /\ E[x] \in Endpoint
            /\ E[x].used = d.endpoints[x].used /\ E[x].opened = d.endpoints[x].opened
            /\ E[x].nonblocking = d.endpoints[x].nonblocking
            /\ E[x].pid = d.endpoints[x].pid /\ E[x].mapping = d.endpoints[x].mapping
            /\ \A b \in Buffers : E[x].arena[b] = IF Freed(d, I, x, b) THEN "free"
                                                  ELSE d.endpoints[x].arena[b]
  <2> DEFINE A == [b \in Buffers |-> IF Freed(d, I, x, b) THEN "free"
                                     ELSE d.endpoints[x].arena[b]]
  <2>1. d.endpoints[x] \in Endpoint
    BY FieldTypes DEF Endpoints
  <2>2. d.endpoints[x].arena \in [Buffers -> {"free", "reserved", "delivered"}]
    BY <2>1 DEF Endpoint
  <2>3. /\ A \in [Buffers -> {"free", "reserved", "delivered"}]
        /\ \A b \in Buffers : A[b] = IF Freed(d, I, x, b) THEN "free"
                                     ELSE d.endpoints[x].arena[b]
    BY <2>2
  <2>4. E[x] = [d.endpoints[x] EXCEPT !.arena = A]
    BY DEF FreedArenas
  <2> HIDE DEF A
  <2> QED BY <2>1, <2>3, <2>4, ArenaFacts
<1>2. DOMAIN E = Tokens /\ E = [x \in Tokens |-> E[x]]
  BY DEF FreedArenas
<1>3. E \in Endpoints
  BY <1>1, <1>2 DEF Endpoints
<1> QED BY <1>1, <1>3

LEMMA WithoutWorkFacts ==
  ASSUME NEW d \in Device, NEW I, Bounded(d), NodesKnown(d),
         NEW f, f = WithoutWork(d, I)
  PROVE /\ f \in Device /\ SameObjects(d, f) /\ SameOwners(d, f)
        /\ f.threads = d.threads /\ f.next_transaction = d.next_transaction
        /\ f.transactions = d.transactions /\ f.work = EraseAll(d.work, I)
        /\ f.endpoints = FreedArenas(d, I)
        /\ Bounded(f) /\ NodesKnown(f) /\ Keeps(d, f)
<1>1. FreedArenas(d, I) \in Endpoints
  BY FreedArenasFacts
<1>2. d.work \in Seq(Work)
  BY FieldTypes DEF Works
<1>3. EraseAll(d.work, I) \in Works /\ Len(EraseAll(d.work, I)) <= Len(d.work)
  BY <1>2, EraseAllKeeps DEF Works
<1>4. /\ f \in Device /\ SameObjects(d, f) /\ f.endpoints = FreedArenas(d, I)
      /\ f.threads = d.threads /\ f.next_transaction = d.next_transaction
      /\ f.transactions = d.transactions /\ f.work = EraseAll(d.work, I)
  BY <1>1, <1>3, FieldTypes, PutCallsFacts DEF WithoutWork
<1>5. SameOwners(d, f)
  BY <1>4, FreedArenasFacts DEF SameOwners
<1>6. Bounded(f)
  <2>1. Len(d.work) \in Nat /\ Len(f.work) \in Nat /\ PacketLimit \in Nat
    BY <1>2, <1>3, <1>4, BinderAssumption DEF Works
  <2>2. Len(f.work) <= PacketLimit
    BY <2>1, <1>3, <1>4 DEF Bounded
  <2> QED BY <1>4, <2>2 DEF Bounded, SameObjects
<1> QED BY <1>4, <1>5, <1>6, SameObjectsKeeps DEF NoNewSleepers

LEMMA DropSteps ==
  ASSUME NEW d \in Device, NEW I
  PROVE drop_work(d, I) = release_claims(WithoutWork(d, I), FreedClaims(d, I))
<1> DEFINE Dropped == {d.work[i] : i \in I}
<1>1. \A e, b : (\E w \in Dropped : w.endpoint = e /\ w.buffer = b) <=> Freed(d, I, e, b)
  BY DEF Freed
<1>2. [d EXCEPT !.work = EraseAll(@, I), !.endpoints = FreedArenas(d, I)] = WithoutWork(d, I)
  BY DEF WithoutWork, PutCalls, Device
<1>3. [x \in Tokens |-> [d.endpoints[x] EXCEPT !.arena =
         [b \in Buffers |-> IF \E w \in Dropped : w.endpoint = x /\ w.buffer = b
                            THEN "free" ELSE d.endpoints[x].arena[b]]]] = FreedArenas(d, I)
  BY <1>1 DEF FreedArenas
<1>4. {c \in d.claims : \E w \in Dropped : w.endpoint = c.endpoint /\ w.buffer = c.buffer}
        = FreedClaims(d, I)
  BY <1>1 DEF FreedClaims
<1> QED BY <1>2, <1>3, <1>4 DEF drop_work

LEMMA DropWorkFacts ==
  ASSUME NEW d \in Device, NEW I, Bounded(d), NodesKnown(d), NEW f, f = drop_work(d, I)
  PROVE /\ f \in Device /\ Bounded(f) /\ NodesKnown(f) /\ Keeps(d, f)
        /\ f.threads = d.threads /\ f.next_transaction = d.next_transaction
        /\ f.transactions = d.transactions /\ f.work = EraseAll(d.work, I)
        /\ f.endpoints = FreedArenas(d, I) /\ OldNodes(d, f)
<1> DEFINE g == WithoutWork(d, I)
           C == FreedClaims(d, I)
<1>1. /\ g \in Device /\ SameObjects(d, g)
      /\ g.threads = d.threads /\ g.next_transaction = d.next_transaction
      /\ g.transactions = d.transactions /\ g.work = EraseAll(d.work, I)
      /\ g.endpoints = FreedArenas(d, I)
      /\ Bounded(g) /\ NodesKnown(g) /\ Keeps(d, g)
  BY WithoutWorkFacts
<1>2. C \in SUBSET g.claims
  BY <1>1 DEF FreedClaims, SameObjects
<1>3. f = release_claims(g, C)
  BY DropSteps
<1> HIDE DEF g, C
<1>4. f \in Device /\ SameCalls(g, f) /\ Bounded(f) /\ Keeps(g, f)
      /\ f.next_node = g.next_node
      /\ \A n \in DOMAIN f.nodes : n \in DOMAIN g.nodes /\ f.nodes[n] = g.nodes[n]
  BY <1>1, <1>2, <1>3, ReleaseFacts
<1>5. Keeps(d, f)
  BY <1>1, <1>4, KeepsTrans
<1>6. NodesKnown(f)
  BY <1>1, <1>4 DEF NodesKnown, Keeps
<1>7. OldNodes(d, f)
  BY <1>1, <1>4, <1>5 DEF OldNodes, SameObjects, Keeps
<1> QED BY <1>1, <1>4, <1>5, <1>6, <1>7 DEF SameCalls

\* A thread after the calls with these numbers have ended.
Ended(th, Ids) ==
  [th EXCEPT !.outgoing = IF th.outgoing \in Ids THEN 0 ELSE th.outgoing,
             !.error = IF th.outgoing \in Ids THEN "DEAD_REPLY" ELSE th.error,
             !.incoming = IF th.incoming \in Ids THEN 0 ELSE th.incoming,
             !.dead_reply = th.dead_reply \/ th.incoming \in Ids]

LEMMA EndedFacts ==
  ASSUME NEW th \in Thread, NEW Ids, NEW v, v = Ended(th, Ids)
  PROVE /\ v \in Thread
        /\ v.outgoing = IF th.outgoing \in Ids THEN 0 ELSE th.outgoing
        /\ v.error = IF th.outgoing \in Ids THEN "DEAD_REPLY" ELSE th.error
        /\ v.incoming = IF th.incoming \in Ids THEN 0 ELSE th.incoming
        /\ v.dead_reply <=> th.dead_reply \/ th.incoming \in Ids
        /\ v.looper = th.looper /\ v.completions = th.completions
        /\ v.initial_return = th.initial_return /\ v.active = th.active
<1>1. PICK o \in 0..TxnLimit : o = IF th.outgoing \in Ids THEN 0 ELSE th.outgoing
  BY BinderAssumption DEF Thread
<1>2. PICK i \in 0..TxnLimit : i = IF th.incoming \in Ids THEN 0 ELSE th.incoming
  BY BinderAssumption DEF Thread
<1>3. PICK r \in {None, "DEAD_REPLY", "FAILED_REPLY"} :
        r = IF th.outgoing \in Ids THEN "DEAD_REPLY" ELSE th.error
  BY DEF Thread
<1>4. PICK b \in BOOLEAN : b = (th.dead_reply \/ th.incoming \in Ids)
  OBVIOUS
<1>5. v = [th EXCEPT !.outgoing = o, !.error = r, !.incoming = i, !.dead_reply = b]
  BY <1>1, <1>2, <1>3, <1>4 DEF Ended
<1>6. /\ v \in Thread /\ v.outgoing = o /\ v.error = r /\ v.incoming = i /\ v.dead_reply = b
      /\ v.looper = th.looper /\ v.completions = th.completions
      /\ v.initial_return = th.initial_return /\ v.active = th.active
  BY <1>5 DEF Thread
<1> QED BY <1>1, <1>2, <1>3, <1>4, <1>6

CancelledIds(d, e, t) == {x.id : x \in Cancelled(d, e, t)}
EndedThreads(d, Ids) ==
  [u \in Tokens |-> [y \in DOMAIN d.threads[u] |-> Ended(d.threads[u][y], Ids)]]
\* The device once the calls of endpoint e, or its thread t # 0, have ended.
WithoutCalls(d, e, t) ==
  PutCalls(d, d.endpoints, EndedThreads(d, CancelledIds(d, e, t)), d.next_transaction,
           d.transactions \ Cancelled(d, e, t), d.work)
CancelledWork(d, e, t) ==
  {i \in DOMAIN d.work : \/ d.work[i].transaction \in CancelledIds(d, e, t)
                         \/ OwnWork(d.work[i], e, t)}

LEMMA CancelSteps ==
  ASSUME NEW d \in Device, NEW e, NEW t
  PROVE cancel_transactions(d, e, t)
          = drop_work(WithoutCalls(d, e, t), CancelledWork(d, e, t))
<1>1. [d EXCEPT !.threads = EndedThreads(d, CancelledIds(d, e, t)),
                !.transactions = @ \ Cancelled(d, e, t)] = WithoutCalls(d, e, t)
  BY DEF WithoutCalls, PutCalls, Device
<1> QED BY <1>1 DEF cancel_transactions, CancelledWork, CancelledIds, EndedThreads, Ended

LEMMA EndedThreadsFacts ==
  ASSUME NEW d \in Device, NEW Ids, NEW T, T = EndedThreads(d, Ids)
  PROVE /\ T \in ThreadTables
        /\ \A u \in Tokens :
             /\ DOMAIN T[u] = DOMAIN d.threads[u]
             /\ \A y \in DOMAIN d.threads[u] : T[u][y] = Ended(d.threads[u][y], Ids)
<1>1. ASSUME NEW u \in Tokens
      PROVE /\ T[u] \in Tables(Tids, Thread) /\ DOMAIN T[u] = DOMAIN d.threads[u]
            /\ \A y \in DOMAIN d.threads[u] : T[u][y] = Ended(d.threads[u][y], Ids)
  <2>1. DOMAIN d.threads[u] \subseteq Tids
        /\ \A t \in DOMAIN d.threads[u] : d.threads[u][t] \in Thread
    BY ThreadTable
  <2> DEFINE P == [y \in DOMAIN d.threads[u] |-> Ended(d.threads[u][y], Ids)]
  <2>2. T[u] = P
    BY DEF EndedThreads
  <2>3. \A y \in DOMAIN d.threads[u] : Ended(d.threads[u][y], Ids) \in Thread
    BY <2>1, EndedFacts
  <2>4. DOMAIN P = DOMAIN d.threads[u] /\ P \in [DOMAIN P -> Thread]
        /\ \A y \in DOMAIN d.threads[u] : P[y] = Ended(d.threads[u][y], Ids)
    BY <2>3
  <2> HIDE DEF P
  <2>5. P \in Tables(Tids, Thread)
    BY <2>1, <2>4, TableMember
  <2> QED BY <2>2, <2>4, <2>5
<1>2. DOMAIN T = Tokens /\ T = [u \in Tokens |-> T[u]]
  BY DEF EndedThreads
<1>3. T \in ThreadTables
  BY <1>1, <1>2 DEF ThreadTables
<1> QED BY <1>1, <1>3

LEMMA CancelFacts ==
  ASSUME NEW d \in Device, Bounded(d), NodesKnown(d), NEW e, NEW t,
         NEW f, f = cancel_transactions(d, e, t)
  PROVE /\ f \in Device /\ Bounded(f) /\ NodesKnown(f) /\ Keeps(d, f)
        /\ f.threads = EndedThreads(d, CancelledIds(d, e, t))
        /\ f.next_transaction = d.next_transaction
        /\ f.transactions = d.transactions \ Cancelled(d, e, t)
        /\ f.work = EraseAll(d.work, CancelledWork(d, e, t))
        /\ f.endpoints = FreedArenas(d, CancelledWork(d, e, t)) /\ OldNodes(d, f)
<1> DEFINE I == CancelledWork(d, e, t)
           T == EndedThreads(d, CancelledIds(d, e, t))
           X == d.transactions \ Cancelled(d, e, t)
<1>1. PICK g : g = WithoutCalls(d, e, t)
  OBVIOUS
<1>2. T \in ThreadTables /\ \A u \in Tokens :
        /\ DOMAIN T[u] = DOMAIN d.threads[u]
        /\ \A y \in DOMAIN d.threads[u] :
             T[u][y] = Ended(d.threads[u][y], CancelledIds(d, e, t))
  BY EndedThreadsFacts
<1>3. X \in Transactions
  BY FieldTypes DEF Transactions
<1>4. g = PutCalls(d, d.endpoints, T, d.next_transaction, X, d.work)
  BY <1>1 DEF WithoutCalls
<1>5. f = drop_work(g, I)
  BY <1>1, CancelSteps
<1> HIDE DEF I, T, X
<1>6. /\ g \in Device /\ SameObjects(d, g) /\ g.endpoints = d.endpoints /\ g.threads = T
      /\ g.next_transaction = d.next_transaction /\ g.transactions = X /\ g.work = d.work
  BY <1>2, <1>3, <1>4, FieldTypes, PutCallsFacts
<1>7. Bounded(g)
  BY <1>2, <1>6 DEF Bounded, SameObjects
<1>8. Keeps(d, g) /\ NodesKnown(g)
  <2>1. ASSUME NEW u \in Tokens, NEW y \in DOMAIN g.threads[u]
        PROVE y \in DOMAIN d.threads[u] /\ g.threads[u][y].active = d.threads[u][y].active
    <3>1. y \in DOMAIN d.threads[u]
      BY <1>2, <1>6
    <3>2. d.threads[u][y] \in Thread
      BY <3>1, ThreadTable
    <3>3. g.threads[u][y] = Ended(d.threads[u][y], CancelledIds(d, e, t))
      BY <1>2, <1>6, <3>1
    <3> QED BY <3>1, <3>2, <3>3, EndedFacts
  <2>2. NoNewSleepers(d, g)
    BY <2>1 DEF NoNewSleepers
  <2> QED BY <1>6, <2>2, SameObjectsKeeps DEF SameOwners
<1>9. /\ f \in Device /\ Bounded(f) /\ NodesKnown(f) /\ Keeps(g, f)
      /\ f.threads = g.threads /\ f.next_transaction = g.next_transaction
      /\ f.transactions = g.transactions /\ f.work = EraseAll(g.work, I)
      /\ f.endpoints = FreedArenas(g, I) /\ OldNodes(g, f)
  BY <1>5, <1>6, <1>7, <1>8, DropWorkFacts
<1>10. FreedArenas(g, I) = FreedArenas(d, I)
  BY <1>6 DEF FreedArenas, Freed
<1>11. Keeps(d, f)
  BY <1>8, <1>9, KeepsTrans
<1>12. OldNodes(d, f)
  BY <1>6, <1>9 DEF OldNodes, SameObjects
<1> QED BY <1>6, <1>9, <1>10, <1>11, <1>12 DEF I, T, X

----------------------------------------------------------------------------
(* release_references and release_endpoint.                                  *)

PutNodesDeaths(d, N, D) == [d EXCEPT !.deaths = D, !.nodes = N]

LEMMA PutNodesDeathsFacts ==
  ASSUME NEW d \in Device, NEW N \in Nodes, NEW D \in Deaths, NEW f,
         f = PutNodesDeaths(d, N, D)
  PROVE /\ f \in Device /\ SameCalls(d, f)
        /\ f.next_node = d.next_node /\ f.nodes = N /\ f.references = d.references
        /\ f.claims = d.claims /\ f.deaths = D
  BY FieldTypes DEF Device, SameCalls, PutNodesDeaths

DeadNode(node) ==
  [node EXCEPT !.dead = TRUE, !.has_strong = FALSE, !.has_weak = FALSE,
               !.pending_strong = FALSE, !.pending_weak = FALSE]

LEMMA DeadNodeFacts ==
  ASSUME NEW node \in GoodNode, NEW v, v = DeadNode(node)
  PROVE /\ v \in GoodNode /\ v.dead /\ ~v.has_strong /\ ~v.has_weak
        /\ ~v.pending_strong /\ ~v.pending_weak
        /\ v.owner = node.owner /\ v.pointer = node.pointer /\ v.cookie = node.cookie
        /\ v.notification_tid = node.notification_tid /\ v.manager = node.manager
        /\ v.async_buffer = node.async_buffer
  BY DEF GoodNode, Node, DeadNode

LEMMA OrphanedFacts ==
  ASSUME NEW death \in Death, NEW e
  PROVE Orphaned(death, e) \in Death
<1>1. NoDeath \in Death
  BY DEF NoDeath, Death
<1>2. [death EXCEPT !.state = "queued"] \in Death
  BY DEF Death
<1> QED BY <1>1, <1>2 DEF Orphaned

\* The device once nothing of endpoint e is alive in it.
OwnedNodesDead(d, e) ==
  [n \in DOMAIN d.nodes |->
     IF d.nodes[n].owner # e THEN d.nodes[n] ELSE DeadNode(d.nodes[n])]
OrphanedDeaths(d, e) == [i \in Slots |-> Orphaned(d.deaths[i], e)]
Orphans(d, e) == PutNodesDeaths(d, OwnedNodesDead(d, e), OrphanedDeaths(d, e))
OwnReferences(d, e) == {k \in DOMAIN d.references : k[1] = e}

LEMMA OrphansFacts ==
  ASSUME NEW d \in Device, NEW e, NEW f, f = Orphans(d, e)
  PROVE /\ f \in Device /\ SameCalls(d, f)
        /\ f.next_node = d.next_node /\ f.references = d.references
        /\ f.claims = d.claims
        /\ DOMAIN f.nodes = DOMAIN d.nodes
        /\ \A n \in DOMAIN d.nodes :
             f.nodes[n] = IF d.nodes[n].owner # e THEN d.nodes[n] ELSE DeadNode(d.nodes[n])
        /\ \A i \in Slots : f.deaths[i] = Orphaned(d.deaths[i], e)
        /\ Bounded(d) => Bounded(f)
<1> DEFINE N == OwnedNodesDead(d, e)
           D == OrphanedDeaths(d, e)
<1>1. d.nodes \in Tables(NodeIds, GoodNode) /\ d.deaths \in [Slots -> Death]
  BY FieldTypes DEF Nodes, Deaths
<1>2. DOMAIN d.nodes \subseteq NodeIds /\ \A n \in DOMAIN d.nodes : d.nodes[n] \in GoodNode
  BY <1>1, TableMember
<1>3. /\ DOMAIN N = DOMAIN d.nodes /\ N \in [DOMAIN N -> GoodNode]
      /\ \A n \in DOMAIN d.nodes :
           N[n] = IF d.nodes[n].owner # e THEN d.nodes[n] ELSE DeadNode(d.nodes[n])
  <2>1. \A n \in DOMAIN d.nodes : DeadNode(d.nodes[n]) \in GoodNode
    BY <1>2, DeadNodeFacts
  <2> QED BY <1>2, <2>1 DEF OwnedNodesDead
<1>4. N \in Nodes
  BY <1>2, <1>3, TableMember DEF Nodes
<1>5. D \in Deaths /\ \A i \in Slots : D[i] = Orphaned(d.deaths[i], e)
  <2>1. \A i \in Slots : Orphaned(d.deaths[i], e) \in Death
    BY <1>1, OrphanedFacts
  <2> QED BY <2>1 DEF OrphanedDeaths, Deaths
<1>6. f = PutNodesDeaths(d, N, D)
  BY DEF Orphans
<1> HIDE DEF N, D
<1>7. /\ f \in Device /\ SameCalls(d, f)
      /\ f.next_node = d.next_node /\ f.nodes = N /\ f.references = d.references
      /\ f.claims = d.claims /\ f.deaths = D
  BY <1>4, <1>5, <1>6, PutNodesDeathsFacts
<1>8. Bounded(d) => Bounded(f)
  BY <1>7 DEF Bounded, SameCalls
<1> QED BY <1>3, <1>5, <1>7, <1>8

LEMMA ReferencesSteps ==
  ASSUME NEW d, NEW e
  PROVE release_references(d, e)
          = collect_nodes(Orphans(drop_references(d, OwnReferences(d, e)), e))
  BY DEF release_references, Orphans, OwnedNodesDead, OrphanedDeaths, OwnReferences,
         DeadNode, PutNodesDeaths

\* From here on endpoint e counts as gone.
LEMMA OrphansKnown ==
  ASSUME NEW d, Sound(d, 0), NEW e \in Tokens, NEW f, f = Orphans(d, e)
  PROVE Sound(f, e)
<1>0. d \in Device /\ Bounded(d)
  BY SoundFacts
<1>1. /\ f \in Device /\ SameCalls(d, f)
      /\ f.next_node = d.next_node /\ f.references = d.references
      /\ DOMAIN f.nodes = DOMAIN d.nodes /\ Bounded(f)
      /\ \A n \in DOMAIN d.nodes :
           f.nodes[n] = IF d.nodes[n].owner # e THEN d.nodes[n] ELSE DeadNode(d.nodes[n])
  BY <1>0, OrphansFacts
<1>2. \A n \in DOMAIN d.nodes :
        /\ f.nodes[n].owner = d.nodes[n].owner /\ f.nodes[n].pointer = d.nodes[n].pointer
        /\ f.nodes[n].manager = d.nodes[n].manager
        /\ f.nodes[n].dead <=> d.nodes[n].owner = e \/ d.nodes[n].dead
        /\ d.nodes[n].owner \in Tokens
  <2>1. \A n \in DOMAIN d.nodes : d.nodes[n] \in GoodNode
    <3>1. d.nodes \in Tables(NodeIds, GoodNode)
      BY <1>0, FieldTypes DEF Nodes
    <3> QED BY <3>1, TableMember
  <2>2. \A n \in DOMAIN d.nodes :
          LET v == DeadNode(d.nodes[n]) IN
          /\ v.owner = d.nodes[n].owner /\ v.pointer = d.nodes[n].pointer
          /\ v.manager = d.nodes[n].manager /\ v.dead
    BY <2>1, DeadNodeFacts
  <2>3. \A n \in DOMAIN d.nodes : d.nodes[n].owner \in Tokens
    BY <2>1 DEF GoodNode, Node
  <2> QED BY <1>1, <2>2, <2>3
<1>3. \A y : endpoint_for(f, y) <=> endpoint_for(d, y)
  BY <1>1 DEF SameCalls, endpoint_for
<1>4. NodesKnown(f)
  BY <1>1 DEF Sound, Known, NodesKnown
<1>5. NodesOwned(f, e)
  <2>1. 0 \notin Tokens
    BY DEF Tokens
  <2>2. NodesOwned(d, 0)
    BY DEF Sound, Known
  <2>3. \A n \in DOMAIN d.nodes : d.nodes[n].dead <=> ~endpoint_for(d, d.nodes[n].owner)
    BY <1>2, <2>1, <2>2 DEF NodesOwned
  <2>4. \A n \in DOMAIN f.nodes :
          f.nodes[n].dead <=> (f.nodes[n].owner = e \/ ~endpoint_for(f, f.nodes[n].owner))
    BY <1>1, <1>2, <1>3, <2>3
  <2>5. \A n, m \in DOMAIN f.nodes :
          /\ n # m /\ ~f.nodes[n].dead /\ ~f.nodes[m].dead
          /\ f.nodes[n].owner = f.nodes[m].owner
          => f.nodes[n].pointer # f.nodes[m].pointer
    BY <1>1, <1>2, <2>2 DEF NodesOwned
  <2> QED BY <2>4, <2>5 DEF NodesOwned
<1>6. ManagerKnown(f, e)
  <2>1. ManagerKnown(d, 0)
    BY DEF Sound, Known
  <2>2. f.manager = d.manager /\ f.manager_node = d.manager_node
        /\ f.manager_uid = d.manager_uid /\ f.endpoints = d.endpoints
    BY <1>1 DEF SameCalls
  <2>3. f.manager # 0 => /\ endpoint_for(f, f.manager)
                         /\ f.manager_uid = Uid[f.endpoints[f.manager].pid]
    BY <1>3, <2>1, <2>2 DEF ManagerKnown
  <2>4. f.manager \notin {0, e} =>
          /\ f.manager_node \in DOMAIN f.nodes
          /\ f.nodes[f.manager_node].owner = f.manager
          /\ f.nodes[f.manager_node].manager /\ ~f.nodes[f.manager_node].dead
    BY <1>1, <1>2, <2>1, <2>2 DEF ManagerKnown
  <2>5. \A n \in DOMAIN f.nodes :
          f.nodes[n].manager /\ ~f.nodes[n].dead =>
            n = f.manager_node /\ f.nodes[n].owner = f.manager
    BY <1>1, <1>2, <2>1, <2>2 DEF ManagerKnown
  <2>6. f.manager = 0 <=> f.manager_node = 0
    BY <2>1, <2>2 DEF ManagerKnown
  <2> QED BY <2>3, <2>4, <2>5, <2>6 DEF ManagerKnown
<1>7. TokensGiven(f)
  BY <1>1, <1>2 DEF Sound, Known, TokensGiven, SameCalls
<1>8. SleepersOpen(f)
  BY <1>1 DEF Sound, Known, SleepersOpen, SameCalls
<1> QED BY <1>1, <1>4, <1>5, <1>6, <1>7, <1>8 DEF Sound, Known

LEMMA ReleaseReferencesFacts ==
  ASSUME NEW d, Sound(d, 0), NEW e \in Tokens, NEW f, f = release_references(d, e)
  PROVE Sound(f, e) /\ SameCalls(d, f) /\ f.claims = d.claims /\ OldNodes(d, f)
<1> DEFINE K == OwnReferences(d, e)
<1>0. d \in Device /\ Bounded(d) /\ NodesKnown(d)
  BY SoundFacts
<1>1. PICK g : g = drop_references(d, K)
  OBVIOUS
<1>2. PICK h : h = Orphans(g, e)
  OBVIOUS
<1>3. f = collect_nodes(h)
  BY <1>1, <1>2, ReferencesSteps
<1> HIDE DEF K
<1>4. /\ g \in Device /\ SameCalls(d, g) /\ Bounded(g)
      /\ g.next_node = d.next_node /\ g.nodes = d.nodes /\ g.claims = d.claims
      /\ \A k \in DOMAIN g.references : k \in DOMAIN d.references
  BY <1>0, <1>1, DropFacts
<1>5. Keeps(d, g)
  BY <1>0, <1>4, SameNodesKeeps DEF NodesKnown
<1>6. Sound(g, 0)
  BY <1>4, <1>5, KeepsSound
<1>7. Sound(h, e)
  BY <1>2, <1>6, OrphansKnown
<1>8. /\ SameCalls(g, h) /\ h.claims = g.claims /\ h.next_node = g.next_node
      /\ DOMAIN h.nodes = DOMAIN g.nodes
      /\ \A n \in DOMAIN g.nodes :
           h.nodes[n] = IF g.nodes[n].owner # e THEN g.nodes[n] ELSE DeadNode(g.nodes[n])
  BY <1>2, <1>4, OrphansFacts
<1>9. h \in Device /\ Bounded(h) /\ NodesKnown(h)
  BY <1>7, SoundFacts
<1>10. /\ SameCalls(h, f) /\ f.references = h.references /\ f.claims = h.claims
       /\ f.next_node = h.next_node
       /\ \A n \in DOMAIN f.nodes : n \in DOMAIN h.nodes /\ f.nodes[n] = h.nodes[n]
  BY <1>3, <1>9, CollectFacts
<1>11. Bounded(f)
  BY <1>9, <1>10 DEF Bounded, SameCalls
<1>12. Keeps(h, f)
  BY <1>3, <1>9, CollectKeeps DEF NodesKnown
<1>13. Sound(f, e)
  BY <1>7, <1>11, <1>12, KeepsSound
<1>14. OldNodes(d, f)
  <2>1. \A n \in DOMAIN g.nodes : g.nodes[n] \in GoodNode
    BY <1>4, FieldTypes, TableMember DEF Nodes
  <2>2. \A n \in DOMAIN g.nodes : /\ h.nodes[n].owner = g.nodes[n].owner
                                  /\ h.nodes[n].async_buffer = g.nodes[n].async_buffer
    BY <1>8, <2>1, DeadNodeFacts
  <2> QED BY <1>4, <1>8, <1>10, <2>2 DEF OldNodes, SameCalls
<1> QED BY <1>4, <1>8, <1>10, <1>13, <1>14 DEF SameCalls

\* The last step of release_endpoint: the endpoint's slot is cleared.
PutGone(d, E, T, m, mn) ==
  [d EXCEPT !.endpoints = E, !.threads = T, !.manager = m, !.manager_node = mn]
Emptied(d, e) ==
  PutGone(d, [d.endpoints EXCEPT ![e] = NoEndpoint], [d.threads EXCEPT ![e] = <<>>],
          IF d.manager = e THEN 0 ELSE d.manager,
          IF d.manager = e THEN 0 ELSE d.manager_node)

LEMMA PutGoneFacts ==
  ASSUME NEW d \in Device, NEW E \in Endpoints, NEW T \in ThreadTables,
         NEW m \in Tokens \cup {0}, NEW mn \in 0..NodeLimit, NEW f,
         f = PutGone(d, E, T, m, mn)
  PROVE /\ f \in Device /\ f.endpoints = E /\ f.threads = T
        /\ f.manager = m /\ f.manager_node = mn /\ f.manager_uid = d.manager_uid
        /\ f.next_token = d.next_token /\ f.next_node = d.next_node
        /\ f.next_transaction = d.next_transaction
        /\ f.transactions = d.transactions /\ f.work = d.work
        /\ f.references = d.references /\ f.nodes = d.nodes
        /\ f.claims = d.claims /\ f.deaths = d.deaths
  BY FieldTypes DEF Device, PutGone

LEMMA EmptyTable ==
  ASSUME NEW S, NEW T
  PROVE <<>> \in Tables(S, T) /\ DOMAIN <<>> = {}
<1>1. DOMAIN <<>> = {} /\ <<>> \in [DOMAIN <<>> -> T]
  OBVIOUS
<1> QED BY <1>1, TableMember

LEMMA EmptiedFacts ==
  ASSUME NEW d \in Device, NEW e \in Tokens, NEW f, f = Emptied(d, e)
  PROVE /\ f \in Device
        /\ \A u \in Tokens \ {e} : f.endpoints[u] = d.endpoints[u] /\ f.threads[u] = d.threads[u]
        /\ f.endpoints[e] = NoEndpoint /\ ~f.endpoints[e].used /\ ~f.endpoints[e].opened
        /\ DOMAIN f.threads[e] = {}
        /\ f.manager = (IF d.manager = e THEN 0 ELSE d.manager)
        /\ f.manager_node = (IF d.manager = e THEN 0 ELSE d.manager_node)
        /\ f.manager_uid = d.manager_uid
        /\ f.next_token = d.next_token /\ f.next_node = d.next_node
        /\ f.next_transaction = d.next_transaction
        /\ f.transactions = d.transactions /\ f.work = d.work
        /\ f.references = d.references /\ f.nodes = d.nodes
        /\ f.claims = d.claims /\ f.deaths = d.deaths
        /\ Bounded(d) => Bounded(f)
<1>1. NoEndpoint \in Endpoint /\ ~NoEndpoint.used /\ ~NoEndpoint.opened
  BY DEF NoEndpoint, Endpoint
<1>2. PICK E \in Endpoints : E = [d.endpoints EXCEPT ![e] = NoEndpoint]
  BY <1>1, FieldTypes DEF Endpoints
<1>3. E[e] = NoEndpoint /\ \A u \in Tokens \ {e} : E[u] = d.endpoints[u]
  BY <1>2, FieldTypes DEF Endpoints
<1>4. <<>> \in Tables(Tids, Thread) /\ DOMAIN <<>> = {}
  BY EmptyTable
<1>5. PICK T \in ThreadTables : T = [d.threads EXCEPT ![e] = <<>>]
  BY <1>4, FieldTypes DEF ThreadTables
<1>6. T[e] = <<>> /\ \A u \in Tokens \ {e} : T[u] = d.threads[u]
  BY <1>5, FieldTypes DEF ThreadTables
<1>7. PICK m \in Tokens \cup {0} : m = IF d.manager = e THEN 0 ELSE d.manager
  BY FieldTypes
<1>8. PICK mn \in 0..NodeLimit : mn = IF d.manager = e THEN 0 ELSE d.manager_node
  BY FieldTypes, BinderAssumption
<1>9. f = PutGone(d, E, T, m, mn)
  BY <1>2, <1>5, <1>7, <1>8 DEF Emptied
<1>10. /\ f \in Device /\ f.endpoints = E /\ f.threads = T
        /\ f.manager = m /\ f.manager_node = mn /\ f.manager_uid = d.manager_uid
        /\ f.next_token = d.next_token /\ f.next_node = d.next_node
        /\ f.next_transaction = d.next_transaction
        /\ f.transactions = d.transactions /\ f.work = d.work
        /\ f.references = d.references /\ f.nodes = d.nodes
        /\ f.claims = d.claims /\ f.deaths = d.deaths
  BY <1>9, PutGoneFacts
<1>11. DOMAIN f.threads[e] = {}
  BY <1>4, <1>6, <1>10
<1>12. Bounded(d) => Bounded(f)
  <2> SUFFICES ASSUME Bounded(d) PROVE Bounded(f)
    OBVIOUS
  <2>1. Cardinality(DOMAIN f.threads[e]) <= ThreadLimit
    BY <1>11, FS_EmptySet, BinderAssumption
  <2>2. \A u \in Tokens : Cardinality(DOMAIN f.threads[u]) <= ThreadLimit
    BY <1>6, <1>10, <2>1 DEF Bounded
  <2> QED BY <1>10, <2>2 DEF Bounded
<1> QED BY <1>1, <1>3, <1>6, <1>7, <1>8, <1>10, <1>11, <1>12

LEMMA EmptiedSound ==
  ASSUME NEW d, NEW e \in Tokens, Sound(d, e), NEW f, f = Emptied(d, e)
  PROVE Sound(f, 0)
<1>0. d \in Device /\ Bounded(d)
  BY SoundFacts
<1>1. /\ f \in Device /\ Bounded(f)
      /\ \A u \in Tokens \ {e} : f.endpoints[u] = d.endpoints[u] /\ f.threads[u] = d.threads[u]
      /\ DOMAIN f.threads[e] = {}
      /\ ~f.endpoints[e].used /\ ~f.endpoints[e].opened
      /\ f.manager = (IF d.manager = e THEN 0 ELSE d.manager)
      /\ f.manager_node = (IF d.manager = e THEN 0 ELSE d.manager_node)
      /\ f.manager_uid = d.manager_uid
      /\ f.next_token = d.next_token /\ f.next_node = d.next_node
      /\ f.references = d.references /\ f.nodes = d.nodes
  BY <1>0, EmptiedFacts
<1>2. 0 \notin Tokens
  BY DEF Tokens
<1>3. \A y : endpoint_for(f, y) <=> y # e /\ endpoint_for(d, y)
  BY <1>1 DEF endpoint_for
<1>4. \A n \in DOMAIN d.nodes : d.nodes[n].owner \in Tokens
  <2>1. d.nodes \in Tables(NodeIds, GoodNode)
    BY <1>0, FieldTypes DEF Nodes
  <2>2. \A n \in DOMAIN d.nodes : d.nodes[n] \in GoodNode
    BY <2>1, TableMember
  <2> QED BY <2>2 DEF GoodNode, Node
<1>5. NodesKnown(f)
  BY <1>1 DEF Sound, Known, NodesKnown
<1>6. NodesOwned(d, e) /\ ManagerKnown(d, e) /\ TokensGiven(d)
  BY DEF Sound, Known
<1>7. NodesOwned(f, 0)
  BY <1>1, <1>2, <1>3, <1>4, <1>6 DEF NodesOwned
<1>8. ManagerKnown(f, 0)
  <2>1. CASE d.manager = e
    <3>1. \A n \in DOMAIN f.nodes : ~(f.nodes[n].manager /\ ~f.nodes[n].dead)
      BY <1>1, <1>6, <2>1 DEF ManagerKnown, NodesOwned
    <3> QED BY <1>1, <2>1, <3>1 DEF ManagerKnown
  <2>2. CASE d.manager # e
    <3>1. d.manager \in Tokens \cup {0}
      BY <1>0, FieldTypes
    <3>2. f.manager # 0 => /\ endpoint_for(f, f.manager)
                           /\ f.manager_uid = Uid[f.endpoints[f.manager].pid]
      BY <1>1, <1>3, <1>6, <2>2, <3>1 DEF ManagerKnown
    <3> QED BY <1>1, <1>6, <2>2, <3>2 DEF ManagerKnown
  <2> QED BY <2>1, <2>2
<1>9. TokensGiven(f)
  BY <1>1, <1>6 DEF TokensGiven
<1>10. SleepersOpen(f)
  <2>1. SleepersOpen(d)
    BY DEF Sound, Known
  <2> QED BY <1>1, <2>1 DEF SleepersOpen
<1> QED BY <1>1, <1>5, <1>7, <1>8, <1>9, <1>10 DEF Sound, Known

OwnClaims(d, e) == {c \in d.claims : c.endpoint = e}
\* The device just before the slot of endpoint e is cleared.
Released(d, e) ==
  LET f == release_references(cancel_transactions(d, e, 0), e)
  IN release_claims(f, OwnClaims(f, e))

LEMMA EndpointSteps ==
  ASSUME NEW d, NEW e, Released(d, e) \in Device
  PROVE release_endpoint(d, e) = Emptied(Released(d, e), e)
<1>1. PICK g : g = Released(d, e)
  OBVIOUS
<1>2. release_endpoint(d, e)
        = [g EXCEPT !.endpoints[e] = NoEndpoint, !.threads[e] = <<>>,
                    !.manager = IF g.manager = e THEN 0 ELSE @,
                    !.manager_node = IF g.manager = e THEN 0 ELSE @]
  BY <1>1 DEF release_endpoint, Released, OwnClaims
<1>3. [g EXCEPT !.endpoints[e] = NoEndpoint, !.threads[e] = <<>>,
                !.manager = IF g.manager = e THEN 0 ELSE @,
                !.manager_node = IF g.manager = e THEN 0 ELSE @] = Emptied(g, e)
  BY <1>1 DEF Emptied, PutGone, Device
<1> QED BY <1>1, <1>2, <1>3

LEMMA ReleasedFacts ==
  ASSUME NEW d, Sound(d, 0), NEW e \in Tokens, NEW f, f = Released(d, e)
  PROVE /\ f \in Device /\ Sound(f, e)
        /\ f.threads = EndedThreads(d, CancelledIds(d, e, 0))
        /\ f.next_transaction = d.next_transaction
        /\ f.transactions = d.transactions \ Cancelled(d, e, 0)
        /\ f.work = EraseAll(d.work, CancelledWork(d, e, 0))
        /\ f.endpoints = FreedArenas(d, CancelledWork(d, e, 0)) /\ OldNodes(d, f)
<1>0. d \in Device /\ Bounded(d) /\ NodesKnown(d)
  BY SoundFacts
<1>1. PICK g : g = cancel_transactions(d, e, 0)
  OBVIOUS
<1>2. PICK h : h = release_references(g, e)
  OBVIOUS
<1>3. f = release_claims(h, OwnClaims(h, e))
  BY <1>1, <1>2 DEF Released
<1>4. /\ g \in Device /\ Bounded(g) /\ NodesKnown(g) /\ Keeps(d, g)
      /\ g.threads = EndedThreads(d, CancelledIds(d, e, 0))
      /\ g.next_transaction = d.next_transaction
      /\ g.transactions = d.transactions \ Cancelled(d, e, 0)
      /\ g.work = EraseAll(d.work, CancelledWork(d, e, 0))
      /\ g.endpoints = FreedArenas(d, CancelledWork(d, e, 0)) /\ OldNodes(d, g)
  BY <1>0, <1>1, CancelFacts
<1>5. Sound(g, 0)
  BY <1>4, KeepsSound
<1>6. Sound(h, e) /\ SameCalls(g, h) /\ OldNodes(g, h)
  BY <1>2, <1>5, ReleaseReferencesFacts
<1>7. h \in Device /\ Bounded(h) /\ NodesKnown(h) /\ OwnClaims(h, e) \in SUBSET h.claims
  BY <1>6, SoundFacts DEF OwnClaims
<1>8. /\ f \in Device /\ SameCalls(h, f) /\ Bounded(f) /\ Keeps(h, f)
      /\ f.next_node = h.next_node
      /\ \A n \in DOMAIN f.nodes : n \in DOMAIN h.nodes /\ f.nodes[n] = h.nodes[n]
  BY <1>3, <1>7, ReleaseFacts
<1>9. Sound(f, e)
  BY <1>6, <1>8, KeepsSound
<1>10. OldNodes(d, f)
  BY <1>4, <1>6, <1>8 DEF OldNodes, SameCalls
<1> QED BY <1>4, <1>6, <1>8, <1>9, <1>10 DEF SameCalls

\* The other endpoints are as closed, and as mapped, as they were.
SameOthers(d, f, e) ==
  \A u \in Tokens \ {e} : /\ f.endpoints[u].used = d.endpoints[u].used
                          /\ f.endpoints[u].opened = d.endpoints[u].opened
                          /\ f.endpoints[u].mapping = d.endpoints[u].mapping
                          /\ f.endpoints[u].pid = d.endpoints[u].pid

LEMMA EndpointFacts ==
  ASSUME NEW d, Sound(d, 0), NEW e \in Tokens, NEW f, f = release_endpoint(d, e)
  PROVE /\ Sound(f, 0) /\ f \in Device /\ f = Emptied(Released(d, e), e)
        /\ SameOthers(d, f, e) /\ OldNodes(d, f)
<1>0. d \in Device /\ Bounded(d) /\ NodesKnown(d)
  BY SoundFacts
<1>1. PICK g : g = Released(d, e)
  OBVIOUS
<1>2. /\ g \in Device /\ Sound(g, e) /\ OldNodes(d, g)
      /\ g.endpoints = FreedArenas(d, CancelledWork(d, e, 0))
  BY <1>1, ReleasedFacts
<1>3. f = Emptied(g, e)
  BY <1>1, <1>2, EndpointSteps
<1>4. Sound(f, 0)
  BY <1>2, <1>3, EmptiedSound
<1>5. /\ f \in Device /\ \A u \in Tokens \ {e} : f.endpoints[u] = g.endpoints[u]
      /\ f.next_token = g.next_token /\ f.next_node = g.next_node /\ f.nodes = g.nodes
  BY <1>2, <1>3, EmptiedFacts
<1>6. \A u \in Tokens :
        /\ g.endpoints[u].used = d.endpoints[u].used
        /\ g.endpoints[u].opened = d.endpoints[u].opened
        /\ g.endpoints[u].mapping = d.endpoints[u].mapping
        /\ g.endpoints[u].pid = d.endpoints[u].pid
  BY <1>0, <1>2, FreedArenasFacts
<1>7. SameOthers(d, f, e)
  BY <1>5, <1>6 DEF SameOthers
<1>8. OldNodes(d, f)
  BY <1>2, <1>5 DEF OldNodes
<1> QED BY <1>1, <1>3, <1>4, <1>5, <1>7, <1>8

----------------------------------------------------------------------------
(* reap_closed.                                                              *)

\* What every release of an endpoint keeps, reaping keeps.
LEMMA ReapInduct ==
  ASSUME NEW S, NEW d \in S,
         \A f \in S : \A e \in Tokens : GoneIn(f, e) => release_endpoint(f, e) \in S
  PROVE reap_closed(d) \in S
<1> DEFINE Body(f, e) == IF e = 0 THEN d
                         ELSE IF GoneIn(f[e - 1], e) THEN release_endpoint(f[e - 1], e)
                         ELSE f[e - 1]
           Is(f, n) == f = [k \in 0..n |-> Body(f, k)]
           Built == {n \in Nat : \E f : Is(f, n)}
           reaped == CHOOSE f : Is(f, TokenLimit)
<1>0. TokenLimit \in Nat
  BY BinderAssumption
<1>1. 0 \in Built
  <2> DEFINE f == [k \in 0..0 |-> d]
  <2>1. Is(f, 0)
    OBVIOUS
  <2> QED BY <2>1
<1>2. ASSUME NEW n \in Nat, n \in Built PROVE n + 1 \in Built
  <2>1. PICK f : Is(f, n)
    BY <1>2
  <2> DEFINE g == [k \in 0..(n + 1) |-> IF k = n + 1 THEN Body(f, n + 1) ELSE f[k]]
  <2>2. ASSUME NEW k \in 0..(n + 1) PROVE g[k] = Body(g, k)
    <3>1. CASE k = n + 1
      <4>1. g[k] = Body(f, n + 1) /\ g[n] = f[n] /\ k # 0 /\ k - 1 = n
        BY <3>1
      <4> QED BY <4>1, <3>1
    <3>2. CASE k # n + 1
      <4>1. k \in 0..n /\ (k # 0 => k - 1 \in 0..n /\ k - 1 \in 0..(n + 1) /\ k - 1 # n + 1)
        BY <3>2
      <4>2. g[k] = f[k] /\ (k # 0 => g[k - 1] = f[k - 1])
        BY <4>1, <3>2
      <4>3. f[k] = Body(f, k)
        BY <4>1, <2>1
      <4> QED BY <4>2, <4>3
    <3> QED BY <3>1, <3>2
  <2>3. Is(g, n + 1)
    BY <2>2
  <2> HIDE DEF g, Is
  <2> QED BY <2>3
<1>3. Is(reaped, TokenLimit)
  <2> HIDE DEF Is
  <2>1. \A n \in Nat : n \in Built
    <3> HIDE DEF Built
    <3> QED BY <1>1, <1>2, Induct
  <2> QED BY <2>1, <1>0
<1>4. reap_closed(d) = reaped[TokenLimit]
  BY DEF reap_closed, InTurn
<1> HIDE DEF reaped
<1>5. reaped[0] = d
  BY <1>3, <1>0
<1>6. ASSUME NEW n \in Nat, n + 1 \in Tokens
      PROVE reaped[n + 1] = IF GoneIn(reaped[n], n + 1)
                            THEN release_endpoint(reaped[n], n + 1) ELSE reaped[n]
  <2>1. n + 1 \in 0..TokenLimit /\ n + 1 # 0 /\ (n + 1) - 1 = n
    BY <1>6, <1>0 DEF Tokens
  <2>2. reaped[n + 1] = Body(reaped, n + 1)
    BY <2>1, <1>3
  <2> QED BY <2>1, <2>2
<1> HIDE DEF Body
<1> DEFINE G == {n \in Nat : n <= TokenLimit => reaped[n] \in S}
<1>7. 0 \in G
  BY <1>5
<1>8. ASSUME NEW n \in Nat, n \in G PROVE n + 1 \in G
  <2> SUFFICES ASSUME n + 1 <= TokenLimit PROVE reaped[n + 1] \in S
    OBVIOUS
  <2>1. n + 1 \in Tokens /\ n <= TokenLimit
    BY <1>0 DEF Tokens
  <2>2. reaped[n] \in S
    BY <1>8, <2>1
  <2> QED BY <2>1, <2>2, <1>6
<1>9. \A n \in Nat : n \in G
  <2> HIDE DEF G
  <2> QED BY <1>7, <1>8, Induct
<1> QED BY <1>0, <1>4, <1>9

LEMMA ReapSound ==
  ASSUME NEW d, Sound(d, 0)
  PROVE Sound(reap_closed(d), 0)
<1> DEFINE S == {f \in Device : Sound(f, 0)}
<1>1. d \in S
  BY SoundFacts
<1>2. ASSUME NEW f \in S, NEW e \in Tokens
      PROVE release_endpoint(f, e) \in S
  BY EndpointFacts
<1>3. reap_closed(d) \in S
  <2> HIDE DEF S
  <2> QED BY <1>1, <1>2, ReapInduct
<1> QED BY <1>3

----------------------------------------------------------------------------
(* Translating the objects of a parcel.                                      *)

LEMMA NodeTable ==
  ASSUME NEW d \in Device
  PROVE /\ d.nodes \in Tables(NodeIds, GoodNode)
        /\ \A n \in DOMAIN d.nodes : /\ n \in NodeIds /\ n \in Nat /\ n # 0
                                    /\ d.nodes[n] \in GoodNode
                                    /\ d.nodes[n].owner \in Tokens
<1>1. d.nodes \in Tables(NodeIds, GoodNode)
  BY FieldTypes DEF Nodes
<1>2. \A n \in DOMAIN d.nodes : n \in NodeIds /\ d.nodes[n] \in GoodNode
  BY <1>1, TableMember
<1>3. \A n \in NodeIds : n \in Nat /\ n # 0
  BY DEF NodeIds
<1>4. \A n \in DOMAIN d.nodes : d.nodes[n].owner \in Tokens
  BY <1>2 DEF GoodNode, Node
<1> QED BY <1>1, <1>2, <1>3, <1>4

LEMMA ReferenceTable ==
  ASSUME NEW d \in Device
  PROVE /\ d.references \in Tables(Tokens \X NodeIds, Reference)
        /\ \A k \in DOMAIN d.references : /\ k \in Tokens \X NodeIds
                                         /\ k[1] \in Tokens /\ k[2] \in NodeIds
                                         /\ k = <<k[1], k[2]>>
                                         /\ d.references[k] \in Reference
<1>1. d.references \in Tables(Tokens \X NodeIds, Reference)
  BY FieldTypes DEF References
<1>2. \A k \in DOMAIN d.references : k \in Tokens \X NodeIds /\ d.references[k] \in Reference
  BY <1>1, TableMember
<1>3. \A k \in Tokens \X NodeIds : k[1] \in Tokens /\ k[2] \in NodeIds /\ k = <<k[1], k[2]>>
  OBVIOUS
<1> QED BY <1>1, <1>2, <1>3

\* f is d with more nodes and references: nothing that was there has changed.
Grown(d, f) ==
  /\ SameCalls(d, f) /\ f.deaths = d.deaths /\ d.next_node <= f.next_node
  /\ \A n \in DOMAIN d.nodes : n \in DOMAIN f.nodes /\ f.nodes[n] = d.nodes[n]
  /\ \A n \in DOMAIN f.nodes : n \notin DOMAIN d.nodes =>
       n >= d.next_node /\ f.nodes[n].async_buffer = 0 /\ ~f.nodes[n].manager

LEMMA GrownTrans ==
  ASSUME NEW d \in Device, NEW f \in Device, NEW g \in Device, Grown(d, f), Grown(f, g)
  PROVE Grown(d, g)
<1>1. d.next_node \in Nat /\ f.next_node \in Nat /\ g.next_node \in Nat
  BY FieldTypes DEF Counters
<1>2. DOMAIN g.nodes \subseteq Nat
  BY NodeTable
<1>3. d.next_node <= f.next_node /\ f.next_node <= g.next_node
  BY DEF Grown
<1>4. SameCalls(d, g) /\ g.deaths = d.deaths
  BY DEF Grown, SameCalls
<1>5. \A n \in DOMAIN d.nodes : n \in DOMAIN g.nodes /\ g.nodes[n] = d.nodes[n]
  BY DEF Grown
<1>6. ASSUME NEW n \in DOMAIN g.nodes, n \notin DOMAIN d.nodes
      PROVE n >= d.next_node /\ g.nodes[n].async_buffer = 0 /\ ~g.nodes[n].manager
  <2>1. CASE n \in DOMAIN f.nodes
    BY <1>6, <2>1 DEF Grown
  <2>2. CASE n \notin DOMAIN f.nodes
    <3>1. n >= f.next_node /\ g.nodes[n].async_buffer = 0 /\ ~g.nodes[n].manager
      BY <2>2 DEF Grown
    <3>2. n >= d.next_node
      BY <3>1, <1>1, <1>2, <1>3
    <3> QED BY <3>1, <3>2
  <2> QED BY <2>1, <2>2
<1>7. d.next_node <= g.next_node
  BY <1>1, <1>3
<1> QED BY <1>4, <1>5, <1>6, <1>7 DEF Grown

\* The numbers of nodes that d has given.
Given(d) == {n \in Nat : n < d.next_node}

\* The nodes of f are nodes of d, whose active one-way calls are the same, or are
\* new and have none.
SameTurns(d, f) ==
  /\ Given(d) \subseteq Given(f)
  /\ \A n \in DOMAIN f.nodes :
       \/ /\ n \in DOMAIN d.nodes /\ SameNode(d.nodes[n], f.nodes[n])
          /\ f.nodes[n].async_buffer = d.nodes[n].async_buffer
       \/ n \notin Given(d) /\ f.nodes[n].async_buffer = 0

LEMMA TurnsTrans ==
  ASSUME NEW d, NEW f, NEW g, SameTurns(d, f), SameTurns(f, g)
  PROVE SameTurns(d, g)
<1>1. Given(d) \subseteq Given(f) /\ Given(f) \subseteq Given(g)
  BY DEF SameTurns
<1>2. ASSUME NEW n \in DOMAIN g.nodes
      PROVE \/ /\ n \in DOMAIN d.nodes /\ SameNode(d.nodes[n], g.nodes[n])
               /\ g.nodes[n].async_buffer = d.nodes[n].async_buffer
            \/ n \notin Given(d) /\ g.nodes[n].async_buffer = 0
  <2>1. \/ /\ n \in DOMAIN f.nodes /\ SameNode(f.nodes[n], g.nodes[n])
           /\ g.nodes[n].async_buffer = f.nodes[n].async_buffer
        \/ n \notin Given(f) /\ g.nodes[n].async_buffer = 0
    BY <1>2 DEF SameTurns
  <2>2. n \in DOMAIN f.nodes =>
          \/ /\ n \in DOMAIN d.nodes /\ SameNode(d.nodes[n], f.nodes[n])
             /\ f.nodes[n].async_buffer = d.nodes[n].async_buffer
          \/ n \notin Given(d) /\ f.nodes[n].async_buffer = 0
    BY DEF SameTurns
  <2> QED BY <1>1, <2>1, <2>2 DEF SameNode
<1> QED BY <1>1, <1>2 DEF SameTurns

LEMMA EqualTurns ==
  ASSUME NEW d, NEW f, f.next_node = d.next_node,
         \A n \in DOMAIN f.nodes :
           /\ n \in DOMAIN d.nodes /\ SameNode(d.nodes[n], f.nodes[n])
           /\ f.nodes[n].async_buffer = d.nodes[n].async_buffer
  PROVE SameTurns(d, f)
<1>1. Given(d) = Given(f)
  BY DEF Given
<1> QED BY <1>1 DEF SameTurns

\* The same where every node there is has not changed.
LEMMA KeptTurns ==
  ASSUME NEW d, NEW f, f.next_node = d.next_node, DOMAIN f.nodes \subseteq DOMAIN d.nodes,
         \A n \in DOMAIN f.nodes : f.nodes[n] = d.nodes[n]
  PROVE SameTurns(d, f)
<1>1. \A n \in DOMAIN f.nodes :
        /\ n \in DOMAIN d.nodes /\ SameNode(d.nodes[n], f.nodes[n])
        /\ f.nodes[n].async_buffer = d.nodes[n].async_buffer
  BY DEF SameNode
<1> QED BY <1>1, EqualTurns

LEMMA ObjectsTurns ==
  ASSUME NEW d, NEW f, SameObjects(d, f)
  PROVE SameTurns(d, f)
<1>1. /\ f.next_node = d.next_node /\ DOMAIN f.nodes \subseteq DOMAIN d.nodes
      /\ \A n \in DOMAIN f.nodes : f.nodes[n] = d.nodes[n]
  BY DEF SameObjects
<1> QED BY <1>1, KeptTurns

LEMMA GrownTurns ==
  ASSUME NEW d \in Device, NEW f \in Device, Grown(d, f)
  PROVE SameTurns(d, f)
<1>1. d.next_node \in Nat /\ f.next_node \in Nat /\ d.next_node <= f.next_node
  BY FieldTypes DEF Counters, Grown
<1>2. Given(d) \subseteq Given(f)
  BY <1>1 DEF Given
<1>3. ASSUME NEW n \in DOMAIN f.nodes, n \in DOMAIN d.nodes
      PROVE /\ SameNode(d.nodes[n], f.nodes[n])
            /\ f.nodes[n].async_buffer = d.nodes[n].async_buffer
  BY <1>3 DEF Grown, SameNode
<1>4. ASSUME NEW n \in DOMAIN f.nodes, n \notin DOMAIN d.nodes
      PROVE n \notin Given(d) /\ f.nodes[n].async_buffer = 0
  <2>1. n >= d.next_node /\ f.nodes[n].async_buffer = 0
    BY <1>4 DEF Grown
  <2> QED BY <1>1, <2>1 DEF Given
<1> QED BY <1>2, <1>3, <1>4 DEF SameTurns

LEMMA GrownRefl ==
  ASSUME NEW d \in Device
  PROVE Grown(d, d)
<1>1. d.next_node <= d.next_node
  BY FieldTypes DEF Counters
<1> QED BY <1>1 DEF Grown, SameCalls

LEMMA AddClaimGrows ==
  ASSUME NEW x, NEW s \in Attempts, Sound(s.dev, x), NEW e \in Tokens,
         NEW b \in Buffers, NEW index \in Nat, NEW n \in DOMAIN s.dev.nodes,
         NEW remote \in BOOLEAN, NEW g, g = add_claim(s, e, b, index, n, remote)
  PROVE g \in Attempts /\ Sound(g.dev, x) /\ Grown(s.dev, g.dev)
<1>0. s.dev \in Device /\ Bounded(s.dev) /\ NodesKnown(s.dev)
  BY SoundFacts
<1>1. /\ g \in Attempts /\ SameCalls(s.dev, g.dev) /\ Bounded(g.dev)
      /\ g.dev.next_node = s.dev.next_node /\ g.dev.nodes = s.dev.nodes
      /\ g.dev.deaths = s.dev.deaths
      /\ Keeps(s.dev, g.dev)
  BY <1>0, AddClaimKeeps
<1>2. Sound(g.dev, x)
  BY <1>1, KeepsSound
<1>3. s.dev.next_node <= s.dev.next_node
  BY <1>0, FieldTypes DEF Counters
<1> QED BY <1>1, <1>2, <1>3 DEF Grown

\* The node an exported object stands for, in a device that has it.
Exports(s, e, t, object, d, n) ==
  \/ n \in owned_node(s.dev, e, object.pointer) /\ d = s.dev
  \/ /\ owned_node(s.dev, e, object.pointer) = {} /\ NodeAvailable(s.dev)
     /\ n = s.dev.next_node
     /\ d = create_node(s.dev, e, object.pointer, object.cookie, t, FALSE)

Errors == {"OK", "EINVAL", "ENOMEM", "EOPNOTSUPP"}
Refuses(s, g) == g = s \/ \E error \in Errors : g = PutError(s, error)
ExportsTo(s, e, t, target, b, index, object, d, n, g) ==
  Exports(s, e, t, object, d, n)
  /\ g = add_claim(PutDevice(s, d), target, b, index, n, e # target)
ForwardsTo(s, e, target, b, index, object, n, g) ==
  /\ n = StrongNode(s.dev, e, object.handle) /\ n # 0
  /\ g = add_claim(s, target, b, index, n, s.dev.nodes[n].owner # target)

LEMMA TranslateCases ==
  ASSUME NEW s, NEW e, NEW t, NEW target, NEW b, NEW index, NEW object, NEW g,
         g = Translate(s, e, t, target, b, index, object)
  PROVE \/ Refuses(s, g)
        \/ object.kind = "BINDER" /\
           \E d, n : ExportsTo(s, e, t, target, b, index, object, d, n, g)
        \/ object.kind # "BINDER" /\
           \E n : ForwardsTo(s, e, target, b, index, object, n, g)
<1>1. CASE s.error # "OK"
  BY <1>1 DEF Translate, Refuses
<1>2. CASE s.error = "OK" /\ object.kind = "BINDER"
  <2> DEFINE N == owned_node(s.dev, e, object.pointer)
  <2>1. CASE N # {} /\ \E n \in N : s.dev.nodes[n].cookie # object.cookie
    BY <1>2, <2>1 DEF Translate, Refuses, PutError, Errors
  <2>2. CASE N = {} /\ ~NodeAvailable(s.dev)
    BY <1>2, <2>2 DEF Translate, Refuses, PutError, Errors
  <2>3. CASE N = {} /\ NodeAvailable(s.dev)
    <3> DEFINE d == create_node(s.dev, e, object.pointer, object.cookie, t, FALSE)
               n == s.dev.next_node
    <3>1. g = add_claim(PutDevice(s, d), target, b, index, n, e # target)
      BY <1>2, <2>3 DEF Translate, PutDevice
    <3>2. ExportsTo(s, e, t, target, b, index, object, d, n, g)
      BY <2>3, <3>1 DEF ExportsTo, Exports
    <3> QED BY <1>2, <3>2
  <2>4. CASE N # {} /\ ~\E n \in N : s.dev.nodes[n].cookie # object.cookie
    <3> DEFINE n == CHOOSE m \in N : TRUE
    <3>1. g = add_claim(PutDevice(s, s.dev), target, b, index, n, e # target)
      BY <1>2, <2>4 DEF Translate, PutDevice
    <3>2. n \in N
      BY <2>4
    <3> HIDE DEF n
    <3>3. ExportsTo(s, e, t, target, b, index, object, s.dev, n, g)
      BY <3>1, <3>2 DEF ExportsTo, Exports
    <3> QED BY <1>2, <3>3
  <2> QED BY <2>1, <2>2, <2>3, <2>4
<1>3. CASE s.error = "OK" /\ object.kind # "BINDER"
  <2> DEFINE n == StrongNode(s.dev, e, object.handle)
  <2>1. CASE n = 0
    BY <1>3, <2>1 DEF Translate, Refuses, PutError, Errors
  <2>2. CASE n # 0
    <3>1. ForwardsTo(s, e, target, b, index, object, n, g)
      BY <1>3, <2>2 DEF Translate, ForwardsTo
    <3> QED BY <1>3, <3>1
  <2> QED BY <2>1, <2>2
<1> QED BY <1>1, <1>2, <1>3

LEMMA RefusesFacts ==
  ASSUME NEW s \in Attempts, NEW g, Refuses(s, g)
  PROVE g \in Attempts /\ g.dev = s.dev
  BY AttemptFacts DEF Refuses, Errors

\* What an exported object's node is.
LEMMA ExportsFacts ==
  ASSUME NEW s \in Attempts, Sound(s.dev, 0), NEW e \in Tokens, endpoint_for(s.dev, e),
         NEW t \in Tids \cup {0}, NEW object \in Objects, object.kind = "BINDER",
         NEW d, NEW n, Exports(s, e, t, object, d, n)
  PROVE d \in Device /\ Sound(d, 0) /\ Grown(s.dev, d) /\ n \in DOMAIN d.nodes
<1>0. s.dev \in Device /\ Bounded(s.dev) /\ NodesKnown(s.dev)
  BY SoundFacts
<1>1. object.pointer \in Nat /\ object.cookie \in Nat
  BY DEF Objects
<1>2. CASE n \in owned_node(s.dev, e, object.pointer) /\ d = s.dev
  <2>1. n \in DOMAIN d.nodes
    BY <1>2 DEF owned_node
  <2> QED BY <1>0, <1>2, <2>1, GrownRefl
<1>3. CASE /\ owned_node(s.dev, e, object.pointer) = {} /\ NodeAvailable(s.dev)
           /\ n = s.dev.next_node
           /\ d = create_node(s.dev, e, object.pointer, object.cookie, t, FALSE)
  <2>1. s.dev.next_node <= NodeLimit
    BY <1>3 DEF NodeAvailable
  <2>2. 0 \notin Tokens
    BY DEF Tokens
  <2>3. Known(d, 0)
    BY <1>1, <1>3, <2>1, <2>2, CreateKnown DEF Sound
  <2>4. PICK manager \in BOOLEAN : manager = FALSE
    OBVIOUS
  <2>p. PICK p \in Nat, c \in Nat : p = object.pointer /\ c = object.cookie
    BY <1>1
  <2>5. d = create_node(s.dev, e, p, c, t, manager)
    BY <1>3, <2>4, <2>p
  <2>6. /\ d \in Device /\ SameCalls(s.dev, d) /\ d.next_node = s.dev.next_node + 1
        /\ d.references = s.dev.references /\ d.claims = s.dev.claims
        /\ d.deaths = s.dev.deaths
        /\ \A m : m \in DOMAIN d.nodes <=> m \in DOMAIN s.dev.nodes \/ m = s.dev.next_node
        /\ \A m \in DOMAIN s.dev.nodes : m # s.dev.next_node => d.nodes[m] = s.dev.nodes[m]
        /\ d.nodes[s.dev.next_node] = FreshNode(e, p, c, t, manager)
    <3>1. Creates(s.dev, d, FreshNode(e, p, c, t, manager))
      BY <1>0, <2>1, <2>5, CreateFacts
    <3> QED BY <3>1 DEF Creates
  <2>7. Bounded(d)
    BY <1>0, <2>6 DEF Bounded, SameCalls
  <2>8. d.nodes[s.dev.next_node].async_buffer = 0 /\ ~d.nodes[s.dev.next_node].manager
    BY <2>4, <2>6, FreshNodeFacts
  <2>9. s.dev.next_node \in Nat
    BY <1>0, FieldTypes DEF Counters
  <2>10. \A m \in DOMAIN s.dev.nodes : m # s.dev.next_node
    <3>2. DOMAIN s.dev.nodes \subseteq Nat
      BY <1>0, NodeTable
    <3>3. \A m \in DOMAIN s.dev.nodes : m < s.dev.next_node
      BY <1>0 DEF NodesKnown
    <3> QED BY <3>2, <3>3, <2>9
  <2>11. s.dev.next_node <= d.next_node /\ s.dev.next_node >= s.dev.next_node
    BY <2>6, <2>9
  <2>12. Grown(s.dev, d)
    BY <2>6, <2>8, <2>10, <2>11 DEF Grown
  <2> QED BY <1>3, <2>3, <2>6, <2>7, <2>12 DEF Sound
<1> QED BY <1>2, <1>3 DEF Exports

LEMMA StrongNodeKnown ==
  ASSUME NEW d, NodesKnown(d), NEW e, NEW h, StrongNode(d, e, h) # 0
  PROVE \E k \in DOMAIN d.references :
          /\ StrongNode(d, e, h) = k[2] /\ k[1] = e /\ d.references[k].handle = h
          /\ d.references[k].strong > 0 \/ d.references[k].temporary_strong > 0
          /\ k[2] \in DOMAIN d.nodes
<1> DEFINE K == {k \in reference_for(d, e, h) :
                   d.references[k].strong > 0 \/ d.references[k].temporary_strong > 0}
           k == CHOOSE j \in K : TRUE
<1>1. K # {} /\ StrongNode(d, e, h) = k[2]
  BY DEF StrongNode
<1>2. k \in K
  BY <1>1
<1> HIDE DEF k
<1> QED BY <1>1, <1>2 DEF reference_for, NodesKnown

LEMMA TranslateGrows ==
  ASSUME NEW s \in Attempts, Sound(s.dev, 0), NEW e \in Tokens, endpoint_for(s.dev, e),
         NEW t \in Tids \cup {0}, NEW target \in Tokens, NEW b \in Buffers,
         NEW index \in Nat, NEW object \in Objects,
         NEW g, g = Translate(s, e, t, target, b, index, object)
  PROVE g \in Attempts /\ Sound(g.dev, 0) /\ Grown(s.dev, g.dev)
<1>0. s.dev \in Device /\ Bounded(s.dev) /\ NodesKnown(s.dev)
  BY SoundFacts
<1>1. CASE Refuses(s, g)
  <2>1. g \in Attempts /\ g.dev = s.dev
    BY <1>1, RefusesFacts
  <2> QED BY <2>1, <1>0, GrownRefl
<1>2. ASSUME NEW d, NEW n, ExportsTo(s, e, t, target, b, index, object, d, n, g),
             object.kind = "BINDER"
      PROVE g \in Attempts /\ Sound(g.dev, 0) /\ Grown(s.dev, g.dev)
  <2>1. d \in Device /\ Sound(d, 0) /\ Grown(s.dev, d) /\ n \in DOMAIN d.nodes
    BY <1>2, ExportsFacts DEF ExportsTo
  <2>2. PICK u \in Attempts : u = PutDevice(s, d) /\ u.dev = d
    BY <2>1, AttemptFacts
  <2>3. PICK remote \in BOOLEAN : remote = (e # target)
    OBVIOUS
  <2>4. g = add_claim(u, target, b, index, n, remote)
    BY <1>2, <2>2, <2>3 DEF ExportsTo
  <2>5. g \in Attempts /\ Sound(g.dev, 0) /\ Grown(u.dev, g.dev)
    BY <2>1, <2>2, <2>4, AddClaimGrows
  <2>6. g.dev \in Device
    BY <2>5, AttemptFacts
  <2> QED BY <1>0, <2>1, <2>2, <2>5, <2>6, GrownTrans
<1>3. ASSUME NEW n, ForwardsTo(s, e, target, b, index, object, n, g)
      PROVE g \in Attempts /\ Sound(g.dev, 0) /\ Grown(s.dev, g.dev)
  <2>1. n \in DOMAIN s.dev.nodes
    BY <1>0, <1>3, StrongNodeKnown DEF ForwardsTo
  <2>2. PICK remote \in BOOLEAN : remote = (s.dev.nodes[n].owner # target)
    OBVIOUS
  <2>3. g = add_claim(s, target, b, index, n, remote)
    BY <1>3, <2>2 DEF ForwardsTo
  <2> QED BY <2>1, <2>3, AddClaimGrows
<1> QED BY <1>1, <1>2, <1>3, TranslateCases

\* What the translation of every object keeps, translating them all keeps.
LEMMA TranslatedInduct ==
  ASSUME NEW S, NEW s \in S, NEW e, NEW t, NEW target, NEW b, NEW parcel \in Seq(Objects),
         \A u \in S : \A i \in DOMAIN parcel :
           Translate(u, e, t, target, b, i, parcel[i]) \in S
  PROVE Translated(s, e, t, target, b, parcel) \in S
<1> DEFINE Body(f, i) == IF i = 0 THEN s
                         ELSE Translate(f[i - 1], e, t, target, b, i, parcel[i])
           Is(f, n) == f = [k \in 0..n |-> Body(f, k)]
           Built == {n \in Nat : \E f : Is(f, n)}
           sent == CHOOSE f : Is(f, Len(parcel))
<1>0. Len(parcel) \in Nat /\ DOMAIN parcel = 1..Len(parcel)
  OBVIOUS
<1>1. 0 \in Built
  <2> DEFINE f == [k \in 0..0 |-> s]
  <2>1. Is(f, 0)
    OBVIOUS
  <2> QED BY <2>1
<1>2. ASSUME NEW n \in Nat, n \in Built PROVE n + 1 \in Built
  <2>1. PICK f : Is(f, n)
    BY <1>2
  <2> DEFINE g == [k \in 0..(n + 1) |-> IF k = n + 1 THEN Body(f, n + 1) ELSE f[k]]
  <2>2. ASSUME NEW k \in 0..(n + 1) PROVE g[k] = Body(g, k)
    <3>1. CASE k = n + 1
      <4>1. g[k] = Body(f, n + 1) /\ g[n] = f[n] /\ k # 0 /\ k - 1 = n
        BY <3>1
      <4> QED BY <4>1, <3>1
    <3>2. CASE k # n + 1
      <4>1. k \in 0..n /\ (k # 0 => k - 1 \in 0..n /\ k - 1 \in 0..(n + 1) /\ k - 1 # n + 1)
        BY <3>2
      <4>2. g[k] = f[k] /\ (k # 0 => g[k - 1] = f[k - 1])
        BY <4>1, <3>2
      <4>3. f[k] = Body(f, k)
        BY <4>1, <2>1
      <4> QED BY <4>2, <4>3
    <3> QED BY <3>1, <3>2
  <2>3. Is(g, n + 1)
    BY <2>2
  <2> HIDE DEF g, Is
  <2> QED BY <2>3
<1>3. Is(sent, Len(parcel))
  <2> HIDE DEF Is
  <2>1. \A n \in Nat : n \in Built
    <3> HIDE DEF Built
    <3> QED BY <1>1, <1>2, Induct
  <2> QED BY <2>1, <1>0
<1>4. Translated(s, e, t, target, b, parcel) = sent[Len(parcel)]
  BY DEF Translated, InTurn
<1> HIDE DEF sent
<1>5. sent[0] = s
  BY <1>3, <1>0
<1>6. ASSUME NEW n \in Nat, n + 1 \in DOMAIN parcel
      PROVE sent[n + 1] = Translate(sent[n], e, t, target, b, n + 1, parcel[n + 1])
  <2>1. n + 1 \in 0..Len(parcel) /\ n + 1 # 0 /\ (n + 1) - 1 = n
    BY <1>6, <1>0
  <2>2. sent[n + 1] = Body(sent, n + 1)
    BY <2>1, <1>3
  <2> QED BY <2>1, <2>2
<1> HIDE DEF Body
<1> DEFINE G == {n \in Nat : n <= Len(parcel) => sent[n] \in S}
<1>7. 0 \in G
  BY <1>5
<1>8. ASSUME NEW n \in Nat, n \in G PROVE n + 1 \in G
  <2> SUFFICES ASSUME n + 1 <= Len(parcel) PROVE sent[n + 1] \in S
    OBVIOUS
  <2>1. n + 1 \in DOMAIN parcel /\ n <= Len(parcel)
    BY <1>0
  <2>2. sent[n] \in S
    BY <1>8, <2>1
  <2> QED BY <2>1, <2>2, <1>6
<1>9. \A n \in Nat : n \in G
  <2> HIDE DEF G
  <2> QED BY <1>7, <1>8, Induct
<1> QED BY <1>0, <1>4, <1>9

LEMMA TranslatedGrows ==
  ASSUME NEW s \in Attempts, Sound(s.dev, 0), NEW e \in Tokens, endpoint_for(s.dev, e),
         NEW t \in Tids \cup {0}, NEW target \in Tokens, NEW b \in Buffers,
         NEW parcel \in Seq(Objects),
         NEW g, g = Translated(s, e, t, target, b, parcel)
  PROVE g \in Attempts /\ Sound(g.dev, 0) /\ Grown(s.dev, g.dev)
<1> DEFINE S == {u \in Attempts : Sound(u.dev, 0) /\ Grown(s.dev, u.dev)}
<1>0. s.dev \in Device
  BY AttemptFacts
<1>1. s \in S
  BY <1>0, GrownRefl
<1>2. ASSUME NEW u \in S, NEW i \in DOMAIN parcel
      PROVE Translate(u, e, t, target, b, i, parcel[i]) \in S
  <2>1. i \in Nat /\ parcel[i] \in Objects
    OBVIOUS
  <2>2. u \in Attempts /\ Sound(u.dev, 0) /\ Grown(s.dev, u.dev) /\ u.dev \in Device
    BY AttemptFacts
  <2>3. endpoint_for(u.dev, e)
    BY <2>2 DEF Grown, SameCalls, endpoint_for
  <2>4. PICK v : v = Translate(u, e, t, target, b, i, parcel[i])
    OBVIOUS
  <2>5. v \in Attempts /\ Sound(v.dev, 0) /\ Grown(u.dev, v.dev)
    BY <2>1, <2>2, <2>3, <2>4, TranslateGrows
  <2>6. Grown(s.dev, v.dev)
    BY <1>0, <2>2, <2>5, AttemptFacts, GrownTrans
  <2> QED BY <2>4, <2>5, <2>6
<1>3. g \in S
  <2> HIDE DEF S
  <2> QED BY <1>1, <1>2, TranslatedInduct
<1> QED BY <1>3

----------------------------------------------------------------------------
(* reserve_payload.                                                          *)

LEMMA MinIn ==
  ASSUME NEW S \in SUBSET Nat, S # {}
  PROVE Min(S) \in S /\ \A n \in S : Min(S) <= n
<1>1. PICK m \in S : \A n \in S : m <= n
  BY LeastNatural
<1> QED BY <1>1 DEF Min

States == {"free", "reserved", "delivered"}
SetArena(d, e, b, v) == [d EXCEPT !.endpoints[e].arena[b] = v]

LEMMA SetArenaFacts ==
  ASSUME NEW d \in Device, NEW e \in Tokens, NEW b \in Buffers, NEW v \in States,
         NEW f, f = SetArena(d, e, b, v)
  PROVE /\ f \in Device /\ SameObjects(d, f) /\ SameOwners(d, f)
        /\ f.threads = d.threads /\ f.next_transaction = d.next_transaction
        /\ f.transactions = d.transactions /\ f.work = d.work
        /\ \A u \in Tokens \ {e} : f.endpoints[u] = d.endpoints[u]
        /\ \A c \in Buffers \ {b} : f.endpoints[e].arena[c] = d.endpoints[e].arena[c]
        /\ f.endpoints[e].arena[b] = v
        /\ \A u \in Tokens : /\ f.endpoints[u].opened = d.endpoints[u].opened
                             /\ f.endpoints[u].mapping = d.endpoints[u].mapping
                             /\ f.endpoints[u].nonblocking = d.endpoints[u].nonblocking
        /\ Bounded(d) => Bounded(f)
        /\ NodesKnown(d) => Keeps(d, f) /\ NodesKnown(f)
<1> DEFINE A == [d.endpoints[e].arena EXCEPT ![b] = v]
<1>1. d.endpoints[e] \in Endpoint
  BY FieldTypes DEF Endpoints
<1>2. d.endpoints[e].arena \in [Buffers -> States]
  BY <1>1 DEF Endpoint, States
<1>3. A \in [Buffers -> {"free", "reserved", "delivered"}] /\ A[b] = v
      /\ \A c \in Buffers \ {b} : A[c] = d.endpoints[e].arena[c]
  BY <1>2 DEF States
<1>4. PICK ep : ep = [d.endpoints[e] EXCEPT !.arena = A]
  OBVIOUS
<1>5. f = PutEndpoint(d, e, ep)
  BY <1>4 DEF SetArena, PutEndpoint
<1> HIDE DEF A
<1>6. /\ ep \in Endpoint /\ ep.arena = A
      /\ ep.used = d.endpoints[e].used /\ ep.opened = d.endpoints[e].opened
      /\ ep.nonblocking = d.endpoints[e].nonblocking
      /\ ep.pid = d.endpoints[e].pid /\ ep.mapping = d.endpoints[e].mapping
  BY <1>1, <1>3, <1>4, ArenaFacts
<1>7. /\ f \in Device /\ SameObjects(d, f)
      /\ f.threads = d.threads /\ f.next_transaction = d.next_transaction
      /\ f.transactions = d.transactions /\ f.work = d.work
      /\ \A u \in Tokens \ {e} : f.endpoints[u] = d.endpoints[u]
      /\ f.endpoints[e] = ep
      /\ Bounded(d) => Bounded(f)
      /\ NodesKnown(d) => Keeps(d, f) /\ NodesKnown(f) /\ SameOwners(d, f)
  BY <1>5, <1>6, PutEndpointFacts
<1>8. SameOwners(d, f)
  BY <1>6, <1>7 DEF SameOwners
<1> QED BY <1>3, <1>6, <1>7, <1>8

LEMMA SetArenaExact ==
  ASSUME NEW d \in Device, NEW e \in Tokens, NEW b, NEW v, NEW f, f = SetArena(d, e, b, v)
  PROVE f.endpoints = [d.endpoints EXCEPT ![e] = [d.endpoints[e] EXCEPT !.arena =
                         [d.endpoints[e].arena EXCEPT ![b] = v]]]
  BY DEF SetArena, Device

\* The state reserve_payload translates the objects from.
Reserved(d, target, b) == [dev |-> SetArena(d, target, b, "reserved"), error |-> "OK"]
FirstHold(d, target, b, n) ==
  IF n # 0 /\ ~d.nodes[n].manager
  THEN add_claim(Reserved(d, target, b), target, b, 0, n, FALSE)
  ELSE Reserved(d, target, b)
\* What a failure leaves.
Unwound(u, target, b) ==
  PutDevice(u, SetArena(release_claims(u.dev, ClaimsOf(u.dev, target, b)),
                        target, b, "free"))
Admits(d, target, parcel) ==
  /\ d.endpoints[target].mapping = "intact" /\ FreeBuffers(d, target) # {}
  /\ \A i \in DOMAIN parcel : parcel[i].kind \notin {"MALFORMED", "FD"}

Rejects(d, s) == s.dev = d /\ s.error # "OK" /\ s \in [dev : {d}, error : Errors]
Reserves(d, e, t, target, n, parcel, b, u, s) ==
  /\ Admits(d, target, parcel) /\ b = Min(FreeBuffers(d, target))
  /\ u = Translated(FirstHold(d, target, b, n), e, t, target, b, parcel)
  /\ s = IF u.error = "OK" THEN u ELSE Unwound(u, target, b)

LEMMA ReserveCases ==
  ASSUME NEW d, NEW e, NEW t, NEW target, NEW n, NEW parcel,
         NEW s, s = reserve_payload(d, e, t, target, n, parcel)
  PROVE \/ Rejects(d, s)
        \/ \E b, u : Reserves(d, e, t, target, n, parcel, b, u, s)
<1>1. CASE Admits(d, target, parcel)
  <2> DEFINE b == Min(FreeBuffers(d, target))
             u == Translated(FirstHold(d, target, b, n), e, t, target, b, parcel)
  <2>1. s = IF u.error = "OK" THEN u ELSE Unwound(u, target, b)
    <3>1. /\ d.endpoints[target].mapping = "intact" /\ FreeBuffers(d, target) # {}
          /\ ~\E i \in DOMAIN parcel : parcel[i].kind = "MALFORMED"
          /\ ~\E i \in DOMAIN parcel : parcel[i].kind = "FD"
      BY <1>1 DEF Admits
    <3>2. Reserved(d, target, b)
            = [dev |-> [d EXCEPT !.endpoints[target].arena[b] = "reserved"], error |-> "OK"]
      BY Zenon DEF Reserved, SetArena
    <3>3. FirstHold(d, target, b, n)
            = IF n # 0 /\ ~d.nodes[n].manager
              THEN add_claim([dev |-> [d EXCEPT !.endpoints[target].arena[b] = "reserved"],
                              error |-> "OK"], target, b, 0, n, FALSE)
              ELSE [dev |-> [d EXCEPT !.endpoints[target].arena[b] = "reserved"],
                    error |-> "OK"]
      BY Zenon, <3>2 DEF FirstHold
    <3>4. Unwound(u, target, b)
            = [u EXCEPT !.dev = [release_claims(u.dev, ClaimsOf(u.dev, target, b)) EXCEPT
                                   !.endpoints[target].arena[b] = "free"]]
      BY Zenon DEF Unwound, PutDevice, SetArena
    <3> QED BY Zenon, <3>1, <3>3, <3>4 DEF reserve_payload
  <2>2. Reserves(d, e, t, target, n, parcel, b, u, s)
    BY <1>1, <2>1 DEF Reserves
  <2> QED BY <2>2
<1>2. CASE ~Admits(d, target, parcel)
  <2>1. \/ d.endpoints[target].mapping # "intact"
        \/ \E i \in DOMAIN parcel : parcel[i].kind = "MALFORMED"
        \/ \E i \in DOMAIN parcel : parcel[i].kind = "FD"
        \/ FreeBuffers(d, target) = {}
    BY <1>2 DEF Admits
  <2>2. \/ s = [dev |-> d, error |-> "EOPNOTSUPP"] \/ s = [dev |-> d, error |-> "EINVAL"]
        \/ s = [dev |-> d, error |-> "ENOMEM"]
    BY Zenon, <2>1 DEF reserve_payload
  <2> QED BY <2>2 DEF Rejects, Errors
<1> QED BY <1>1, <1>2

LEMMA SetArenaBack ==
  ASSUME NEW d \in Device, NEW e \in Tokens, NEW b \in Buffers,
         d.endpoints[e].arena[b] = "free",
         NEW r, r = SetArena(d, e, b, "reserved"),
         NEW w \in Device, w.endpoints = r.endpoints,
         NEW z, z = SetArena(w, e, b, "free")
  PROVE z.endpoints = d.endpoints
<1>0. "reserved" \in States /\ "free" \in States
  BY DEF States
<1>r. r.endpoints = [d.endpoints EXCEPT ![e] = [d.endpoints[e] EXCEPT !.arena =
                          [d.endpoints[e].arena EXCEPT ![b] = "reserved"]]]
  <2>1. PICK v : v = "reserved"
    OBVIOUS
  <2>2. r = SetArena(d, e, b, v)
    BY <2>1
  <2>3. r.endpoints = [d.endpoints EXCEPT ![e] = [d.endpoints[e] EXCEPT !.arena =
                          [d.endpoints[e].arena EXCEPT ![b] = v]]]
    BY <2>2, SetArenaExact
  <2> QED BY <2>1, <2>3
<1>z. z.endpoints = [w.endpoints EXCEPT ![e] = [w.endpoints[e] EXCEPT !.arena =
                          [w.endpoints[e].arena EXCEPT ![b] = "free"]]]
  BY SetArenaExact
<1>1. r \in Device /\ \A u \in Tokens \ {e} : r.endpoints[u] = d.endpoints[u]
  BY <1>0, SetArenaFacts
<1>2. z \in Device /\ \A u \in Tokens \ {e} : z.endpoints[u] = w.endpoints[u]
  BY <1>0, SetArenaFacts
<1>3. z.endpoints \in [Tokens -> Endpoint] /\ d.endpoints \in [Tokens -> Endpoint]
      /\ w.endpoints \in [Tokens -> Endpoint]
  BY <1>2, FieldTypes DEF Endpoints
<1>4. z.endpoints[e] = d.endpoints[e]
  <2> DEFINE ep == d.endpoints[e]
  <2>1. ep \in Endpoint /\ ep.arena \in [Buffers -> {"free", "reserved", "delivered"}]
    BY <1>3 DEF Endpoint
  <2>2. w.endpoints[e] = [ep EXCEPT !.arena = [ep.arena EXCEPT ![b] = "reserved"]]
    BY <1>r, <1>3
  <2>3. z.endpoints[e] = [w.endpoints[e] EXCEPT !.arena =
                            [w.endpoints[e].arena EXCEPT ![b] = "free"]]
    BY <1>z, <1>3
  <2>4. w.endpoints[e].arena = [ep.arena EXCEPT ![b] = "reserved"]
    BY <2>1, <2>2 DEF Endpoint
  <2>5. [w.endpoints[e].arena EXCEPT ![b] = "free"] = ep.arena
    BY <2>1, <2>4
  <2>6. z.endpoints[e] = [w.endpoints[e] EXCEPT !.arena = ep.arena]
    BY <2>3, <2>5
  <2> QED BY <2>1, <2>2, <2>6 DEF Endpoint
<1> QED BY <1>1, <1>2, <1>3, <1>4

SameTraffic(d, f) ==
  /\ f.next_token = d.next_token /\ f.next_transaction = d.next_transaction
  /\ f.threads = d.threads /\ f.transactions = d.transactions /\ f.work = d.work
  /\ f.manager = d.manager /\ f.manager_node = d.manager_node
  /\ f.manager_uid = d.manager_uid

LEMMA ReservedFacts ==
  ASSUME NEW d, Sound(d, 0), NEW target \in Tokens, NEW b \in Buffers,
         NEW n, n = 0 \/ n \in DOMAIN d.nodes
  PROVE LET r == SetArena(d, target, b, "reserved")
            v == FirstHold(d, target, b, n) IN
        /\ r \in Device /\ Sound(r, 0) /\ SameObjects(d, r) /\ SameTraffic(d, r)
        /\ SameOwners(d, r)
        /\ v \in Attempts /\ Sound(v.dev, 0) /\ Grown(r, v.dev)
<1>0. d \in Device /\ Bounded(d) /\ NodesKnown(d) /\ "reserved" \in States
  BY SoundFacts DEF States
<1>1. PICK r : r = SetArena(d, target, b, "reserved")
  OBVIOUS
<1>2. /\ r \in Device /\ SameObjects(d, r) /\ SameOwners(d, r)
      /\ r.threads = d.threads /\ r.next_transaction = d.next_transaction
      /\ r.transactions = d.transactions /\ r.work = d.work
      /\ Bounded(r) /\ Keeps(d, r)
  <2>1. PICK v \in States : v = "reserved"
    BY <1>0
  <2>2. r = SetArena(d, target, b, v)
    BY <1>1, <2>1
  <2> QED BY <1>0, <2>2, SetArenaFacts
<1>3. Sound(r, 0)
  BY <1>2, KeepsSound
<1>4. SameTraffic(d, r)
  BY <1>2 DEF SameTraffic, SameObjects
<1>5. PICK s \in Attempts : s = Reserved(d, target, b) /\ s.dev = r
  <2>1. Reserved(d, target, b) = [dev |-> r, error |-> "OK"]
    BY <1>1 DEF Reserved
  <2>2. [dev |-> r, error |-> "OK"] \in Attempts /\ [dev |-> r, error |-> "OK"].dev = r
    BY <1>2 DEF Attempts
  <2> QED BY <2>1, <2>2
<1>6. PICK v : v = FirstHold(d, target, b, n)
  OBVIOUS
<1>7. v \in Attempts /\ Sound(v.dev, 0) /\ Grown(r, v.dev)
  <2>1. CASE n # 0 /\ ~d.nodes[n].manager
    <3>1. PICK remote \in BOOLEAN : remote = FALSE
      OBVIOUS
    <3>2. v = add_claim(s, target, b, 0, n, remote)
      BY <1>5, <1>6, <2>1, <3>1 DEF FirstHold
    <3>3. n \in DOMAIN s.dev.nodes
      BY <1>2, <1>5, <2>1 DEF SameObjects
    <3> QED BY <1>3, <1>5, <3>2, <3>3, AddClaimGrows
  <2>2. CASE ~(n # 0 /\ ~d.nodes[n].manager)
    <3>1. v = s
      BY <1>5, <1>6, <2>2 DEF FirstHold
    <3> QED BY <1>2, <1>3, <1>5, <3>1, GrownRefl
  <2> QED BY <2>1, <2>2
<1> QED BY <1>1, <1>2, <1>3, <1>4, <1>6, <1>7

LEMMA FreeBufferFound ==
  ASSUME NEW d, NEW e, FreeBuffers(d, e) # {}
  PROVE Min(FreeBuffers(d, e)) \in Buffers
        /\ d.endpoints[e].arena[Min(FreeBuffers(d, e))] = "free"
<1>1. FreeBuffers(d, e) \in SUBSET Nat
  BY DEF FreeBuffers, Buffers
<1>2. Min(FreeBuffers(d, e)) \in FreeBuffers(d, e)
  BY <1>1, MinIn
<1> QED BY <1>2 DEF FreeBuffers

\* The parcel has the first free buffer of its target.
HasBuffer(d, target, parcel, s) ==
  LET b == Min(FreeBuffers(d, target)) IN
  /\ Admits(d, target, parcel) /\ b \in Buffers
  /\ d.endpoints[target].arena[b] = "free"
  /\ Grown(SetArena(d, target, b, "reserved"), s.dev)

SameEndpoints(d, f) == f.endpoints = d.endpoints

LEMMA ReserveFacts ==
  ASSUME NEW d, Sound(d, 0), NEW e \in Tokens, endpoint_for(d, e),
         NEW t \in Tids \cup {0}, NEW target \in Tokens,
         NEW n, n = 0 \/ n \in DOMAIN d.nodes, NEW parcel \in Seq(Objects),
         NEW s, s = reserve_payload(d, e, t, target, n, parcel)
  PROVE /\ s \in Attempts /\ Sound(s.dev, 0) /\ SameTraffic(d, s.dev)
        /\ SameOwners(d, s.dev)
        /\ SameTurns(d, s.dev)
        /\ s.error # "OK" => SameEndpoints(d, s.dev)
        /\ s.error = "OK" => HasBuffer(d, target, parcel, s)
<1>0. d \in Device /\ Bounded(d) /\ NodesKnown(d)
  BY SoundFacts
<1>1. CASE Rejects(d, s)
  <2>1. s \in Attempts /\ s.dev = d /\ s.error # "OK"
    BY <1>0, <1>1 DEF Rejects, Attempts, Errors
  <2>2. SameTurns(d, s.dev)
    BY <2>1, KeptTurns
  <2> QED BY <2>1, <2>2 DEF SameTraffic, SameOwners, SameEndpoints
<1>2. ASSUME NEW b, NEW u, Reserves(d, e, t, target, n, parcel, b, u, s)
      PROVE /\ s \in Attempts /\ Sound(s.dev, 0) /\ SameTraffic(d, s.dev)
            /\ SameOwners(d, s.dev) /\ SameTurns(d, s.dev)
            /\ s.error # "OK" => SameEndpoints(d, s.dev)
            /\ s.error = "OK" =>
                 /\ Admits(d, target, parcel) /\ b \in Buffers
                 /\ d.endpoints[target].arena[b] = "free"
                 /\ Grown(SetArena(d, target, b, "reserved"), s.dev)
            /\ b = Min(FreeBuffers(d, target))
  <2>1. b \in Buffers /\ d.endpoints[target].arena[b] = "free"
        /\ b = Min(FreeBuffers(d, target))
    BY <1>2, FreeBufferFound DEF Reserves, Admits
  <2>2. PICK r : r = SetArena(d, target, b, "reserved")
    OBVIOUS
  <2>3. PICK v : v = FirstHold(d, target, b, n)
    OBVIOUS
  <2>4. /\ r \in Device /\ Sound(r, 0) /\ SameObjects(d, r) /\ SameTraffic(d, r)
        /\ SameOwners(d, r)
        /\ v \in Attempts /\ Sound(v.dev, 0) /\ Grown(r, v.dev)
    BY <2>1, <2>2, <2>3, ReservedFacts
  <2>5. endpoint_for(v.dev, e)
    BY <2>4 DEF Grown, SameCalls, SameOwners, endpoint_for
  <2>6. u = Translated(v, e, t, target, b, parcel)
    BY <1>2, <2>3 DEF Reserves
  <2>7. u \in Attempts /\ Sound(u.dev, 0) /\ Grown(v.dev, u.dev)
    BY <2>1, <2>4, <2>5, <2>6, TranslatedGrows
  <2>8. Grown(r, u.dev) /\ u.dev \in Device
    BY <2>4, <2>7, AttemptFacts, GrownTrans
  <2>9. SameTraffic(d, u.dev) /\ SameOwners(d, u.dev) /\ u.dev.endpoints = r.endpoints
    BY <2>4, <2>8 DEF Grown, SameCalls, SameTraffic, SameOwners
  <2>t. SameTurns(d, u.dev)
    BY <2>4, <2>8, ObjectsTurns, GrownTurns, TurnsTrans
  <2>10. CASE u.error = "OK"
    <3>1. s = u
      BY <1>2, <2>10 DEF Reserves
    <3> QED BY <1>2, <2>1, <2>2, <2>7, <2>8, <2>9, <2>t, <2>10, <3>1 DEF Reserves
  <2>11. CASE u.error # "OK"
    <3>1. s = Unwound(u, target, b)
      BY <1>2, <2>11 DEF Reserves
    <3>2. PICK w : w = release_claims(u.dev, ClaimsOf(u.dev, target, b))
      OBVIOUS
    <3>3. PICK z : z = SetArena(w, target, b, "free")
      OBVIOUS
    <3>4. u.dev \in Device /\ Bounded(u.dev) /\ NodesKnown(u.dev)
          /\ ClaimsOf(u.dev, target, b) \in SUBSET u.dev.claims
      BY <2>7, SoundFacts DEF ClaimsOf
    <3>5. w \in Device /\ SameCalls(u.dev, w) /\ Bounded(w) /\ Keeps(u.dev, w)
          /\ w.next_node = u.dev.next_node /\ DOMAIN w.nodes \subseteq DOMAIN u.dev.nodes
          /\ \A m \in DOMAIN w.nodes : w.nodes[m] = u.dev.nodes[m]
      BY <3>2, <3>4, ReleaseFacts
    <3>t. SameTurns(u.dev, w)
      BY <3>5, KeptTurns
    <3>6. Sound(w, 0) /\ NodesKnown(w)
      BY <2>7, <3>5, KeepsSound, SoundFacts
    <3>7. PICK free \in States : free = "free" /\ z = SetArena(w, target, b, free)
      BY <3>3 DEF States
    <3>8. /\ z \in Device /\ SameObjects(w, z) /\ Bounded(z) /\ Keeps(w, z)
          /\ z.threads = w.threads /\ z.next_transaction = w.next_transaction
          /\ z.transactions = w.transactions /\ z.work = w.work
      BY <2>1, <3>5, <3>6, <3>7, SetArenaFacts
    <3>9. Sound(z, 0)
      BY <3>6, <3>8, KeepsSound
    <3>10. s \in Attempts /\ s.dev = z /\ s.error = u.error
      BY <2>7, <3>1, <3>2, <3>3, <3>8, AttemptFacts DEF Unwound
    <3>11. z.endpoints = d.endpoints
      <4>1. w.endpoints = r.endpoints
        BY <2>9, <3>5 DEF SameCalls
      <4> QED BY <1>0, <2>1, <2>2, <3>3, <3>5, <4>1, SetArenaBack
    <3>12. SameTraffic(d, z)
      BY <2>9, <3>5, <3>8 DEF SameTraffic, SameCalls, SameObjects
    <3>13. SameOwners(d, z)
      BY <3>11 DEF SameOwners
    <3>14. SameTurns(d, z)
      BY <2>t, <3>8, <3>t, ObjectsTurns, TurnsTrans
    <3> QED BY <2>1, <2>11, <3>9, <3>10, <3>11, <3>12, <3>13, <3>14 DEF SameEndpoints
  <2> QED BY <2>10, <2>11
<1> QED BY <1>1, <1>2, ReserveCases DEF Rejects, HasBuffer

----------------------------------------------------------------------------
(* The updates that sending and reading are made of.                         *)

PutQueue(d, x, X, W) ==
  [d EXCEPT !.next_transaction = x, !.transactions = X, !.work = W]

LEMMA PutQueueFacts ==
  ASSUME NEW d \in Device, NEW x \in Counters, NEW X \in Transactions, NEW W \in Works,
         NEW f, f = PutQueue(d, x, X, W)
  PROVE /\ f \in Device /\ SameObjects(d, f) /\ SameOwners(d, f)
        /\ f.endpoints = d.endpoints /\ f.threads = d.threads
        /\ f.next_transaction = x /\ f.transactions = X /\ f.work = W
        /\ Bounded(d) /\ Len(W) <= PacketLimit => Bounded(f)
        /\ NodesKnown(d) => Keeps(d, f) /\ NodesKnown(f)
<1>1. f = PutCalls(d, d.endpoints, d.threads, x, X, W)
  BY DEF PutQueue, PutCalls, Device
<1>2. /\ f \in Device /\ SameObjects(d, f) /\ f.endpoints = d.endpoints
      /\ f.threads = d.threads /\ f.next_transaction = x
      /\ f.transactions = X /\ f.work = W
  BY <1>1, FieldTypes, PutCallsFacts
<1>3. SameOwners(d, f)
  BY <1>2 DEF SameOwners
<1>4. Bounded(d) /\ Len(W) <= PacketLimit => Bounded(f)
  BY <1>2 DEF Bounded, SameObjects
<1>5. NodesKnown(d) => Keeps(d, f) /\ NodesKnown(f)
  BY <1>2, <1>3, SameObjectsKeeps DEF NoNewSleepers
<1> QED BY <1>2, <1>3, <1>4, <1>5

PutNode(d, n, node) == [d EXCEPT !.nodes[n] = node]

LEMMA PutNodeFacts ==
  ASSUME NEW d \in Device, NEW n \in DOMAIN d.nodes, NEW node \in GoodNode,
         NEW f, f = PutNode(d, n, node)
  PROVE /\ f \in Device /\ SameCalls(d, f)
        /\ f.next_node = d.next_node /\ f.references = d.references
        /\ f.claims = d.claims /\ f.deaths = d.deaths
        /\ DOMAIN f.nodes = DOMAIN d.nodes /\ f.nodes[n] = node
        /\ \A m \in DOMAIN d.nodes : m # n => f.nodes[m] = d.nodes[m]
        /\ Bounded(d) => Bounded(f)
        /\ NodesKnown(d) => NodesKnown(f)
        /\ NodesKnown(d) /\ SameNode(d.nodes[n], node) => Keeps(d, f)
<1>1. d.nodes \in Tables(NodeIds, GoodNode)
  BY NodeTable
<1>2. PICK N : N = [d.nodes EXCEPT ![n] = node]
  OBVIOUS
<1>3. N \in Tables(NodeIds, GoodNode)
  BY <1>1, <1>2, TableExcept
<1>4. /\ DOMAIN N = DOMAIN d.nodes /\ N[n] = node
      /\ \A m \in DOMAIN d.nodes : m # n => N[m] = d.nodes[m]
  <2>1. d.nodes \in [DOMAIN d.nodes -> GoodNode]
    BY <1>1, TableMember
  <2> QED BY <2>1, <1>2
<1>5. f = PutNodes(d, N)
  BY <1>2 DEF PutNode, PutNodes
<1>6. N \in Nodes
  BY <1>3 DEF Nodes
<1>7. /\ f \in Device /\ SameCalls(d, f)
      /\ f.next_node = d.next_node /\ f.nodes = N /\ f.references = d.references
      /\ f.claims = d.claims /\ f.deaths = d.deaths
  BY <1>5, <1>6, PutNodesFacts
<1>8. Bounded(d) => Bounded(f)
  BY <1>7 DEF Bounded, SameCalls
<1>9. NodesKnown(d) => NodesKnown(f)
  BY <1>4, <1>7 DEF NodesKnown
<1>10. ASSUME NodesKnown(d), SameNode(d.nodes[n], node) PROVE Keeps(d, f)
  <2>1. \A m \in DOMAIN f.nodes : SameNode(d.nodes[m], f.nodes[m])
    BY <1>4, <1>7, <1>10 DEF SameNode
  <2>2. \A k \in DOMAIN f.references : k[2] \in DOMAIN f.nodes
    BY <1>4, <1>7, <1>10 DEF NodesKnown
  <2> QED BY <1>4, <1>7, <2>1, <2>2, SameCallsKeeps
<1> QED BY <1>4, <1>7, <1>8, <1>9, <1>10

\* The threads of endpoint e, all of them.
PutThreads(d, e, P) == [d EXCEPT !.threads[e] = P]

LEMMA PutThreadsFacts ==
  ASSUME NEW d \in Device, NEW e \in Tokens, NEW P \in Tables(Tids, Thread),
         \A s \in DOMAIN P : P[s].active => s \in DOMAIN d.threads[e] /\ d.threads[e][s].active,
         NEW f, f = PutThreads(d, e, P)
  PROVE /\ f \in Device /\ SameObjects(d, f) /\ SameOwners(d, f)
        /\ f.endpoints = d.endpoints /\ f.next_transaction = d.next_transaction
        /\ f.transactions = d.transactions /\ f.work = d.work
        /\ \A u \in Tokens \ {e} : f.threads[u] = d.threads[u]
        /\ f.threads[e] = P
        /\ Bounded(d) /\ Cardinality(DOMAIN P) <= ThreadLimit => Bounded(f)
        /\ NodesKnown(d) => Keeps(d, f) /\ NodesKnown(f)
<1> DEFINE T == [d.threads EXCEPT ![e] = P]
<1>1. T \in ThreadTables /\ T[e] = P /\ \A u \in Tokens \ {e} : T[u] = d.threads[u]
  BY FieldTypes DEF ThreadTables
<1>2. f = [d EXCEPT !.threads = T]
  BY DEF PutThreads
<1> HIDE DEF T
<1>3. f = PutCalls(d, d.endpoints, T, d.next_transaction, d.transactions, d.work)
  BY <1>2 DEF PutCalls, Device
<1>4. /\ f \in Device /\ SameObjects(d, f) /\ f.endpoints = d.endpoints /\ f.threads = T
      /\ f.next_transaction = d.next_transaction
      /\ f.transactions = d.transactions /\ f.work = d.work
  BY <1>1, <1>3, FieldTypes, PutCallsFacts
<1>5. SameOwners(d, f)
  BY <1>4 DEF SameOwners
<1>6. ASSUME Bounded(d), Cardinality(DOMAIN P) <= ThreadLimit PROVE Bounded(f)
  <2>1. \A u \in Tokens : Cardinality(DOMAIN f.threads[u]) <= ThreadLimit
    BY <1>1, <1>4, <1>6 DEF Bounded
  <2> QED BY <1>4, <1>6, <2>1 DEF Bounded, SameObjects
<1>7. NoNewSleepers(d, f)
  BY <1>1, <1>4 DEF NoNewSleepers
<1>8. NodesKnown(d) => Keeps(d, f) /\ NodesKnown(f)
  BY <1>4, <1>5, <1>7, SameObjectsKeeps
<1> QED BY <1>1, <1>4, <1>5, <1>6, <1>8

\* The states of a thread that the operations make.
SameButError(a, b) ==
  /\ b.looper = a.looper /\ b.incoming = a.incoming /\ b.outgoing = a.outgoing
  /\ b.completions = a.completions /\ b.dead_reply = a.dead_reply
  /\ b.initial_return = a.initial_return /\ b.active = a.active
SameButCompletions(a, b) ==
  /\ b.looper = a.looper /\ b.incoming = a.incoming /\ b.outgoing = a.outgoing
  /\ b.error = a.error /\ b.dead_reply = a.dead_reply
  /\ b.initial_return = a.initial_return /\ b.active = a.active
SameButCalls(a, b) ==
  /\ b.looper = a.looper /\ b.completions = a.completions
  /\ b.error = a.error /\ b.dead_reply = a.dead_reply
  /\ b.initial_return = a.initial_return /\ b.active = a.active
SameCallState(a, b) ==
  b.incoming = a.incoming /\ b.outgoing = a.outgoing /\ (b.dead_reply => a.dead_reply)

SetError(th, v) == [th EXCEPT !.error = v]
SetCompletions(th, v) == [th EXCEPT !.completions = v]
SetOutgoing(th, v) == [th EXCEPT !.outgoing = v]
SetIncoming(th, v) == [th EXCEPT !.incoming = v]

LEMMA SetErrorFacts ==
  ASSUME NEW th \in Thread, NEW v \in {None, "DEAD_REPLY", "FAILED_REPLY"}
  PROVE /\ SetError(th, v) \in Thread /\ SetError(th, v).error = v
        /\ SameButError(th, SetError(th, v))
  BY DEF Thread, SameButError, SetError

LEMMA SetCompletionsFacts ==
  ASSUME NEW th \in Thread, NEW v \in 0..PacketLimit
  PROVE /\ SetCompletions(th, v) \in Thread /\ SetCompletions(th, v).completions = v
        /\ SameButCompletions(th, SetCompletions(th, v))
  BY DEF Thread, SameButCompletions, SetCompletions

LEMMA SetOutgoingFacts ==
  ASSUME NEW th \in Thread, NEW v \in 0..TxnLimit
  PROVE /\ SetOutgoing(th, v) \in Thread /\ SetOutgoing(th, v).outgoing = v
        /\ SetOutgoing(th, v).incoming = th.incoming
        /\ SameButCalls(th, SetOutgoing(th, v))
  BY DEF Thread, SameButCalls, SetOutgoing

LEMMA SetIncomingFacts ==
  ASSUME NEW th \in Thread, NEW v \in 0..TxnLimit
  PROVE /\ SetIncoming(th, v) \in Thread /\ SetIncoming(th, v).incoming = v
        /\ SetIncoming(th, v).outgoing = th.outgoing
        /\ SameButCalls(th, SetIncoming(th, v))
  BY DEF Thread, SameButCalls, SetIncoming

\* f is d but for the state of thread t of endpoint e.
OneThread(d, f, e, t) ==
  /\ f \in Device /\ SameObjects(d, f) /\ SameOwners(d, f)
  /\ f.endpoints = d.endpoints /\ f.next_transaction = d.next_transaction
  /\ f.transactions = d.transactions /\ f.work = d.work
  /\ \A u \in Tokens : DOMAIN f.threads[u] = DOMAIN d.threads[u]
  /\ \A u \in Tokens \ {e} : f.threads[u] = d.threads[u]
  /\ \A s \in DOMAIN d.threads[e] \ {t} : f.threads[e][s] = d.threads[e][s]

LEMMA OneThreadSound ==
  ASSUME NEW d \in Device, NEW e \in Tokens, NEW t \in DOMAIN d.threads[e],
         NEW th \in Thread, MaySleep(d, e, t, th), NEW f, f = PutThread(d, e, t, th)
  PROVE /\ OneThread(d, f, e, t) /\ f.threads[e][t] = th
        /\ \A x : Sound(d, x) => Sound(f, x)
<1>1. /\ OneThread(d, f, e, t) /\ f.threads[e][t] = th
      /\ Bounded(d) => Bounded(f)
      /\ NodesKnown(d) => Keeps(d, f)
  BY PutThreadFacts DEF OneThread
<1>2. ASSUME NEW x, Sound(d, x) PROVE Sound(f, x)
  <2>1. Bounded(d) /\ NodesKnown(d)
    BY <1>2, SoundFacts
  <2> QED BY <1>1, <1>2, <2>1, KeepsSound
<1> QED BY <1>1, <1>2

LEMMA FailedFacts ==
  ASSUME NEW d, Sound(d, 0), NEW e \in Tokens, NEW t \in DOMAIN d.threads[e],
         NEW error \in {None, "DEAD_REPLY", "FAILED_REPLY"},
         NEW f, f = Failed(d, e, t, error)
  PROVE /\ Sound(f, 0) /\ OneThread(d, f, e, t)
        /\ f.threads[e][t].error = error /\ SameButError(d.threads[e][t], f.threads[e][t])
<1>0. d \in Device
  BY SoundFacts
<1>1. d.threads[e][t] \in Thread
  BY <1>0, ThreadTable
<1>2. PICK th : th = SetError(d.threads[e][t], error)
  OBVIOUS
<1>3. th \in Thread /\ th.error = error /\ SameButError(d.threads[e][t], th)
  BY <1>1, <1>2, SetErrorFacts
<1>4. f = PutThread(d, e, t, th)
  BY <1>2 DEF Failed, PutThread, SetError
<1> QED BY <1>0, <1>3, <1>4, OneThreadSound DEF MaySleep, SameButError

\* One more completion for the sender.
Completed(d, e, t) == [d EXCEPT !.threads[e][t].completions = @ + 1]

LEMMA CompletedFacts ==
  ASSUME NEW d, Sound(d, 0), NEW e \in Tokens, NEW t \in DOMAIN d.threads[e],
         d.threads[e][t].completions # PacketLimit, NEW f, f = Completed(d, e, t)
  PROVE /\ Sound(f, 0) /\ OneThread(d, f, e, t)
        /\ SameButCompletions(d.threads[e][t], f.threads[e][t])
<1>0. d \in Device
  BY SoundFacts
<1>1. d.threads[e][t] \in Thread
  BY <1>0, ThreadTable
<1>2. PICK c \in 0..PacketLimit : c = d.threads[e][t].completions + 1
  <2>1. d.threads[e][t].completions \in 0..PacketLimit /\ PacketLimit \in Nat
    BY <1>1, BinderAssumption DEF Thread
  <2>2. d.threads[e][t].completions + 1 \in 0..PacketLimit
    BY <2>1
  <2> QED BY <2>2
<1>3. PICK th : th = SetCompletions(d.threads[e][t], c)
  OBVIOUS
<1>4. th \in Thread /\ SameButCompletions(d.threads[e][t], th)
  BY <1>1, <1>3, SetCompletionsFacts
<1>5. f = PutThread(d, e, t, th)
  BY <1>2, <1>3 DEF Completed, PutThread, SetCompletions
<1> QED BY <1>0, <1>4, <1>5, OneThreadSound DEF MaySleep, SameButCompletions

----------------------------------------------------------------------------
(* Sending.                                                                  *)

Packet(e, t, command, id, n, b) ==
  [endpoint |-> e, tid |-> t, command |-> command, transaction |-> id,
   async_node |-> n, buffer |-> b]

LEMMA PacketFacts ==
  ASSUME NEW e \in Tokens, NEW t \in Tids \cup {0}, NEW command \in {"TRANSACTION", "REPLY"},
         NEW id \in 0..TxnLimit, NEW n \in 0..NodeLimit, NEW b \in Buffers
  PROVE LET w == Packet(e, t, command, id, n, b) IN
        /\ w \in Work /\ w.endpoint = e /\ w.tid = t /\ w.command = command
        /\ w.transaction = id /\ w.async_node = n /\ w.buffer = b
  BY DEF Packet, Work

LEMMA AppendWork ==
  ASSUME NEW d, Sound(d, 0), Len(d.work) # PacketLimit, NEW w \in Work,
         NEW x \in Counters, NEW X \in Transactions,
         NEW f, f = PutQueue(d, x, X, Append(d.work, w))
  PROVE /\ Sound(f, 0) /\ f \in Device /\ SameObjects(d, f) /\ SameOwners(d, f)
        /\ f.endpoints = d.endpoints /\ f.threads = d.threads
        /\ f.next_transaction = x /\ f.transactions = X /\ f.work = Append(d.work, w)
<1>0. d \in Device /\ Bounded(d) /\ NodesKnown(d)
  BY SoundFacts
<1>1. d.work \in Seq(Work) /\ PacketLimit \in Nat
  BY <1>0, FieldTypes, BinderAssumption DEF Works
<1>2. PICK W : W = Append(d.work, w)
  OBVIOUS
<1>3. W \in Seq(Work) /\ Len(W) = Len(d.work) + 1 /\ Len(d.work) \in Nat
  BY <1>1, <1>2
<1>4. Len(W) <= PacketLimit
  BY <1>0, <1>1, <1>3 DEF Bounded
<1>5. W \in Works
  BY <1>3 DEF Works
<1>q. f = PutQueue(d, x, X, W)
  BY <1>2
<1>6. /\ f \in Device /\ SameObjects(d, f) /\ SameOwners(d, f)
      /\ f.endpoints = d.endpoints /\ f.threads = d.threads
      /\ f.next_transaction = x /\ f.transactions = X /\ f.work = W
      /\ Bounded(f) /\ Keeps(d, f)
  BY <1>0, <1>4, <1>5, <1>q, PutQueueFacts
<1>7. Sound(f, 0)
  BY <1>6, KeepsSound
<1> QED BY <1>2, <1>6, <1>7

LEMMA NodeUpdates ==
  ASSUME NEW node \in GoodNode, NEW b \in 0..BufferLimit,
         NEW v, v = [node EXCEPT !.async_buffer = b]
  PROVE /\ v \in GoodNode /\ SameNode(node, v) /\ v.async_buffer = b
        /\ v.cookie = node.cookie /\ v.notification_tid = node.notification_tid
        /\ v.has_strong = node.has_strong /\ v.has_weak = node.has_weak
        /\ v.pending_strong = node.pending_strong /\ v.pending_weak = node.pending_weak
  BY DEF GoodNode, Node, SameNode

\* f is d but for the state of node n, which is as alive, and as used, as it was.
OneNode(d, f, n) ==
  /\ f \in Device /\ SameCalls(d, f)
  /\ f.next_node = d.next_node /\ f.references = d.references
  /\ f.claims = d.claims /\ f.deaths = d.deaths
  /\ DOMAIN f.nodes = DOMAIN d.nodes
  /\ \A m \in DOMAIN d.nodes : m # n => f.nodes[m] = d.nodes[m]

LEMMA OneNodeSound ==
  ASSUME NEW x, NEW d, Sound(d, x), NEW n \in DOMAIN d.nodes, NEW node \in GoodNode,
         SameNode(d.nodes[n], node), NEW f, f = PutNode(d, n, node)
  PROVE Sound(f, x) /\ OneNode(d, f, n) /\ f.nodes[n] = node
<1>0. d \in Device /\ Bounded(d) /\ NodesKnown(d)
  BY SoundFacts
<1>1. /\ OneNode(d, f, n) /\ f.nodes[n] = node
      /\ Bounded(f) /\ Keeps(d, f)
  BY <1>0, PutNodeFacts DEF OneNode
<1> QED BY <1>1, KeepsSound

ActiveBuffer(d, n, b) == IF d.nodes[n].async_buffer = 0 THEN b ELSE d.nodes[n].async_buffer

\* f is d with a one-way call for node n queued.
OneWaySent(d, f, n, b) ==
  /\ f.work = Append(d.work, Packet(d.nodes[n].owner, 0, "TRANSACTION", 0, n, b))
  /\ f.nodes[n] = [d.nodes[n] EXCEPT !.async_buffer = ActiveBuffer(d, n, b)]

LEMMA SendOneWayFacts ==
  ASSUME NEW d, Sound(d, 0), NEW n \in DOMAIN d.nodes, NEW b \in Buffers,
         Len(d.work) # PacketLimit, NEW f, f = SendOneWay(d, n, b)
  PROVE /\ Sound(f, 0) /\ f \in Device
        /\ f.next_token = d.next_token /\ f.next_node = d.next_node
        /\ f.next_transaction = d.next_transaction
        /\ f.endpoints = d.endpoints /\ f.threads = d.threads
        /\ f.transactions = d.transactions
        /\ f.references = d.references /\ f.claims = d.claims /\ f.deaths = d.deaths
        /\ DOMAIN f.nodes = DOMAIN d.nodes
        /\ \A m \in DOMAIN d.nodes : m # n => f.nodes[m] = d.nodes[m]
        /\ OneWaySent(d, f, n, b)
<1>0. d \in Device /\ Bounded(d) /\ NodesKnown(d)
  BY SoundFacts
<1>1. d.nodes[n] \in GoodNode /\ d.nodes[n].owner \in Tokens /\ n \in NodeIds
  BY <1>0, NodeTable
<1>2. PICK a \in 0..BufferLimit : a = ActiveBuffer(d, n, b)
  BY <1>1, BinderAssumption DEF ActiveBuffer, GoodNode, Node, Buffers
<1>3. PICK node : node = [d.nodes[n] EXCEPT !.async_buffer = a]
  OBVIOUS
<1>4. node \in GoodNode /\ SameNode(d.nodes[n], node)
  BY <1>1, <1>3, NodeUpdates
<1>5. PICK g : g = PutNode(d, n, node)
  OBVIOUS
<1>6. Sound(g, 0) /\ OneNode(d, g, n) /\ g.nodes[n] = node
  BY <1>4, <1>5, OneNodeSound
<1>7. PICK w \in Work : w = Packet(d.nodes[n].owner, 0, "TRANSACTION", 0, n, b)
  <2>1. PICK c \in {"TRANSACTION", "REPLY"} : c = "TRANSACTION"
    OBVIOUS
  <2>2. n \in 0..NodeLimit /\ 0 \in 0..TxnLimit
    BY <1>1, BinderAssumption DEF NodeIds
  <2>3. Packet(d.nodes[n].owner, 0, c, 0, n, b) \in Work
    BY <1>1, <2>2, PacketFacts
  <2> QED BY <2>1, <2>3
<1>8. f = PutQueue(g, g.next_transaction, g.transactions, Append(g.work, w))
  <2>1. g.work = d.work /\ g.next_transaction = d.next_transaction
        /\ g.transactions = d.transactions
    BY <1>6 DEF OneNode, SameCalls
  <2>2. g = [d EXCEPT !.nodes = [d.nodes EXCEPT ![n] = node]]
    BY <1>5 DEF PutNode
  <2>3. f = [d EXCEPT !.nodes = [d.nodes EXCEPT ![n] = node], !.work = Append(d.work, w)]
    BY <1>2, <1>3, <1>7 DEF SendOneWay, ActiveBuffer, Packet
  <2> QED BY <1>0, <2>1, <2>2, <2>3 DEF PutQueue, Device
<1>9. g \in Device /\ Len(g.work) # PacketLimit
  BY <1>6 DEF OneNode, SameCalls
<1>10. g.next_transaction \in Counters /\ g.transactions \in Transactions
  BY <1>9, FieldTypes
<1>11. /\ Sound(f, 0) /\ f \in Device /\ SameObjects(g, f)
       /\ f.endpoints = g.endpoints /\ f.threads = g.threads
       /\ f.next_transaction = g.next_transaction /\ f.transactions = g.transactions
       /\ f.work = Append(g.work, w)
  BY <1>6, <1>8, <1>9, <1>10, AppendWork
<1>12. /\ f.work = Append(d.work, w) /\ f.next_token = d.next_token
       /\ f.next_node = d.next_node
       /\ f.next_transaction = d.next_transaction
       /\ f.endpoints = d.endpoints /\ f.threads = d.threads
       /\ f.transactions = d.transactions
       /\ f.references = d.references /\ f.claims = d.claims /\ f.deaths = d.deaths
       /\ f.nodes = g.nodes
  BY <1>6, <1>11 DEF OneNode, SameCalls, SameObjects
<1>13. /\ DOMAIN f.nodes = DOMAIN d.nodes
       /\ \A m \in DOMAIN d.nodes : m # n => f.nodes[m] = d.nodes[m]
       /\ f.nodes[n] = node
  BY <1>6, <1>12 DEF OneNode
<1>14. OneWaySent(d, f, n, b)
  BY <1>2, <1>3, <1>7, <1>12, <1>13 DEF OneWaySent
<1> QED BY <1>11, <1>12, <1>13, <1>14

CallRecord(id, e, t, target) ==
  [id |-> id, source |-> e, source_tid |-> t, target |-> target, target_tid |-> 0]

LEMMA CallRecordFacts ==
  ASSUME NEW id \in 1..TxnLimit, NEW e \in Tokens, NEW t \in Tids, NEW target \in Tokens
  PROVE LET x == CallRecord(id, e, t, target) IN
        /\ x \in Transaction /\ x.id = id /\ x.source = e /\ x.source_tid = t
        /\ x.target = target /\ x.target_tid = 0
  BY DEF CallRecord, Transaction

LEMMA SendCallFacts ==
  ASSUME NEW d, Sound(d, 0), NEW e \in Tokens, NEW t \in DOMAIN d.threads[e],
         NEW n \in DOMAIN d.nodes, NEW b \in Buffers, d.next_transaction <= TxnLimit,
         Len(d.work) # PacketLimit, NEW f, f = SendCall(d, e, t, n, b)
  PROVE LET id == d.next_transaction IN
        /\ Sound(f, 0) /\ f \in Device /\ SameObjects(d, f) /\ SameOwners(d, f)
        /\ f.next_transaction = id + 1
        /\ f.endpoints = d.endpoints
        /\ \A u \in Tokens : DOMAIN f.threads[u] = DOMAIN d.threads[u]
        /\ \A u \in Tokens \ {e} : f.threads[u] = d.threads[u]
        /\ \A s \in DOMAIN d.threads[e] \ {t} : f.threads[e][s] = d.threads[e][s]
        /\ f.threads[e][t].outgoing = id
        /\ f.threads[e][t].incoming = d.threads[e][t].incoming
        /\ SameButCalls(d.threads[e][t], f.threads[e][t])
        /\ \A x : x \in f.transactions <=>
                  x \in d.transactions \/ x = CallRecord(id, e, t, d.nodes[n].owner)
        /\ f.work = Append(d.work, Packet(d.nodes[n].owner, 0, "TRANSACTION", id, 0, b))
<1>0. d \in Device /\ Bounded(d) /\ NodesKnown(d)
  BY SoundFacts
<1>1. d.nodes[n].owner \in Tokens
  BY <1>0, NodeTable
<1>2. d.threads[e][t] \in Thread /\ t \in Tids
  BY <1>0, ThreadTable
<1>3. PICK id \in 1..TxnLimit : id = d.next_transaction
  BY <1>0, FieldTypes, BinderAssumption DEF Counters
<1>4. id \in 0..TxnLimit /\ id + 1 \in Counters
  BY <1>3 DEF Counters
<1>5. PICK th : th = SetOutgoing(d.threads[e][t], id)
  OBVIOUS
<1>6. th \in Thread /\ th.outgoing = id /\ th.incoming = d.threads[e][t].incoming
      /\ SameButCalls(d.threads[e][t], th)
  BY <1>2, <1>4, <1>5, SetOutgoingFacts
<1>7. PICK g : g = PutThread(d, e, t, th)
  OBVIOUS
<1>8. OneThread(d, g, e, t) /\ g.threads[e][t] = th /\ Sound(g, 0)
  BY <1>0, <1>6, <1>7, OneThreadSound DEF MaySleep, SameButCalls
<1>9. PICK x \in Transaction : x = CallRecord(id, e, t, d.nodes[n].owner)
  BY <1>1, <1>2, CallRecordFacts
<1>10. PICK w \in Work : w = Packet(d.nodes[n].owner, 0, "TRANSACTION", id, 0, b)
  <2>1. PICK c \in {"TRANSACTION", "REPLY"} : c = "TRANSACTION"
    OBVIOUS
  <2>2. 0 \in 0..NodeLimit
    BY BinderAssumption
  <2>3. Packet(d.nodes[n].owner, 0, c, id, 0, b) \in Work
    BY <1>1, <1>4, <2>2, PacketFacts
  <2> QED BY <2>1, <2>3
<1>11. PICK X : X = d.transactions \cup {x}
  OBVIOUS
<1>12. X \in Transactions
  BY <1>0, <1>11, FieldTypes DEF Transactions
<1>13. f = PutQueue(g, id + 1, X, Append(g.work, w))
  <2>1. g.work = d.work
    BY <1>8 DEF OneThread
  <2>2. g = [d EXCEPT !.threads = [d.threads EXCEPT ![e] = [d.threads[e] EXCEPT ![t] = th]]]
    BY <1>7 DEF PutThread
  <2>3. f = [d EXCEPT !.next_transaction = id + 1, !.transactions = X,
                      !.threads = [d.threads EXCEPT ![e] = [d.threads[e] EXCEPT ![t] = th]],
                      !.work = Append(d.work, w)]
    BY <1>3, <1>5, <1>9, <1>10, <1>11 DEF SendCall, CallRecord, Packet, SetOutgoing
  <2> QED BY <1>0, <2>1, <2>2, <2>3 DEF PutQueue, Device
<1>14. Len(g.work) # PacketLimit
  BY <1>8 DEF OneThread
<1>15. /\ Sound(f, 0) /\ f \in Device /\ SameObjects(g, f) /\ SameOwners(g, f)
       /\ f.endpoints = g.endpoints /\ f.threads = g.threads
       /\ f.next_transaction = id + 1 /\ f.transactions = X
       /\ f.work = Append(g.work, w)
  BY <1>4, <1>8, <1>12, <1>13, <1>14, AppendWork
<1>16. /\ SameObjects(d, f) /\ SameOwners(d, f) /\ f.endpoints = d.endpoints
       /\ f.work = Append(d.work, w)
  BY <1>8, <1>15 DEF OneThread, SameObjects, SameOwners
<1>17. /\ \A u \in Tokens : DOMAIN f.threads[u] = DOMAIN d.threads[u]
       /\ \A u \in Tokens \ {e} : f.threads[u] = d.threads[u]
       /\ \A s \in DOMAIN d.threads[e] \ {t} : f.threads[e][s] = d.threads[e][s]
       /\ f.threads[e][t] = th
  BY <1>8, <1>15 DEF OneThread
<1>18. \A y : y \in f.transactions <=> y \in d.transactions \/ y = x
  BY <1>11, <1>15
<1> QED BY <1>3, <1>6, <1>9, <1>10, <1>15, <1>16, <1>17, <1>18

\* What Queue does once the target is known, Sent being what a success commits.
Queued(s, e, t, Sent) ==
  IF s.error = "EINVAL" THEN Failed(s.dev, e, t, "FAILED_REPLY")
  ELSE IF s.error # "OK" THEN s.dev ELSE Completed(Sent, e, t)

Sends(d, e, t, oneway, parcel, n, s, g) ==
  LET target == d.nodes[n].owner
      b == Min(FreeBuffers(d, target))
  IN /\ ~Full(d, e, t) /\ n # 0 /\ n \in DOMAIN d.nodes /\ ~d.nodes[n].dead
     /\ endpoint_for(d, target) /\ target # e
     /\ ~oneway => /\ d.threads[e][t].incoming = 0 /\ d.threads[e][t].outgoing = 0
                   /\ d.next_transaction <= TxnLimit
     /\ s = reserve_payload(d, e, t, target, n, parcel)
     /\ g = Queued(s, e, t, IF oneway THEN SendOneWay(s.dev, n, b)
                            ELSE SendCall(s.dev, e, t, n, b))
Fails(d, e, t, g) == \E error \in {"DEAD_REPLY", "FAILED_REPLY"} : g = Failed(d, e, t, error)

LEMMA TransferCases ==
  ASSUME NEW d \in Device, NEW e, NEW t, NEW h, NEW oneway \in BOOLEAN, NEW parcel,
         NEW g, g = transfer_packet(d, e, t, h, oneway, parcel)
  PROVE g = d \/ Fails(d, e, t, g) \/ \E n, s : Sends(d, e, t, oneway, parcel, n, s, g)
<1> DEFINE th == d.threads[e][t]
           n == IF h = 0 THEN d.manager_node ELSE StrongNode(d, e, h)
           target == d.nodes[n].owner
           b == Min(FreeBuffers(d, target))
           s == reserve_payload(d, e, t, target, n, parcel)
           A1 == Full(d, e, t) \/ (~oneway /\ (th.incoming # 0 \/ th.outgoing # 0))
           A2 == h # 0 /\ n = 0
           A3 == n = 0 \/ n \notin DOMAIN d.nodes
           A4 == d.nodes[n].dead \/ ~endpoint_for(d, target)
           A5 == target = e \/ (h = 0 /\ d.endpoints[target].pid = d.endpoints[e].pid)
           A6 == ~oneway /\ (\/ Cardinality(d.transactions) = PacketLimit
                             \/ d.next_transaction > TxnLimit)
           Q == Queue(d, e, t, target, n, parcel, LAMBDA f, c :
                        IF oneway THEN SendOneWay(f, n, c) ELSE SendCall(f, e, t, n, c))
<1>1. g = IF A1 THEN d ELSE IF A2 THEN Failed(d, e, t, "FAILED_REPLY")
          ELSE IF A3 THEN Failed(d, e, t, "DEAD_REPLY")
          ELSE IF A4 THEN Failed(d, e, t, "DEAD_REPLY")
          ELSE IF A5 THEN Failed(d, e, t, "FAILED_REPLY")
          ELSE IF A6 THEN d ELSE Q
  BY Zenon DEF transfer_packet
<1>2. Q = Queued(s, e, t, IF oneway THEN SendOneWay(s.dev, n, b)
                          ELSE SendCall(s.dev, e, t, n, b))
  BY Zenon DEF Queue, Queued, Completed
<1>3. CASE ~A1 /\ ~A2 /\ ~A3 /\ ~A4 /\ ~A5 /\ ~A6
  <2>1. g = Q
    BY Zenon, <1>1, <1>3
  <2>2. d.next_transaction \in Nat /\ TxnLimit \in Nat
    BY FieldTypes, BinderAssumption DEF Counters
  <2>3. ~oneway => d.next_transaction <= TxnLimit
    BY <1>3, <2>2
  <2>4. ~Full(d, e, t) /\ n # 0 /\ n \in DOMAIN d.nodes /\ ~d.nodes[n].dead
        /\ endpoint_for(d, target) /\ target # e
        /\ (~oneway => th.incoming = 0 /\ th.outgoing = 0)
    BY Zenon, <1>3
  <2> HIDE DEF Q, A1, A2, A3, A4, A5, A6, n
  <2>5. Sends(d, e, t, oneway, parcel, n, s, g)
    BY Zenon, <1>2, <2>1, <2>3, <2>4 DEF Sends
  <2> HIDE DEF s
  <2> QED BY Zenon, <2>5
<1>4. CASE ~(~A1 /\ ~A2 /\ ~A3 /\ ~A4 /\ ~A5 /\ ~A6)
  <2> HIDE DEF Q, A1, A2, A3, A4, A5, A6
  <2>1. g = d \/ g = Failed(d, e, t, "FAILED_REPLY") \/ g = Failed(d, e, t, "DEAD_REPLY")
    BY Zenon, <1>1, <1>4
  <2> QED BY Zenon, <2>1 DEF Fails
<1> QED BY Zenon, <1>3, <1>4

\* A sound device that has the endpoint and the thread of the caller.
InCall(d, e, t) == Sound(d, 0) /\ endpoint_for(d, e) /\ t \in DOMAIN d.threads[e]

LEMMA InCallFacts ==
  ASSUME NEW d, NEW e, NEW t, InCall(d, e, t)
  PROVE /\ d \in Device /\ Bounded(d) /\ NodesKnown(d) /\ e \in Tokens /\ t \in Tids
        /\ d.threads[e][t] \in Thread
<1>1. d \in Device /\ Bounded(d) /\ NodesKnown(d) /\ e \in Tokens
  BY SoundFacts DEF InCall, endpoint_for
<1>2. DOMAIN d.threads[e] \subseteq Tids /\ \A s \in DOMAIN d.threads[e] : d.threads[e][s] \in Thread
  BY <1>1, ThreadTable
<1> QED BY <1>1, <1>2 DEF InCall

\* The calls, the queue and what the threads know of their calls are those of d;
\* endpoints and threads that are new take part in no call.
SameTalk(d, f) ==
  /\ f.next_transaction = d.next_transaction
  /\ f.transactions = d.transactions /\ f.work = d.work
  /\ \A e \in Tokens : d.endpoints[e].used => f.endpoints[e].used
  /\ \A e \in Tokens : \A t \in DOMAIN d.threads[e] :
       t \in DOMAIN f.threads[e] /\ SameCallState(d.threads[e][t], f.threads[e][t])
  /\ \A e \in Tokens : \A t \in DOMAIN f.threads[e] :
       \/ t \in DOMAIN d.threads[e]
       \/ f.threads[e][t].incoming = 0 /\ f.threads[e][t].outgoing = 0

\* The receive buffers are those of d, and so are the endpoints in use.
SameBuffers(d, f) ==
  \A e \in Tokens :
    /\ f.endpoints[e].used = d.endpoints[e].used
    /\ \A b \in Buffers : f.endpoints[e].arena[b] = d.endpoints[e].arena[b]

\* f is what d becomes when no packet is sent, received, dropped or freed.
SameFlow(d, f) == SameTalk(d, f) /\ SameBuffers(d, f) /\ SameTurns(d, f)

\* f is d where buffer b of endpoint u has state v.
BufferIs(d, f, u, b, v) ==
  /\ f.endpoints[u].arena[b] = v
  /\ \A e \in Tokens : f.endpoints[e].used = d.endpoints[e].used
  /\ \A e \in Tokens : \A c \in Buffers :
       (e # u \/ c # b) => f.endpoints[e].arena[c] = d.endpoints[e].arena[c]
BufferTaken(d, f, u, b) ==
  d.endpoints[u].arena[b] = "free" /\ BufferIs(d, f, u, b, "reserved")
Reservation(d, f, u, b) == SameTalk(d, f) /\ SameTurns(d, f) /\ BufferTaken(d, f, u, b)

LEMMA TalkTrans ==
  ASSUME NEW d, NEW f, NEW g, SameTalk(d, f), SameTalk(f, g)
  PROVE SameTalk(d, g)
  BY DEF SameTalk, SameCallState

LEMMA FlowTrans ==
  ASSUME NEW d, NEW f, NEW g, SameFlow(d, f), SameFlow(f, g)
  PROVE SameFlow(d, g)
<1>1. SameTalk(d, g) /\ SameTurns(d, g)
  BY TalkTrans, TurnsTrans DEF SameFlow
<1>2. SameBuffers(d, g)
  BY DEF SameFlow, SameBuffers
<1> QED BY <1>1, <1>2 DEF SameFlow

LEMMA FlowRefl ==
  ASSUME NEW d
  PROVE SameFlow(d, d)
<1>1. SameTurns(d, d)
  BY KeptTurns
<1>2. SameTalk(d, d) /\ SameBuffers(d, d)
  BY DEF SameTalk, SameCallState, SameBuffers
<1> QED BY <1>1, <1>2 DEF SameFlow

LEMMA FlowThread ==
  ASSUME NEW d, NEW f, NEW e \in Tokens, NEW t, OneThread(d, f, e, t),
         SameCallState(d.threads[e][t], f.threads[e][t])
  PROVE SameFlow(d, f)
<1>1. SameTalk(d, f)
  BY DEF OneThread, SameOwners, SameTalk, SameCallState
<1>2. SameBuffers(d, f) /\ SameTurns(d, f)
  BY ObjectsTurns DEF OneThread, SameBuffers
<1> QED BY <1>1, <1>2 DEF SameFlow

\* An operation of a call in thread t of endpoint e that leaves the calls alone.
StillIn(d, f, e, t) == InCall(f, e, t) /\ SameFlow(d, f)

LEMMA StillInTrans ==
  ASSUME NEW d, NEW f, NEW g, NEW e, NEW t, StillIn(d, f, e, t), StillIn(f, g, e, t)
  PROVE StillIn(d, g, e, t)
  BY FlowTrans DEF StillIn

LEMMA OneThreadInCall ==
  ASSUME NEW d, NEW e, NEW t, InCall(d, e, t), NEW f, NEW u \in Tokens, NEW y,
         OneThread(d, f, u, y), Sound(f, 0)
  PROVE InCall(f, e, t)
<1>1. e \in Tokens
  BY InCallFacts
<1>2. endpoint_for(f, e) /\ DOMAIN f.threads[e] = DOMAIN d.threads[e]
  BY <1>1 DEF InCall, OneThread, SameOwners, endpoint_for
<1> QED BY <1>2 DEF InCall

LEMMA FailsInCall ==
  ASSUME NEW d, NEW e, NEW t, InCall(d, e, t),
         NEW error \in {None, "DEAD_REPLY", "FAILED_REPLY"},
         NEW g, g = Failed(d, e, t, error)
  PROVE InCall(g, e, t) /\ OneThread(d, g, e, t) /\ StillIn(d, g, e, t)
<1>1. d \in Device /\ e \in Tokens /\ Sound(d, 0) /\ t \in DOMAIN d.threads[e]
  BY InCallFacts DEF InCall
<1>2. Sound(g, 0) /\ OneThread(d, g, e, t) /\ SameCallState(d.threads[e][t], g.threads[e][t])
  BY <1>1, FailedFacts DEF SameButError, SameCallState
<1>3. InCall(g, e, t)
  BY <1>1, <1>2, OneThreadInCall
<1> QED BY <1>1, <1>2, <1>3, FlowThread DEF StillIn

LEMMA TrafficFlow ==
  ASSUME NEW d, NEW f, SameTraffic(d, f), SameOwners(d, f)
  PROVE SameTalk(d, f)
  BY DEF SameTraffic, SameOwners, SameTalk, SameCallState

\* The first free buffer of u is reserved.
TookFirst(d, f, u) ==
  /\ Min(FreeBuffers(d, u)) \in Buffers
  /\ Reservation(d, f, u, Min(FreeBuffers(d, u)))

\* The device a reservation leaves is one the call can go on with.
LEMMA ReserveInCall ==
  ASSUME NEW d, NEW e, NEW t, InCall(d, e, t), NEW target \in Tokens,
         NEW n, n = 0 \/ n \in DOMAIN d.nodes, NEW parcel \in Seq(Objects),
         NEW s, s = reserve_payload(d, e, t, target, n, parcel)
  PROVE /\ s \in Attempts /\ InCall(s.dev, e, t) /\ SameTraffic(d, s.dev)
        /\ SameOwners(d, s.dev)
        /\ s.error # "OK" => SameFlow(d, s.dev)
        /\ s.error = "OK" => /\ TookFirst(d, s.dev, target)
                             /\ n # 0 => /\ n \in DOMAIN s.dev.nodes
                                         /\ s.dev.nodes[n] = d.nodes[n]
<1>0. d \in Device /\ e \in Tokens /\ t \in Tids /\ Sound(d, 0) /\ endpoint_for(d, e)
  BY InCallFacts DEF InCall
<1>t. t \in Tids \cup {0}
  BY <1>0
<1>1. /\ s \in Attempts /\ Sound(s.dev, 0) /\ SameTraffic(d, s.dev)
      /\ SameOwners(d, s.dev) /\ SameTurns(d, s.dev)
      /\ s.error = "OK" => HasBuffer(d, target, parcel, s)
  BY <1>0, <1>t, ReserveFacts
<1>e. ASSUME s.error # "OK" PROVE SameEndpoints(d, s.dev)
  BY <1>0, <1>t, <1>e, ReserveFacts
<1>2. InCall(s.dev, e, t)
  BY <1>0, <1>1 DEF InCall, SameTraffic, SameOwners, endpoint_for
<1>3. ASSUME s.error = "OK", n # 0 PROVE n \in DOMAIN s.dev.nodes /\ s.dev.nodes[n] = d.nodes[n]
  <2>1. PICK b \in Buffers : b = Min(FreeBuffers(d, target))
    BY <1>1, <1>3 DEF HasBuffer
  <2>2. PICK v \in States : v = "reserved"
    BY DEF States
  <2>3. PICK r : r = SetArena(d, target, b, v)
    OBVIOUS
  <2>4. SameObjects(d, r)
    BY <1>0, <2>3, SetArenaFacts
  <2>5. Grown(r, s.dev)
    BY <1>1, <1>3, <2>1, <2>2, <2>3 DEF HasBuffer
  <2> QED BY <1>3, <2>4, <2>5 DEF SameObjects, Grown
<1>4. s.error = "OK" => Min(FreeBuffers(d, target)) \in Buffers
  BY <1>1 DEF HasBuffer
<1>5. SameTalk(d, s.dev)
  BY <1>1, TrafficFlow
<1>6. s.error # "OK" => SameFlow(d, s.dev)
  BY <1>1, <1>5, <1>e DEF SameFlow, SameBuffers, SameEndpoints
<1>7. ASSUME s.error = "OK" PROVE Reservation(d, s.dev, target, Min(FreeBuffers(d, target)))
  <2>1. PICK b \in Buffers : b = Min(FreeBuffers(d, target))
    BY <1>4, <1>7
  <2>2. PICK v \in States : v = "reserved"
    BY DEF States
  <2>3. PICK r : r = SetArena(d, target, b, v)
    OBVIOUS
  <2>4. d.endpoints[target].arena[b] = "free" /\ s.dev.endpoints = r.endpoints
    BY <1>1, <1>7, <2>1, <2>2, <2>3 DEF HasBuffer, Grown, SameCalls
  <2>5. /\ \A u \in Tokens \ {target} : r.endpoints[u] = d.endpoints[u]
        /\ \A c \in Buffers \ {b} : r.endpoints[target].arena[c] = d.endpoints[target].arena[c]
        /\ r.endpoints[target].arena[b] = v
    BY <1>0, <2>3, SetArenaFacts
  <2>6. BufferTaken(d, s.dev, target, b)
    BY <1>1, <2>2, <2>4, <2>5 DEF BufferTaken, BufferIs, SameOwners
  <2> QED BY <1>1, <1>5, <2>1, <2>6 DEF Reservation
<1>8. s.error = "OK" => TookFirst(d, s.dev, target)
  BY <1>4, <1>7 DEF TookFirst
<1> QED BY <1>1, <1>2, <1>3, <1>6, <1>8

\* What BC_TRANSACTION does to the calls: nothing, or the parcel is queued on a
\* device r that has a buffer for it.
TransferEffect(d, e, t, g) ==
  \/ SameFlow(d, g)
  \/ \E r, f, n, b :
       /\ Reservation(d, r, r.nodes[n].owner, b) /\ SameFlow(f, g)
       /\ InCall(r, e, t) /\ Sound(f, 0)
       /\ n \in DOMAIN r.nodes /\ b \in Buffers /\ Len(r.work) # PacketLimit
       /\ endpoint_for(r, r.nodes[n].owner)
       /\ \/ f = SendOneWay(r, n, b)
          \/ /\ f = SendCall(r, e, t, n, b) /\ r.next_transaction <= TxnLimit
             /\ r.threads[e][t].incoming = 0 /\ r.threads[e][t].outgoing = 0
             /\ r.nodes[n].owner # e

LEMMA TransferSound ==
  ASSUME NEW d, NEW e, NEW t, InCall(d, e, t), NEW h, NEW oneway \in BOOLEAN,
         NEW parcel \in Seq(Objects), NEW g, g = transfer_packet(d, e, t, h, oneway, parcel)
  PROVE InCall(g, e, t) /\ TransferEffect(d, e, t, g)
<1>0. d \in Device /\ e \in Tokens /\ t \in Tids
  BY InCallFacts
<1>1. CASE Fails(d, e, t, g)
  BY <1>1, FailsInCall DEF Fails, StillIn, TransferEffect
<1>2. ASSUME NEW n, NEW s, Sends(d, e, t, oneway, parcel, n, s, g)
      PROVE InCall(g, e, t) /\ TransferEffect(d, e, t, g)
  <2>1. PICK target : target = d.nodes[n].owner
    OBVIOUS
  <2>2. PICK b : b = Min(FreeBuffers(d, target))
    OBVIOUS
  <2>3. PICK Sent : Sent = IF oneway THEN SendOneWay(s.dev, n, b) ELSE SendCall(s.dev, e, t, n, b)
    OBVIOUS
  <2>4. /\ ~Full(d, e, t) /\ n # 0 /\ n \in DOMAIN d.nodes
        /\ endpoint_for(d, target) /\ target # e
        /\ ~oneway => /\ d.next_transaction <= TxnLimit
                      /\ d.threads[e][t].incoming = 0 /\ d.threads[e][t].outgoing = 0
        /\ s = reserve_payload(d, e, t, target, n, parcel)
        /\ g = Queued(s, e, t, Sent)
    BY <1>2, <2>1, <2>2, <2>3 DEF Sends
  <2>5. target \in Tokens
    BY <2>4 DEF endpoint_for
  <2>6. /\ s \in Attempts /\ InCall(s.dev, e, t) /\ SameTraffic(d, s.dev)
        /\ SameOwners(d, s.dev)
        /\ s.error # "OK" => SameFlow(d, s.dev)
        /\ s.error = "OK" => /\ n \in DOMAIN s.dev.nodes
                             /\ s.dev.nodes[n] = d.nodes[n]
                             /\ TookFirst(d, s.dev, target)
    BY <2>4, <2>5, ReserveInCall
  <2>r. s.error = "OK" => b \in Buffers /\ Reservation(d, s.dev, target, b)
    BY <2>2, <2>6 DEF TookFirst
  <2>7. CASE s.error = "EINVAL"
    <3>1. g = Failed(s.dev, e, t, "FAILED_REPLY")
      BY <2>4, <2>7 DEF Queued
    <3>2. InCall(g, e, t) /\ SameFlow(s.dev, g)
      BY <2>6, <3>1, FailsInCall DEF StillIn
    <3> QED BY <2>6, <2>7, <3>2, FlowTrans DEF TransferEffect
  <2>8. CASE s.error # "EINVAL" /\ s.error # "OK"
    BY <2>4, <2>6, <2>8 DEF Queued, TransferEffect
  <2>9. CASE s.error = "OK"
    <3>1. g = Completed(Sent, e, t)
      BY <2>4, <2>9 DEF Queued
    <3>2. /\ s.dev.threads = d.threads /\ s.dev.work = d.work
          /\ s.dev.next_transaction = d.next_transaction
      BY <2>6 DEF SameTraffic
    <3>3. Len(s.dev.work) # PacketLimit /\ s.dev.threads[e][t].completions # PacketLimit
      BY <2>4, <3>2 DEF Full
    <3>4. Sound(s.dev, 0) /\ t \in DOMAIN s.dev.threads[e] /\ s.dev \in Device
          /\ endpoint_for(s.dev, e)
      BY <2>6, InCallFacts DEF InCall
    <3>5. /\ Sound(Sent, 0) /\ endpoint_for(Sent, e) /\ t \in DOMAIN Sent.threads[e]
          /\ Sent.threads[e][t].completions = s.dev.threads[e][t].completions
      <4>1. CASE oneway
        <5>1. Sent = SendOneWay(s.dev, n, b)
          BY <2>3, <4>1
        <5>2. Sound(Sent, 0) /\ Sent.endpoints = s.dev.endpoints /\ Sent.threads = s.dev.threads
          <6>1. PICK r : r = s.dev
            OBVIOUS
          <6>2. /\ Sound(r, 0) /\ n \in DOMAIN r.nodes /\ Len(r.work) # PacketLimit
                /\ Sent = SendOneWay(r, n, b) /\ b \in Buffers
            BY <2>6, <2>r, <2>9, <3>3, <3>4, <5>1, <6>1
          <6>3. Sound(Sent, 0) /\ Sent.endpoints = r.endpoints /\ Sent.threads = r.threads
            BY <6>2, SendOneWayFacts
          <6> QED BY <6>1, <6>3
        <5> QED BY <5>2, <3>4 DEF endpoint_for
      <4>2. CASE ~oneway
        <5>1. Sent = SendCall(s.dev, e, t, n, b)
          BY <2>3, <4>2
        <5>2. s.dev.next_transaction <= TxnLimit
          BY <2>4, <3>2, <4>2
        <5>3. /\ Sound(Sent, 0) /\ Sent.endpoints = s.dev.endpoints
              /\ DOMAIN Sent.threads[e] = DOMAIN s.dev.threads[e]
              /\ SameButCalls(s.dev.threads[e][t], Sent.threads[e][t])
          <6>1. PICK r : r = s.dev
            OBVIOUS
          <6>2. /\ Sound(r, 0) /\ t \in DOMAIN r.threads[e] /\ n \in DOMAIN r.nodes
                /\ r.next_transaction <= TxnLimit /\ Len(r.work) # PacketLimit
                /\ Sent = SendCall(r, e, t, n, b) /\ b \in Buffers
            BY <2>6, <2>r, <2>9, <3>3, <3>4, <5>1, <5>2, <6>1
          <6>3. /\ Sound(Sent, 0) /\ Sent.endpoints = r.endpoints
                /\ \A u \in Tokens : DOMAIN Sent.threads[u] = DOMAIN r.threads[u]
                /\ SameButCalls(r.threads[e][t], Sent.threads[e][t])
            BY <1>0, <6>2, SendCallFacts
          <6> QED BY <1>0, <6>1, <6>3
        <5> QED BY <5>3, <3>4 DEF endpoint_for, SameButCalls
      <4> QED BY <4>1, <4>2
    <3>6. InCall(Sent, e, t)
      BY <3>5 DEF InCall
    <3>7. Sound(g, 0) /\ OneThread(Sent, g, e, t)
          /\ SameCallState(Sent.threads[e][t], g.threads[e][t])
      BY <1>0, <3>1, <3>3, <3>5, CompletedFacts DEF SameButCompletions, SameCallState
    <3>8. SameFlow(Sent, g)
      BY <1>0, <3>7, FlowThread
    <3>9. PICK r : r = s.dev
      OBVIOUS
    <3>10. /\ n \in DOMAIN r.nodes /\ b \in Buffers /\ InCall(r, e, t)
           /\ Reservation(d, r, target, b) /\ Len(r.work) # PacketLimit /\ r.nodes[n].owner = target
           /\ endpoint_for(r, target) /\ target # e
           /\ ~oneway => /\ r.threads[e][t].incoming = 0 /\ r.threads[e][t].outgoing = 0
                         /\ r.next_transaction <= TxnLimit
      BY <2>1, <2>4, <2>5, <2>6, <2>r, <2>9, <3>2, <3>3, <3>9 DEF SameOwners, endpoint_for
    <3>11. Sent = SendOneWay(r, n, b) \/ (~oneway /\ Sent = SendCall(r, e, t, n, b))
      BY <2>3, <3>9
    <3>12. TransferEffect(d, e, t, g)
      BY <3>5, <3>8, <3>10, <3>11 DEF TransferEffect
    <3> QED BY <1>0, <3>6, <3>7, <3>12, OneThreadInCall
  <2> QED BY <2>7, <2>8, <2>9
<1>3. CASE g = d
  BY <1>3, FlowRefl DEF TransferEffect
<1> QED BY <1>1, <1>2, <1>3, <1>0, TransferCases

LEMMA PutThreadInCall ==
  ASSUME NEW d, NEW e, NEW t, InCall(d, e, t), NEW u \in Tokens, NEW y \in DOMAIN d.threads[u],
         NEW th \in Thread, MaySleep(d, u, y, th), NEW f, f = PutThread(d, u, y, th)
  PROVE InCall(f, e, t) /\ OneThread(d, f, u, y) /\ f.threads[u][y] = th
<1>1. d \in Device /\ Sound(d, 0)
  BY InCallFacts DEF InCall
<1>2. OneThread(d, f, u, y) /\ f.threads[u][y] = th /\ Sound(f, 0)
  BY <1>1, OneThreadSound
<1> QED BY <1>2, OneThreadInCall

LEMMA ThreadFlags ==
  ASSUME NEW th \in Thread, NEW v,
         \/ v = [th EXCEPT !.dead_reply = FALSE] \/ v = [th EXCEPT !.initial_return = FALSE]
         \/ v = [th EXCEPT !.incoming = 0] \/ v = [th EXCEPT !.outgoing = 0]
  PROVE /\ v \in Thread /\ v.active = th.active /\ v.completions = th.completions
        /\ v.dead_reply => th.dead_reply
        /\ v = [th EXCEPT !.incoming = 0] => v.incoming = 0 /\ v.outgoing = th.outgoing
        /\ v = [th EXCEPT !.outgoing = 0] => v.outgoing = 0 /\ v.incoming = th.incoming
        /\ v = [th EXCEPT !.dead_reply = FALSE] \/ v = [th EXCEPT !.initial_return = FALSE]
             => v.incoming = th.incoming /\ v.outgoing = th.outgoing
<1>1. 0 \in 0..TxnLimit
  BY BinderAssumption
<1>2. CASE v = [th EXCEPT !.incoming = 0]
  BY <1>1, <1>2 DEF Thread
<1>3. CASE v = [th EXCEPT !.outgoing = 0]
  BY <1>1, <1>3 DEF Thread
<1>4. CASE v = [th EXCEPT !.dead_reply = FALSE]
  BY <1>4 DEF Thread
<1>5. CASE v = [th EXCEPT !.initial_return = FALSE]
  BY <1>5 DEF Thread
<1> QED BY <1>2, <1>3, <1>4, <1>5

\* The thread y of endpoint u after the reply of thread t of endpoint e to its call.
Answered(d, e, t) == PutThread(d, e, t, [d.threads[e][t] EXCEPT !.incoming = 0])
Resumed(d, u, y) == PutThread(d, u, y, [d.threads[u][y] EXCEPT !.outgoing = 0])
ReplySent(d, e, t, x, b) ==
  LET f == Resumed(Answered(d, e, t), x.source, x.source_tid) IN
  PutQueue(f, f.next_transaction, f.transactions \ {x},
           Append(f.work, Packet(x.source, x.source_tid, "REPLY", 0, 0, b)))

LEMMA SendReplySteps ==
  ASSUME NEW d \in Device, NEW e \in Tokens, NEW t \in DOMAIN d.threads[e], NEW x \in Transaction,
         x.source_tid \in DOMAIN d.threads[x.source], NEW b
  PROVE SendReply(d, e, t, x, b) = ReplySent(d, e, t, x, b)
<1>1. PICK w : w = Packet(x.source, x.source_tid, "REPLY", 0, 0, b)
  OBVIOUS
<1>2. PICK g : g = [d.threads EXCEPT ![e] = [d.threads[e] EXCEPT ![t] =
                      [d.threads[e][t] EXCEPT !.incoming = 0]]]
  OBVIOUS
<1>3. PICK T : T = [g EXCEPT ![x.source] = [g[x.source] EXCEPT ![x.source_tid] =
                      [g[x.source][x.source_tid] EXCEPT !.outgoing = 0]]]
  OBVIOUS
<1>5. PICK a : a = Answered(d, e, t)
  OBVIOUS
<1>6. a = [d EXCEPT !.threads = g] /\ a.threads = g /\ a = [d EXCEPT !.threads[e][t].incoming = 0]
  BY <1>2, <1>5 DEF Answered, PutThread, Device
<1>4. SendReply(d, e, t, x, b)
        = [a EXCEPT !.threads = T, !.transactions = a.transactions \ {x},
                    !.work = Append(a.work, w)]
  BY <1>1, <1>3, <1>6 DEF SendReply, Packet
<1>7. PICK f : f = Resumed(a, x.source, x.source_tid)
  OBVIOUS
<1>8. f = [a EXCEPT !.threads = T]
  BY <1>3, <1>6, <1>7 DEF Resumed, PutThread
<1>9. ReplySent(d, e, t, x, b) = PutQueue(f, f.next_transaction, f.transactions \ {x}, Append(f.work, w))
  BY <1>1, <1>5, <1>7 DEF ReplySent
<1>10. f.next_transaction = a.next_transaction /\ f.transactions = a.transactions
       /\ f.work = a.work
  BY <1>6, <1>8 DEF Device
<1>11. PutQueue(f, a.next_transaction, a.transactions \ {x}, Append(a.work, w))
         = [a EXCEPT !.threads = T, !.transactions = a.transactions \ {x},
                    !.work = Append(a.work, w)]
  BY <1>6, <1>8 DEF PutQueue, Device
<1> QED BY <1>4, <1>9, <1>10, <1>11

\* f is d once thread t of endpoint e has answered call x.
Replied(d, f, e, t, x, b) ==
  /\ f.next_transaction = d.next_transaction /\ f.endpoints = d.endpoints
  /\ f.transactions = d.transactions \ {x}
  /\ f.work = Append(d.work, Packet(x.source, x.source_tid, "REPLY", 0, 0, b))
  /\ \A u \in Tokens : DOMAIN f.threads[u] = DOMAIN d.threads[u]
  /\ \A u \in Tokens : \A y \in DOMAIN d.threads[u] :
       LET p == d.threads[u][y]
           q == f.threads[u][y]
       IN /\ q.outgoing = IF u = x.source /\ y = x.source_tid THEN 0 ELSE p.outgoing
          /\ q.incoming = IF u = e /\ y = t THEN 0 ELSE p.incoming
          /\ q.dead_reply => p.dead_reply

LEMMA SendReplySound ==
  ASSUME NEW d, NEW e, NEW t, InCall(d, e, t), NEW x \in d.transactions,
         x.source_tid \in DOMAIN d.threads[x.source], NEW b \in Buffers,
         Len(d.work) # PacketLimit, NEW f, f = SendReply(d, e, t, x, b)
  PROVE /\ InCall(f, e, t) /\ Replied(d, f, e, t, x, b)
        /\ d.threads[e][t] \in Thread /\ f.threads[e][t] \in Thread
        /\ f.threads[e][t].completions = d.threads[e][t].completions
<1>0. d \in Device /\ e \in Tokens /\ t \in DOMAIN d.threads[e] /\ d.threads[e][t] \in Thread
  BY InCallFacts DEF InCall
<1>1. x \in Transaction /\ x.source \in Tokens /\ x.source_tid \in Tids
  BY <1>0, FieldTypes DEF Transactions, Transaction
<1>2. PICK th : th = [d.threads[e][t] EXCEPT !.incoming = 0]
  OBVIOUS
<1>3. /\ th \in Thread /\ th.completions = d.threads[e][t].completions
      /\ th.active = d.threads[e][t].active
      /\ th.incoming = 0 /\ th.outgoing = d.threads[e][t].outgoing
      /\ th.dead_reply => d.threads[e][t].dead_reply
  BY <1>0, <1>2, ThreadFlags
<1>4. PICK a : a = Answered(d, e, t)
  OBVIOUS
<1>5. a = PutThread(d, e, t, th)
  BY <1>2, <1>4 DEF Answered
<1>6. InCall(a, e, t) /\ OneThread(d, a, e, t) /\ a.threads[e][t] = th
  BY <1>0, <1>3, <1>5, PutThreadInCall DEF MaySleep
<1>7. x.source_tid \in DOMAIN a.threads[x.source] /\ a \in Device
      /\ Len(a.work) # PacketLimit /\ a.transactions = d.transactions
  BY <1>1, <1>6 DEF OneThread
<1>8. a.threads[x.source][x.source_tid] \in Thread
  BY <1>1, <1>7, ThreadTable
<1>9. PICK ts : ts = [a.threads[x.source][x.source_tid] EXCEPT !.outgoing = 0]
  OBVIOUS
<1>10. /\ ts \in Thread /\ ts.completions = a.threads[x.source][x.source_tid].completions
       /\ ts.active = a.threads[x.source][x.source_tid].active
       /\ ts.outgoing = 0 /\ ts.incoming = a.threads[x.source][x.source_tid].incoming
       /\ ts.dead_reply => a.threads[x.source][x.source_tid].dead_reply
  BY <1>8, <1>9, ThreadFlags
<1>11. PICK r : r = Resumed(a, x.source, x.source_tid)
  OBVIOUS
<1>12. r = PutThread(a, x.source, x.source_tid, ts)
  BY <1>9, <1>11 DEF Resumed
<1>13. InCall(r, e, t) /\ OneThread(a, r, x.source, x.source_tid)
       /\ r.threads[x.source][x.source_tid] = ts
  BY <1>1, <1>6, <1>7, <1>10, <1>12, PutThreadInCall DEF MaySleep
<1>14. r.threads[e][t].completions = d.threads[e][t].completions
  <2>1. CASE x.source = e /\ x.source_tid = t
    BY <2>1, <1>3, <1>6, <1>10, <1>13
  <2>2. CASE ~(x.source = e /\ x.source_tid = t)
    <3>1. r.threads[e][t] = a.threads[e][t]
      BY <2>2, <1>0, <1>6, <1>13 DEF OneThread, InCall
    <3> QED BY <3>1, <1>3, <1>6
  <2> QED BY <2>1, <2>2
<1>15. PICK w \in Work : w = Packet(x.source, x.source_tid, "REPLY", 0, 0, b)
  <2>1. PICK c \in {"TRANSACTION", "REPLY"} : c = "REPLY"
    OBVIOUS
  <2>2. 0 \in 0..NodeLimit /\ 0 \in 0..TxnLimit /\ x.source_tid \in Tids \cup {0}
    BY <1>1, BinderAssumption
  <2>3. Packet(x.source, x.source_tid, c, 0, 0, b) \in Work
    BY <1>1, <2>2, PacketFacts
  <2> QED BY <2>1, <2>3
<1>16. PICK X : X = r.transactions \ {x}
  OBVIOUS
<1>17. f = PutQueue(r, r.next_transaction, X, Append(r.work, w))
  BY <1>0, <1>1, <1>4, <1>11, <1>15, <1>16, SendReplySteps DEF ReplySent
<1>18. r \in Device /\ Sound(r, 0) /\ Len(r.work) # PacketLimit
  BY <1>7, <1>13, InCallFacts DEF OneThread, InCall
<1>19. r.next_transaction \in Counters /\ X \in Transactions
  BY <1>16, <1>18, FieldTypes DEF Transactions
<1>20. /\ Sound(f, 0) /\ f.endpoints = r.endpoints /\ f.threads = r.threads
       /\ f.next_transaction = r.next_transaction /\ f.transactions = X
       /\ f.work = Append(r.work, w)
  BY <1>15, <1>17, <1>18, <1>19, AppendWork
<1>21. InCall(f, e, t)
  BY <1>13, <1>20 DEF InCall, endpoint_for
<1>22. ASSUME NEW u \in Tokens, NEW y \in DOMAIN d.threads[u],
              NEW p, p = d.threads[u][y], NEW q, q = f.threads[u][y]
       PROVE /\ q.outgoing = IF u = x.source /\ y = x.source_tid THEN 0 ELSE p.outgoing
             /\ q.incoming = IF u = e /\ y = t THEN 0 ELSE p.incoming
             /\ q.dead_reply => p.dead_reply
  <2>1. PICK o : o = a.threads[u][y]
    OBVIOUS
  <2>2. y \in DOMAIN a.threads[u]
    BY <1>6, <1>22 DEF OneThread
  <2>3. /\ o.outgoing = p.outgoing
        /\ o.incoming = IF u = e /\ y = t THEN 0 ELSE p.incoming
        /\ o.dead_reply => p.dead_reply
    <3>1. CASE u = e /\ y = t
      BY <1>3, <1>6, <1>22, <2>1, <3>1
    <3>2. CASE ~(u = e /\ y = t)
      <4>1. o = p
        BY <1>6, <1>22, <2>1, <3>2 DEF OneThread
      <4> QED BY <3>2, <4>1
    <3> QED BY <3>1, <3>2
  <2>4. /\ q.outgoing = IF u = x.source /\ y = x.source_tid THEN 0 ELSE o.outgoing
        /\ q.incoming = o.incoming
        /\ q.dead_reply => o.dead_reply
    <3>1. CASE u = x.source /\ y = x.source_tid
      BY <1>10, <1>13, <1>20, <1>22, <2>1, <3>1
    <3>2. CASE ~(u = x.source /\ y = x.source_tid)
      <4>1. q = o
        BY <1>13, <1>20, <1>22, <2>1, <2>2, <3>2 DEF OneThread
      <4> QED BY <3>2, <4>1
    <3> QED BY <3>1, <3>2
  <2> QED BY <2>3, <2>4
<1>23. /\ f.next_transaction = d.next_transaction /\ f.endpoints = d.endpoints
       /\ f.transactions = d.transactions \ {x} /\ f.work = Append(d.work, w)
       /\ \A u \in Tokens : DOMAIN f.threads[u] = DOMAIN d.threads[u]
  BY <1>6, <1>13, <1>16, <1>20 DEF OneThread
<1>24. Replied(d, f, e, t, x, b)
  BY <1>15, <1>22, <1>23 DEF Replied
<1> QED BY <1>0, <1>14, <1>20, <1>21, <1>24, InCallFacts

\* What BC_REPLY does to the calls: nothing, or the reply is queued on a device r
\* that has a buffer for it.
ReplyEffect(d, e, t, g) ==
  \/ SameFlow(d, g)
  \/ \E r, f, x, b :
       /\ Reservation(d, r, x.source, b) /\ SameFlow(f, g)
       /\ InCall(r, e, t) /\ Sound(f, 0)
       /\ x \in r.transactions /\ x.id = r.threads[e][t].incoming /\ b \in Buffers
       /\ x.source_tid \in DOMAIN r.threads[x.source] /\ Len(r.work) # PacketLimit
       /\ f = SendReply(r, e, t, x, b)

DeadReply(d, e, t) == PutThread(d, e, t, [d.threads[e][t] EXCEPT !.dead_reply = FALSE])
Replies(d, e, t, parcel, x, s, g) ==
  /\ ~Full(d, e, t) /\ x \in d.transactions /\ x.id = d.threads[e][t].incoming
  /\ d.threads[e][t].outgoing = 0 /\ ~d.threads[e][t].dead_reply
  /\ thread_for(d, x.source, x.source_tid)
  /\ d.threads[x.source][x.source_tid].outgoing = x.id
  /\ s = reserve_payload(d, e, t, x.source, 0, parcel)
  /\ g = Queued(s, e, t, SendReply(s.dev, e, t, x, Min(FreeBuffers(d, x.source))))

LEMMA ReplyCases ==
  ASSUME NEW d, NEW e, NEW t, NEW parcel, NEW g, g = reply_packet(d, e, t, parcel)
  PROVE \/ g = d
        \/ g = Failed(DeadReply(d, e, t), e, t, "DEAD_REPLY") /\ d.threads[e][t].dead_reply
        \/ \E x, s : Replies(d, e, t, parcel, x, s, g)
<1> DEFINE th == d.threads[e][t]
           X == {x \in d.transactions : x.id = th.incoming}
           x == CHOOSE y \in X : TRUE
           s == reserve_payload(d, e, t, x.source, 0, parcel)
           b == Min(FreeBuffers(d, x.source))
           D == Failed([d EXCEPT !.threads[e][t].dead_reply = FALSE], e, t, "DEAD_REPLY")
           Q == Queue(d, e, t, x.source, 0, parcel, LAMBDA f, c : SendReply(f, e, t, x, c))
           A3 == X = {} \/ th.outgoing # 0
           A4 == ~thread_for(d, x.source, x.source_tid)
           A5 == d.threads[x.source][x.source_tid].outgoing # x.id
<1>1. g = IF Full(d, e, t) THEN d ELSE IF th.dead_reply THEN D ELSE IF A3 THEN d
          ELSE IF A4 THEN d ELSE IF A5 THEN d ELSE Q
  BY Zenon DEF reply_packet
<1>2. Q = Queued(s, e, t, SendReply(s.dev, e, t, x, b))
  BY Zenon DEF Queue, Queued, Completed
<1>3. X # {} => x \in X
  BY Zenon
<1>4. CASE ~Full(d, e, t) /\ ~th.dead_reply /\ ~A3 /\ ~A4 /\ ~A5
  <2>1. g = Q
    BY Zenon, <1>1, <1>4
  <2>2. x \in d.transactions /\ x.id = th.incoming /\ th.outgoing = 0
    BY <1>3, <1>4
  <2>3. ~Full(d, e, t) /\ ~th.dead_reply /\ thread_for(d, x.source, x.source_tid)
        /\ d.threads[x.source][x.source_tid].outgoing = x.id
    BY Zenon, <1>4
  <2> HIDE DEF X, x, Q, A3, A4, A5
  <2>4. Replies(d, e, t, parcel, x, s, g)
    BY Zenon, <1>2, <2>1, <2>2, <2>3 DEF Replies
  <2> HIDE DEF s
  <2> QED BY Zenon, <2>4
<1>5. CASE ~(~Full(d, e, t) /\ ~th.dead_reply /\ ~A3 /\ ~A4 /\ ~A5)
  <2>1. D = Failed(DeadReply(d, e, t), e, t, "DEAD_REPLY")
    <3>1. [d EXCEPT !.threads[e][t].dead_reply = FALSE] = DeadReply(d, e, t)
      BY DEF DeadReply, PutThread
    <3> QED BY Zenon, <3>1
  <2> HIDE DEF X, x, Q, A3, A4, A5, D
  <2>2. g = d \/ (g = D /\ th.dead_reply)
    BY Zenon, <1>1, <1>5
  <2> QED BY Zenon, <2>1, <2>2
<1> QED BY Zenon, <1>4, <1>5

LEMMA ReplySound ==
  ASSUME NEW d, NEW e, NEW t, InCall(d, e, t),
         NEW parcel \in Seq(Objects), NEW g, g = reply_packet(d, e, t, parcel)
  PROVE InCall(g, e, t) /\ ReplyEffect(d, e, t, g)
<1>0. d \in Device /\ e \in Tokens /\ t \in Tids /\ d.threads[e][t] \in Thread
      /\ t \in DOMAIN d.threads[e]
  BY InCallFacts DEF InCall
<1>1. CASE g = Failed(DeadReply(d, e, t), e, t, "DEAD_REPLY")
  <2>0. PICK th : th = [d.threads[e][t] EXCEPT !.dead_reply = FALSE]
    OBVIOUS
  <2>1. th \in Thread /\ th.active = d.threads[e][t].active
        /\ SameCallState(d.threads[e][t], th)
    BY <1>0, <2>0, ThreadFlags DEF SameCallState
  <2>2. PICK f : f = PutThread(d, e, t, th)
    OBVIOUS
  <2>3. InCall(f, e, t) /\ OneThread(d, f, e, t) /\ f.threads[e][t] = th
    BY <1>0, <2>1, <2>2, PutThreadInCall DEF MaySleep
  <2>4. g = Failed(f, e, t, "DEAD_REPLY")
    BY <1>1, <2>0, <2>2 DEF DeadReply
  <2>5. InCall(g, e, t) /\ SameFlow(f, g)
    BY <2>3, <2>4, FailsInCall DEF StillIn
  <2>6. SameFlow(d, f)
    BY <1>0, <2>1, <2>3, FlowThread
  <2> QED BY <2>5, <2>6, FlowTrans DEF ReplyEffect
<1>2. ASSUME NEW x, NEW s, Replies(d, e, t, parcel, x, s, g)
      PROVE InCall(g, e, t) /\ ReplyEffect(d, e, t, g)
  <2>1. PICK b : b = Min(FreeBuffers(d, x.source))
    OBVIOUS
  <2>2. PICK Sent : Sent = SendReply(s.dev, e, t, x, b)
    OBVIOUS
  <2>3. /\ ~Full(d, e, t) /\ x \in d.transactions /\ x.id = d.threads[e][t].incoming
        /\ thread_for(d, x.source, x.source_tid)
        /\ s = reserve_payload(d, e, t, x.source, 0, parcel)
        /\ g = Queued(s, e, t, Sent)
    BY <1>2, <2>1, <2>2 DEF Replies
  <2>4. x.source \in Tokens /\ x.source_tid \in DOMAIN d.threads[x.source]
    BY <2>3 DEF thread_for, endpoint_for
  <2>5. PICK n : n = 0
    OBVIOUS
  <2>6. /\ s \in Attempts /\ InCall(s.dev, e, t) /\ SameTraffic(d, s.dev)
        /\ SameOwners(d, s.dev)
        /\ s.error # "OK" => SameFlow(d, s.dev)
        /\ s.error = "OK" => b \in Buffers /\ Reservation(d, s.dev, x.source, b)
    <3>1. PICK target \in Tokens : target = x.source
      BY <2>4
    <3>2. s = reserve_payload(d, e, t, target, n, parcel)
      BY <2>3, <2>5, <3>1
    <3>3. /\ s \in Attempts /\ InCall(s.dev, e, t) /\ SameTraffic(d, s.dev)
          /\ SameOwners(d, s.dev)
          /\ s.error # "OK" => SameFlow(d, s.dev)
          /\ s.error = "OK" => TookFirst(d, s.dev, target)
      BY <2>5, <3>2, ReserveInCall
    <3> QED BY <2>1, <3>1, <3>3 DEF TookFirst
  <2>7. CASE s.error = "EINVAL"
    <3>1. g = Failed(s.dev, e, t, "FAILED_REPLY")
      BY <2>3, <2>7 DEF Queued
    <3>2. InCall(g, e, t) /\ SameFlow(s.dev, g)
      BY <2>6, <3>1, FailsInCall DEF StillIn
    <3> QED BY <2>6, <2>7, <3>2, FlowTrans DEF ReplyEffect
  <2>8. CASE s.error # "EINVAL" /\ s.error # "OK"
    BY <2>3, <2>6, <2>8 DEF Queued, ReplyEffect
  <2>9. CASE s.error = "OK"
    <3>1. g = Completed(Sent, e, t)
      BY <2>3, <2>9 DEF Queued
    <3>2. PICK r : r = s.dev
      OBVIOUS
    <3>3. /\ r.threads = d.threads /\ r.work = d.work /\ r.transactions = d.transactions
      BY <2>6, <3>2 DEF SameTraffic
    <3>4. Len(r.work) # PacketLimit /\ r.threads[e][t].completions # PacketLimit
      BY <2>3, <3>3 DEF Full
    <3>5. /\ InCall(r, e, t) /\ x \in r.transactions
          /\ x.source_tid \in DOMAIN r.threads[x.source] /\ b \in Buffers
          /\ Sent = SendReply(r, e, t, x, b)
      BY <2>2, <2>3, <2>4, <2>6, <2>9, <3>2, <3>3
    <3>6. InCall(Sent, e, t) /\ Sent.threads[e][t].completions = r.threads[e][t].completions
      BY <3>4, <3>5, SendReplySound
    <3>7. Sound(g, 0) /\ OneThread(Sent, g, e, t)
          /\ SameCallState(Sent.threads[e][t], g.threads[e][t])
      BY <1>0, <3>1, <3>4, <3>6, CompletedFacts DEF InCall, SameButCompletions, SameCallState
    <3>8. SameFlow(Sent, g)
      BY <1>0, <3>7, FlowThread
    <3>9. x.id = r.threads[e][t].incoming /\ Reservation(d, r, x.source, b) /\ Sound(Sent, 0)
      BY <2>3, <2>6, <2>9, <3>2, <3>3, <3>6 DEF InCall
    <3>10. ReplyEffect(d, e, t, g)
      BY <3>4, <3>5, <3>8, <3>9 DEF ReplyEffect
    <3> QED BY <1>0, <3>6, <3>7, <3>10, OneThreadInCall
  <2> QED BY <2>7, <2>8, <2>9
<1>3. CASE g = d
  BY <1>3, FlowRefl DEF ReplyEffect
<1> QED BY <1>1, <1>2, <1>3, ReplyCases

----------------------------------------------------------------------------
(* Releasing a buffer, and the commands on references and nodes.             *)

LEMMA SameCallsInCall ==
  ASSUME NEW d, NEW e, NEW t, InCall(d, e, t), NEW f, SameCalls(d, f), Sound(f, 0),
         SameTurns(d, f)
  PROVE InCall(f, e, t) /\ StillIn(d, f, e, t)
<1>1. InCall(f, e, t) /\ SameTalk(d, f) /\ SameBuffers(d, f)
  BY DEF InCall, SameCalls, endpoint_for, SameTalk, SameCallState, SameBuffers
<1> QED BY <1>1 DEF StillIn, SameFlow

LEMMA ReleaseSound ==
  ASSUME NEW x, NEW d, Sound(d, x), NEW C \in SUBSET d.claims, NEW f, f = release_claims(d, C)
  PROVE Sound(f, x) /\ SameCalls(d, f) /\ SameTurns(d, f)
<1>1. d \in Device /\ Bounded(d) /\ NodesKnown(d)
  BY SoundFacts
<1>2. Bounded(f) /\ Keeps(d, f) /\ SameCalls(d, f)
      /\ f.next_node = d.next_node /\ DOMAIN f.nodes \subseteq DOMAIN d.nodes
      /\ \A n \in DOMAIN f.nodes : f.nodes[n] = d.nodes[n]
  BY <1>1, ReleaseFacts
<1>3. SameTurns(d, f)
  BY <1>2, KeptTurns
<1> QED BY <1>2, <1>3, KeepsSound

LEMMA CollectSound ==
  ASSUME NEW x, NEW d, Sound(d, x), NEW f, f = collect_nodes(d)
  PROVE Sound(f, x) /\ SameCalls(d, f) /\ SameTurns(d, f)
<1>1. d \in Device /\ Bounded(d) /\ NodesKnown(d)
  BY SoundFacts
<1>2. /\ f \in Device /\ SameCalls(d, f)
      /\ f.references = d.references /\ f.claims = d.claims
      /\ f.next_node = d.next_node /\ DOMAIN f.nodes \subseteq DOMAIN d.nodes
      /\ \A n \in DOMAIN f.nodes : f.nodes[n] = d.nodes[n]
  BY <1>1, CollectFacts
<1>t. SameTurns(d, f)
  BY <1>2, KeptTurns
<1>3. Keeps(d, f)
  BY <1>1, CollectKeeps DEF NodesKnown
<1>4. Bounded(f)
  BY <1>1, <1>2 DEF Bounded, SameCalls
<1> QED BY <1>2, <1>t, <1>3, <1>4, KeepsSound

LEMMA PutNodesSound ==
  ASSUME NEW x, NEW d, Sound(d, x), NEW N \in Nodes, DOMAIN N = DOMAIN d.nodes,
         \A n \in DOMAIN d.nodes : SameNode(d.nodes[n], N[n]),
         NEW f, f = PutNodes(d, N)
  PROVE /\ Sound(f, x) /\ SameCalls(d, f) /\ f \in Device /\ f.nodes = N
        /\ f.next_node = d.next_node /\ f.references = d.references
        /\ f.claims = d.claims /\ f.deaths = d.deaths
<1>1. d \in Device /\ Bounded(d) /\ NodesKnown(d)
  BY SoundFacts
<1>2. /\ f \in Device /\ SameCalls(d, f) /\ f.next_node = d.next_node /\ f.nodes = N
      /\ f.references = d.references /\ f.claims = d.claims /\ f.deaths = d.deaths
  BY <1>1, PutNodesFacts
<1>3. Bounded(f)
  BY <1>1, <1>2 DEF Bounded, SameCalls
<1>4. Keeps(d, f)
  BY <1>1, <1>2, SameCallsKeeps DEF NodesKnown
<1> QED BY <1>2, <1>3, <1>4, KeepsSound

LEMMA NextAsyncFacts ==
  ASSUME NEW d \in Device, NEW n
  PROVE /\ NextAsync(d, n) \in 0..BufferLimit
        /\ NextAsync(d, n) # 0 => \E i \in DOMAIN d.work :
             d.work[i].async_node = n /\ NextAsync(d, n) = d.work[i].buffer
             /\ \A j \in DOMAIN d.work : d.work[j].async_node = n => i <= j
        /\ NextAsync(d, n) = 0 => \A i \in DOMAIN d.work : d.work[i].async_node # n
<1> DEFINE I == {i \in DOMAIN d.work : d.work[i].async_node = n}
<1>1. d.work \in Seq(Work) /\ BufferLimit \in Nat
  BY FieldTypes, BinderAssumption DEF Works
<1>2. I \in SUBSET Nat /\ \A i \in DOMAIN d.work : d.work[i].buffer \in Buffers
  <2>1. DOMAIN d.work \subseteq Nat /\ \A i \in DOMAIN d.work : d.work[i] \in Work
    BY <1>1
  <2>2. \A w \in Work : w.buffer \in Buffers
    BY DEF Work
  <2> QED BY <2>1, <2>2
<1>3. CASE I = {}
  BY <1>1, <1>3 DEF NextAsync
<1>4. CASE I # {}
  <2>1. Min(I) \in I /\ \A i \in I : Min(I) <= i
    BY <1>2, <1>4, MinIn
  <2>2. NextAsync(d, n) = d.work[Min(I)].buffer
    BY <1>4 DEF NextAsync
  <2> HIDE DEF I
  <2>3. PICK i : i = Min(I)
    OBVIOUS
  <2>4. i \in DOMAIN d.work /\ d.work[i].async_node = n
        /\ \A j \in DOMAIN d.work : d.work[j].async_node = n => i <= j
    BY <2>1, <2>3 DEF I
  <2> QED BY <1>1, <1>2, <2>2, <2>3, <2>4 DEF Buffers
<1> QED BY <1>3, <1>4

\* The nodes of endpoint e whose active buffer was b go on to the next call.
NextCalls(d, e, b) ==
  [n \in DOMAIN d.nodes |->
     IF d.nodes[n].owner = e /\ d.nodes[n].async_buffer = b
     THEN [d.nodes[n] EXCEPT !.async_buffer = NextAsync(d, n)] ELSE d.nodes[n]]

LEMMA NextCallsFacts ==
  ASSUME NEW d \in Device, NEW e, NEW b, NEW N, N = NextCalls(d, e, b)
  PROVE /\ N \in Nodes /\ DOMAIN N = DOMAIN d.nodes
        /\ \A n \in DOMAIN d.nodes : /\ SameNode(d.nodes[n], N[n])
                                    /\ N[n].async_buffer =
                                         IF d.nodes[n].owner = e /\ d.nodes[n].async_buffer = b
                                         THEN NextAsync(d, n) ELSE d.nodes[n].async_buffer
<1>1. /\ DOMAIN d.nodes \subseteq NodeIds
      /\ \A n \in DOMAIN d.nodes : d.nodes[n] \in GoodNode
  BY NodeTable
<1>2. DOMAIN N = DOMAIN d.nodes
  BY DEF NextCalls
<1>3. ASSUME NEW n \in DOMAIN d.nodes
      PROVE /\ N[n] \in GoodNode /\ SameNode(d.nodes[n], N[n])
            /\ N[n].async_buffer = IF d.nodes[n].owner = e /\ d.nodes[n].async_buffer = b
                                   THEN NextAsync(d, n) ELSE d.nodes[n].async_buffer
  <2>1. CASE d.nodes[n].owner = e /\ d.nodes[n].async_buffer = b
    <3>1. PICK a \in 0..BufferLimit : a = NextAsync(d, n)
      BY NextAsyncFacts
    <3>2. PICK v : v = [d.nodes[n] EXCEPT !.async_buffer = a]
      OBVIOUS
    <3>3. v \in GoodNode /\ SameNode(d.nodes[n], v) /\ v.async_buffer = a
      BY <1>1, <3>2, NodeUpdates
    <3>4. N[n] = v
      BY <2>1, <3>1, <3>2 DEF NextCalls
    <3> QED BY <2>1, <3>1, <3>3, <3>4
  <2>2. CASE ~(d.nodes[n].owner = e /\ d.nodes[n].async_buffer = b)
    BY <1>1, <2>2 DEF NextCalls, SameNode
  <2> QED BY <2>1, <2>2
<1>4. N \in [DOMAIN d.nodes -> GoodNode]
  BY <1>2, <1>3 DEF NextCalls
<1>5. N \in Nodes
  BY <1>1, <1>2, <1>4, TableMember DEF Nodes
<1> QED BY <1>2, <1>3, <1>5

\* The device once the buffer is free, before its holds are given back.
BufferFreed(d, e, b) == PutNodes(SetArena(d, e, b, "free"), NextCalls(d, e, b))

LEMMA FreeSteps ==
  ASSUME NEW d \in Device, NEW e, NEW b, d.endpoints[e].arena[b] = "delivered"
  PROVE free_packet(d, e, b)
          = release_claims(BufferFreed(d, e, b), ClaimsOf(BufferFreed(d, e, b), e, b))
<1>1. PICK f : f = BufferFreed(d, e, b)
  OBVIOUS
<1>2. f = [d EXCEPT !.endpoints[e].arena[b] = "free", !.nodes = NextCalls(d, e, b)]
  BY <1>1 DEF BufferFreed, PutNodes, SetArena
<1>3. free_packet(d, e, b) = release_claims(f, ClaimsOf(f, e, b))
  BY <1>2 DEF free_packet, NextCalls
<1> QED BY <1>1, <1>3

LEMMA BufferFreedFacts ==
  ASSUME NEW d, Sound(d, 0), NEW e \in Tokens, NEW b \in Buffers,
         NEW f, f = BufferFreed(d, e, b)
  PROVE /\ Sound(f, 0) /\ f \in Device /\ f.nodes = NextCalls(d, e, b)
        /\ f.next_node = d.next_node /\ f.references = d.references
        /\ f.claims = d.claims /\ f.deaths = d.deaths
        /\ f.threads = d.threads /\ f.work = d.work /\ f.transactions = d.transactions
        /\ f.next_transaction = d.next_transaction /\ SameOwners(d, f)
        /\ f.endpoints = SetArena(d, e, b, "free").endpoints
<1>0. d \in Device /\ Bounded(d) /\ NodesKnown(d)
  BY SoundFacts
<1>1. PICK v \in States : v = "free"
  BY DEF States
<1>2. PICK r : r = SetArena(d, e, b, v)
  OBVIOUS
<1>3. /\ r \in Device /\ SameObjects(d, r) /\ SameOwners(d, r)
      /\ r.threads = d.threads /\ r.next_transaction = d.next_transaction
      /\ r.transactions = d.transactions /\ r.work = d.work
      /\ Bounded(r) /\ Keeps(d, r)
  BY <1>0, <1>2, SetArenaFacts
<1>4. Sound(r, 0)
  BY <1>3, KeepsSound
<1>5. PICK N : N = NextCalls(d, e, b)
  OBVIOUS
<1>6. N \in Nodes /\ DOMAIN N = DOMAIN r.nodes
      /\ \A n \in DOMAIN r.nodes : SameNode(r.nodes[n], N[n])
  BY <1>0, <1>3, <1>5, NextCallsFacts DEF SameObjects
<1>7. f = PutNodes(r, N)
  BY <1>1, <1>2, <1>5 DEF BufferFreed
<1>8. /\ Sound(f, 0) /\ SameCalls(r, f) /\ f \in Device /\ f.nodes = N
      /\ f.next_node = r.next_node /\ f.references = r.references
      /\ f.claims = r.claims /\ f.deaths = r.deaths
  BY <1>4, <1>6, <1>7, PutNodesSound
<1> QED BY <1>1, <1>2, <1>3, <1>5, <1>8 DEF SameCalls, SameObjects, SameOwners

\* What BC_FREE_BUFFER does: nothing, or the delivered buffer is free.
FreeEffect(d, e, b, g) ==
  \/ SameFlow(d, g)
  \/ \E f : /\ d.endpoints[e].arena[b] = "delivered" /\ f = BufferFreed(d, e, b)
            /\ SameTalk(d, f) /\ Sound(f, 0) /\ SameFlow(f, g)

LEMMA FreeSound ==
  ASSUME NEW d, NEW e, NEW t, InCall(d, e, t), NEW b \in Buffers,
         NEW g, g = free_packet(d, e, b)
  PROVE InCall(g, e, t) /\ FreeEffect(d, e, b, g)
<1>0. d \in Device /\ e \in Tokens /\ Sound(d, 0)
  BY InCallFacts DEF InCall
<1>1. CASE d.endpoints[e].arena[b] # "delivered"
  BY <1>1, FlowRefl DEF free_packet, FreeEffect
<1>2. CASE d.endpoints[e].arena[b] = "delivered"
  <2>1. PICK f : f = BufferFreed(d, e, b)
    OBVIOUS
  <2>2. g = release_claims(f, ClaimsOf(f, e, b))
    BY <1>0, <1>2, <2>1, FreeSteps
  <2>3. /\ Sound(f, 0) /\ f.threads = d.threads /\ SameOwners(d, f)
        /\ f.work = d.work /\ f.transactions = d.transactions
        /\ f.next_transaction = d.next_transaction
    BY <1>0, <2>1, BufferFreedFacts
  <2>a. SameTalk(d, f)
    BY <2>3 DEF SameOwners, SameTalk, SameCallState
  <2>4. InCall(f, e, t)
    BY <1>0, <2>3 DEF InCall, SameOwners, endpoint_for
  <2>5. PICK C \in SUBSET f.claims : C = ClaimsOf(f, e, b)
    BY DEF ClaimsOf
  <2>6. Sound(g, 0) /\ SameCalls(f, g) /\ SameTurns(f, g)
    BY <2>2, <2>3, <2>5, ReleaseSound
  <2>7. InCall(g, e, t) /\ SameFlow(f, g)
    BY <2>4, <2>6, SameCallsInCall DEF StillIn
  <2> QED BY <1>2, <2>1, <2>3, <2>a, <2>7 DEF FreeEffect
<1> QED BY <1>1, <1>2

LEMMA LooperSound ==
  ASSUME NEW d, NEW e, NEW t, InCall(d, e, t), NEW command,
         command \in {"ENTER", "REGISTER", "EXIT"}, NEW g, g = looper_command(d, e, t, command)
  PROVE StillIn(d, g, e, t)
<1>0. d.threads[e][t] \in Thread /\ e \in Tokens /\ t \in DOMAIN d.threads[e]
  BY InCallFacts DEF InCall
<1> DEFINE old == d.threads[e][t].looper
<1>1. PICK L : L = CASE command = "ENTER" ->
                          old \cup {"entered"}
                            \cup (IF "registered" \in old THEN {"invalid"} ELSE {})
                     [] command = "REGISTER" -> old \cup {"registered", "invalid"}
                     [] command = "EXIT" -> old \cup {"exited"}
  OBVIOUS
<1>2. old \in SUBSET Looper
  BY <1>0 DEF Thread
<1>3. L \in SUBSET Looper
  <2> HIDE DEF old
  <2>1. CASE command = "ENTER"
    BY <1>1, <1>2, <2>1 DEF Looper
  <2>2. CASE command = "REGISTER"
    BY <1>1, <1>2, <2>2 DEF Looper
  <2>3. CASE command = "EXIT"
    BY <1>1, <1>2, <2>3 DEF Looper
  <2> QED BY <2>1, <2>2, <2>3
<1>4. PICK th : th = [d.threads[e][t] EXCEPT !.looper = L]
  OBVIOUS
<1>5. th \in Thread /\ th.active = d.threads[e][t].active /\ SameCallState(d.threads[e][t], th)
  BY <1>0, <1>3, <1>4 DEF Thread, SameCallState
<1>6. g = PutThread(d, e, t, th)
  BY <1>1, <1>4 DEF looper_command, PutThread
<1>7. InCall(g, e, t) /\ OneThread(d, g, e, t) /\ g.threads[e][t] = th
  BY <1>0, <1>5, <1>6, PutThreadInCall DEF MaySleep
<1> QED BY <1>0, <1>5, <1>7, FlowThread DEF StillIn

LEMMA DropSound ==
  ASSUME NEW x, NEW d, Sound(d, x), NEW K, NEW f, f = drop_references(d, K)
  PROVE Sound(f, x) /\ SameCalls(d, f) /\ SameTurns(d, f)
<1>0. d \in Device /\ Bounded(d) /\ NodesKnown(d)
  BY SoundFacts
<1>1. /\ f \in Device /\ SameCalls(d, f)
      /\ f.next_node = d.next_node /\ f.nodes = d.nodes
      /\ \A k : k \in DOMAIN f.references <=> k \in DOMAIN d.references /\ k \notin K
      /\ Bounded(f)
  BY <1>0, DropFacts
<1>2. Keeps(d, f)
  BY <1>0, <1>1, SameNodesKeeps DEF NodesKnown
<1>3. SameTurns(d, f)
  BY <1>1, KeptTurns
<1> QED BY <1>1, <1>2, <1>3, KeepsSound

PutReference(d, k, r) == PutReferences(d, [d.references EXCEPT ![k] = r])

LEMMA PutReferenceSound ==
  ASSUME NEW x, NEW d, Sound(d, x), NEW k \in DOMAIN d.references, NEW r \in Reference,
         NEW f, f = PutReference(d, k, r)
  PROVE /\ Sound(f, x) /\ SameCalls(d, f) /\ SameTurns(d, f) /\ f \in Device
        /\ f.next_node = d.next_node /\ f.nodes = d.nodes
        /\ f.claims = d.claims /\ f.deaths = d.deaths
        /\ DOMAIN f.references = DOMAIN d.references
        /\ \A y \in DOMAIN d.references : y # k => f.references[y] = d.references[y]
        /\ f.references[k] = r
<1>0. d \in Device /\ Bounded(d) /\ NodesKnown(d)
  BY SoundFacts
<1>1. d.references \in Tables(Tokens \X NodeIds, Reference)
  BY <1>0, ReferenceTable
<1>2. PICK R : R = [d.references EXCEPT ![k] = r]
  OBVIOUS
<1>3. R \in References
  BY <1>1, <1>2, TableExcept DEF References
<1>t. d.references \in [DOMAIN d.references -> Reference]
  BY <1>1, TableMember
<1>4. /\ DOMAIN R = DOMAIN d.references /\ R[k] = r
      /\ \A y \in DOMAIN d.references : y # k => R[y] = d.references[y]
  BY <1>t, <1>2
<1>5. f = PutReferences(d, R)
  BY <1>2 DEF PutReference
<1>6. /\ f \in Device /\ SameCalls(d, f)
      /\ f.next_node = d.next_node /\ f.nodes = d.nodes /\ f.references = R
      /\ f.claims = d.claims /\ f.deaths = d.deaths
  BY <1>0, <1>3, <1>5, PutReferencesFacts
<1>7. Bounded(f)
  BY <1>0, <1>4, <1>6 DEF Bounded, SameCalls
<1>8. Keeps(d, f)
  BY <1>0, <1>4, <1>6, SameNodesKeeps DEF NodesKnown
<1>9. SameTurns(d, f)
  BY <1>6, KeptTurns
<1> QED BY <1>4, <1>6, <1>7, <1>8, <1>9, KeepsSound

LEMMA BumpedFacts ==
  ASSUME NEW r \in Reference, NEW increment \in BOOLEAN
  PROVE LET Bumped(c) == IF increment THEN c + 1 ELSE Max({0, c - 1}) IN
        /\ ~(increment /\ r.strong = CountMax) =>
             [r EXCEPT !.strong = Bumped(r.strong)] \in Reference
        /\ ~(increment /\ r.weak = CountMax) =>
             [r EXCEPT !.weak = Bumped(r.weak)] \in Reference
<1> DEFINE Bumped(c) == IF increment THEN c + 1 ELSE Max({0, c - 1})
<1>1. CountMax \in Nat
  BY BinderAssumption
<1>2. ASSUME NEW c \in 0..CountMax, ~(increment /\ c = CountMax) PROVE Bumped(c) \in 0..CountMax
  <2>1. Max({0, c - 1}) = IF c - 1 > 0 THEN c - 1 ELSE 0
    BY <1>1, MaxZero
  <2> QED BY <1>1, <1>2, <2>1
<1>3. r.strong \in 0..CountMax /\ r.weak \in 0..CountMax
  BY DEF Reference
<1>4. \A c \in 0..CountMax : /\ [r EXCEPT !.strong = c] \in Reference
                             /\ [r EXCEPT !.weak = c] \in Reference
  BY DEF Reference
<1> QED BY <1>2, <1>3, <1>4

\* What reference_command works on: the references and the key that it counts.
Counts(d, e, h, increment, f, k) ==
  \/ /\ increment /\ h = 0 /\ d.manager # 0 /\ d.manager # e
     /\ ReferenceAvailable(d, e, d.manager_node)
     /\ f = ensure_reference(d, e, d.manager_node) /\ k = <<e, d.manager_node>>
     /\ k \in DOMAIN f.references
  \/ f = d /\ k \in DOMAIN d.references /\ k[1] = e
Recounted(r, strong, increment) ==
  IF strong THEN [r EXCEPT !.strong = IF increment THEN r.strong + 1
                                      ELSE Max({0, r.strong - 1})]
  ELSE [r EXCEPT !.weak = IF increment THEN r.weak + 1 ELSE Max({0, r.weak - 1})]
Recount(f, k, strong, increment, g) ==
  \/ g = f
  \/ /\ ~(increment /\ (IF strong THEN f.references[k].strong
                        ELSE f.references[k].weak) = CountMax)
     /\ \E a : /\ a = PutReference(f, k, Recounted(f.references[k], strong, increment))
               /\ g = collect_nodes(drop_references(a, Unreferenced(a, {k})))

LEMMA CountsCases ==
  ASSUME NEW d, NEW e, NEW h, NEW strong \in BOOLEAN, NEW increment \in BOOLEAN,
         NEW g, g = reference_command(d, e, h, strong, increment)
  PROVE g = d \/ \E f, k : Counts(d, e, h, increment, f, k) /\ Recount(f, k, strong, increment, g)
<1> DEFINE manager == increment /\ h = 0 /\ d.manager # 0
           new == manager /\ d.manager # e /\ ReferenceAvailable(d, e, d.manager_node)
           f == IF new THEN ensure_reference(d, e, d.manager_node) ELSE d
           K == IF manager THEN {<<e, d.manager_node>>} ELSE reference_for(f, e, h)
           k == CHOOSE x \in K : TRUE
           Bumped(c) == IF increment THEN c + 1 ELSE Max({0, c - 1})
           r == f.references[k]
           a == [f EXCEPT !.references[k] =
                   IF strong THEN [r EXCEPT !.strong = Bumped(r.strong)]
                   ELSE [r EXCEPT !.weak = Bumped(r.weak)]]
           A1 == K = {} \/ k \notin DOMAIN f.references
           A2 == increment /\ (IF strong THEN r.strong ELSE r.weak) = CountMax
           last == collect_nodes(drop_references(a, Unreferenced(a, {k})))
<1>1. g = IF A1 THEN d ELSE IF A2 THEN f ELSE last
  BY Zenon DEF reference_command
<1>2. K # {} => k \in K
  BY Zenon
<1>3. CASE A1
  BY Zenon, <1>1, <1>3
<1>4. CASE ~A1
  <2>1. Counts(d, e, h, increment, f, k)
    <3>1. k \in DOMAIN f.references /\ k \in K
      BY Zenon, <1>2, <1>4
    <3>2. CASE new
      <4>1. k = <<e, d.manager_node>> /\ f = ensure_reference(d, e, d.manager_node)
        <5>1. K = {<<e, d.manager_node>>} /\ f = ensure_reference(d, e, d.manager_node)
          BY Zenon, <3>2
        <5> HIDE DEF K, k, f
        <5> QED BY <3>1, <5>1
      <4> HIDE DEF k, f, K
      <4> QED BY <3>1, <3>2, <4>1 DEF Counts
    <3>3. CASE ~new
      <4>1. f = d
        BY Zenon, <3>3
      <4>2. k[1] = e
        <5>1. CASE manager
          <6>1. K = {<<e, d.manager_node>>}
            BY Zenon, <5>1
          <6> HIDE DEF K, k, f
          <6> QED BY <3>1, <6>1
        <5>2. CASE ~manager
          <6>1. K = reference_for(f, e, h)
            BY Zenon, <5>2
          <6> HIDE DEF K, k, f
          <6> QED BY <3>1, <6>1 DEF reference_for
        <5> QED BY <5>1, <5>2
      <4> HIDE DEF k, f, K
      <4> QED BY <3>1, <4>1, <4>2 DEF Counts
    <3> QED BY <3>2, <3>3
  <2>2. a = PutReference(f, k, Recounted(f.references[k], strong, increment))
    <3> HIDE DEF f, k, K
    <3> QED BY DEF PutReference, PutReferences, Recounted
  <2>3. g = f \/ (g = last /\ ~A2)
    BY Zenon, <1>1, <1>4
  <2>4. Recount(f, k, strong, increment, g)
    <3>1. CASE g = f
      BY Zenon, <3>1 DEF Recount
    <3>2. CASE g = last /\ ~A2
      <4>1. ~(increment /\ (IF strong THEN f.references[k].strong
                            ELSE f.references[k].weak) = CountMax)
        BY Zenon, <3>2
      <4> HIDE DEF f, k, K, a
      <4> QED BY Zenon, <2>2, <3>2, <4>1 DEF Recount
    <3> QED BY <2>3, <3>1, <3>2
  <2> HIDE DEF f, k, K
  <2> QED BY <2>1, <2>4
<1> QED BY <1>3, <1>4

LEMMA CountsSound ==
  ASSUME NEW d, NEW e, NEW t, InCall(d, e, t), NEW h, NEW increment \in BOOLEAN,
         NEW f, NEW k, Counts(d, e, h, increment, f, k)
  PROVE StillIn(d, f, e, t) /\ k \in DOMAIN f.references
<1>0. d \in Device /\ Bounded(d) /\ NodesKnown(d) /\ e \in Tokens /\ Sound(d, 0)
  BY InCallFacts DEF InCall
<1>1. CASE f = d /\ k \in DOMAIN d.references
  BY <1>1, FlowRefl DEF StillIn
<1>2. CASE /\ d.manager # 0 /\ ReferenceAvailable(d, e, d.manager_node)
           /\ f = ensure_reference(d, e, d.manager_node) /\ k \in DOMAIN f.references
  <2>1. PICK n \in DOMAIN d.nodes : n = d.manager_node
    <3>1. ManagerKnown(d, 0) /\ d.manager \notin {0, 0}
      BY <1>0, <1>2 DEF Sound, Known
    <3>2. d.manager_node \in DOMAIN d.nodes
      BY <3>1 DEF ManagerKnown
    <3> QED BY <3>2
  <2>2. f = ensure_reference(d, e, n) /\ ReferenceAvailable(d, e, n)
    BY <1>2, <2>1
  <2>a. /\ f \in Device /\ SameCalls(d, f) /\ f.next_node = d.next_node /\ f.nodes = d.nodes
        /\ AlsoRefers(d, f, e, n) /\ Bounded(f)
    <3>1. Ensured(d, f, e, n)
      BY <1>0, <2>2, EnsureFacts
    <3> QED BY <3>1 DEF Ensured
  <2>3. /\ f \in Device /\ SameCalls(d, f) /\ f.next_node = d.next_node /\ f.nodes = d.nodes
        /\ \A y : y \in DOMAIN f.references <=> y \in DOMAIN d.references \/ y = <<e, n>>
        /\ Bounded(f)
    BY <2>a DEF AlsoRefers
  <2>4. Keeps(d, f)
    BY <1>0, <2>3, SameNodesKeeps DEF NodesKnown
  <2>5. Sound(f, 0)
    BY <1>0, <2>3, <2>4, KeepsSound
  <2>6. SameTurns(d, f)
    BY <2>3, KeptTurns
  <2> QED BY <1>2, <2>3, <2>5, <2>6, SameCallsInCall
<1> QED BY <1>1, <1>2 DEF Counts

LEMMA ReferenceSound ==
  ASSUME NEW d, NEW e, NEW t, InCall(d, e, t), NEW h, NEW strong \in BOOLEAN,
         NEW increment \in BOOLEAN, NEW g, g = reference_command(d, e, h, strong, increment)
  PROVE StillIn(d, g, e, t)
<1>1. ASSUME NEW f, NEW k, Counts(d, e, h, increment, f, k), Recount(f, k, strong, increment, g)
      PROVE StillIn(d, g, e, t)
  <2>0. StillIn(d, f, e, t) /\ k \in DOMAIN f.references
    BY <1>1, CountsSound
  <2>1. InCall(f, e, t) /\ k \in DOMAIN f.references /\ Sound(f, 0) /\ f \in Device
    BY <2>0, InCallFacts DEF InCall, StillIn
  <2>2. CASE g = f
    BY <2>0, <2>2
  <2>3. ASSUME ~(increment /\ (IF strong THEN f.references[k].strong
                               ELSE f.references[k].weak) = CountMax),
               NEW a, a = PutReference(f, k, Recounted(f.references[k], strong, increment)),
               g = collect_nodes(drop_references(a, Unreferenced(a, {k})))
        PROVE StillIn(d, g, e, t)
    <3>1. f.references[k] \in Reference
      BY <2>1, ReferenceTable
    <3>2. PICK r \in Reference : r = Recounted(f.references[k], strong, increment)
      <4>1. PICK o \in Reference : o = f.references[k]
        BY <3>1
      <4>2. CASE strong
        BY <2>3, <4>1, <4>2, BumpedFacts DEF Recounted
      <4>3. CASE ~strong
        BY <2>3, <4>1, <4>3, BumpedFacts DEF Recounted
      <4> QED BY <4>2, <4>3
    <3>3. Sound(a, 0) /\ SameCalls(f, a) /\ SameTurns(f, a)
      BY <2>1, <2>3, <3>2, PutReferenceSound
    <3>4. PICK b : b = drop_references(a, Unreferenced(a, {k}))
      OBVIOUS
    <3>5. Sound(b, 0) /\ SameCalls(a, b) /\ SameTurns(a, b)
      BY <3>3, <3>4, DropSound
    <3>6. g = collect_nodes(b)
      BY <2>3, <3>4
    <3>7. Sound(g, 0) /\ SameCalls(b, g) /\ SameTurns(b, g)
      BY <3>5, <3>6, CollectSound
    <3>8. SameCalls(f, g)
      BY <3>3, <3>5, <3>7 DEF SameCalls
    <3>t. SameTurns(f, g)
      BY <3>3, <3>5, <3>7, TurnsTrans
    <3>9. StillIn(f, g, e, t)
      BY <2>1, <3>7, <3>8, <3>t, SameCallsInCall
    <3> QED BY <2>0, <3>9, StillInTrans
  <2> QED BY <1>1, <2>2, <2>3 DEF Recount
<1>2. CASE g = d
  BY <1>2, FlowRefl DEF StillIn
<1> QED BY <1>1, <1>2, CountsCases

\* The one-way calls of a node and what it stands for have not changed.
SameTurn(a, b) == SameNode(a, b) /\ b.async_buffer = a.async_buffer

LEMMA OneNodeTurns ==
  ASSUME NEW d, NEW f, NEW n \in DOMAIN d.nodes, OneNode(d, f, n),
         SameTurn(d.nodes[n], f.nodes[n])
  PROVE SameTurns(d, f)
<1>1. f.next_node = d.next_node /\ DOMAIN f.nodes = DOMAIN d.nodes
  BY DEF OneNode
<1>2. ASSUME NEW m \in DOMAIN f.nodes
      PROVE SameTurn(d.nodes[m], f.nodes[m])
  <2>1. CASE m # n
    <3>1. f.nodes[m] = d.nodes[m]
      BY <1>1, <2>1 DEF OneNode
    <3> QED BY <3>1 DEF SameTurn, SameNode
  <2> QED BY <2>1
<1> QED BY <1>1, <1>2, EqualTurns DEF SameTurn

\* The node after BC_ACQUIRE_DONE, or BC_INCREFS_DONE, and its notified thread.
Acknowledged(node, strong) ==
  [node EXCEPT !.pending_strong = node.pending_strong /\ ~strong,
               !.pending_weak = node.pending_weak /\ strong]

LEMMA AcknowledgedFacts ==
  ASSUME NEW node \in GoodNode, NEW strong \in BOOLEAN, NEW v, v = Acknowledged(node, strong)
  PROVE v \in GoodNode /\ SameTurn(node, v)
<1>1. CASE strong
  <2>1. v = [node EXCEPT !.pending_strong = FALSE, !.pending_weak = node.pending_weak]
    BY <1>1 DEF Acknowledged, GoodNode, Node
  <2> QED BY <2>1 DEF GoodNode, Node, SameNode, SameTurn
<1>2. CASE ~strong
  <2>1. v = [node EXCEPT !.pending_strong = node.pending_strong, !.pending_weak = FALSE]
    BY <1>2 DEF Acknowledged, GoodNode, Node
  <2> QED BY <2>1 DEF GoodNode, Node, SameNode, SameTurn
<1> QED BY <1>1, <1>2

LEMMA NotifiedFacts ==
  ASSUME NEW node \in GoodNode, NEW a \in Tids \cup {0},
         NEW v, v = [node EXCEPT !.notification_tid = a]
  PROVE v \in GoodNode /\ SameTurn(node, v)
  BY DEF GoodNode, Node, SameNode, SameTurn

Settles(d, f, n, strong, g) ==
  /\ f = PutNode(d, n, Acknowledged(d.nodes[n], strong))
  /\ \E a \in {0, f.nodes[n].notification_tid} :
       g = collect_nodes(PutNode(f, n, [f.nodes[n] EXCEPT !.notification_tid = a]))

LEMMA DoneCases ==
  ASSUME NEW d, NEW e, NEW pointer, NEW cookie, NEW strong \in BOOLEAN,
         NEW g, g = node_done_command(d, e, pointer, cookie, strong)
  PROVE g = d \/ \E n \in owned_node(d, e, pointer) : \E f : Settles(d, f, n, strong, g)
<1> DEFINE N == {n \in owned_node(d, e, pointer) : d.nodes[n].cookie = cookie}
           n == CHOOSE m \in N : TRUE
           f == [d EXCEPT !.nodes[n].pending_strong = @ /\ ~strong,
                          !.nodes[n].pending_weak = @ /\ strong]
           node == f.nodes[n]
           settled == /\ ~node.pending_strong /\ ~node.pending_weak
                      /\ ~(StrongUse(f, n) /\ ~node.has_strong)
                      /\ ~(WeakUse(f, n) /\ ~node.has_weak)
           last == collect_nodes([f EXCEPT !.nodes[n].notification_tid =
                                    IF settled THEN 0 ELSE @])
<1>1. g = IF N = {} THEN d ELSE last
  BY Zenon DEF node_done_command
<1>2. CASE N = {}
  BY <1>1, <1>2
<1>3. CASE N # {}
  <2>1. n \in N
    BY Zenon, <1>3
  <2>2. n \in owned_node(d, e, pointer) /\ g = last
    BY <1>1, <1>3, <2>1
  <2>3. f = PutNode(d, n, Acknowledged(d.nodes[n], strong))
    <3> HIDE DEF n, N
    <3> QED BY DEF PutNode, Acknowledged
  <2>4. PICK a \in {0, f.nodes[n].notification_tid} :
          a = IF settled THEN 0 ELSE f.nodes[n].notification_tid
    <3> HIDE DEF n, N, f, settled
    <3> QED OBVIOUS
  <2>5. last = collect_nodes(PutNode(f, n, [f.nodes[n] EXCEPT !.notification_tid = a]))
    <3>1. [f EXCEPT !.nodes[n].notification_tid = IF settled THEN 0 ELSE @]
            = PutNode(f, n, [f.nodes[n] EXCEPT !.notification_tid = a])
      <4> HIDE DEF n, N, f, settled
      <4> QED BY <2>4 DEF PutNode
    <3> HIDE DEF n, N, f, settled
    <3> QED BY <3>1
  <2> HIDE DEF n, N, f, last
  <2> QED BY <2>2, <2>3, <2>5 DEF Settles
<1> QED BY <1>2, <1>3

LEMMA DoneSound ==
  ASSUME NEW d, NEW e, NEW t, InCall(d, e, t), NEW pointer, NEW cookie, NEW strong \in BOOLEAN,
         NEW g, g = node_done_command(d, e, pointer, cookie, strong)
  PROVE StillIn(d, g, e, t)
<1>1. ASSUME NEW n \in owned_node(d, e, pointer), NEW f, Settles(d, f, n, strong, g)
      PROVE StillIn(d, g, e, t)
  <2>1. d \in Device /\ Sound(d, 0) /\ n \in DOMAIN d.nodes
    BY InCallFacts DEF InCall, owned_node
  <2>2. d.nodes[n] \in GoodNode
    BY <2>1, NodeTable
  <2>3. PICK v : v = Acknowledged(d.nodes[n], strong)
    OBVIOUS
  <2>4. v \in GoodNode /\ SameNode(d.nodes[n], v) /\ SameTurn(d.nodes[n], v)
    BY <2>2, <2>3, AcknowledgedFacts DEF SameTurn
  <2>5. f = PutNode(d, n, v)
    BY <1>1, <2>3 DEF Settles
  <2>6. Sound(f, 0) /\ OneNode(d, f, n) /\ f.nodes[n] = v
    BY <2>1, <2>4, <2>5, OneNodeSound
  <2>7. PICK a \in {0, f.nodes[n].notification_tid} :
          g = collect_nodes(PutNode(f, n, [f.nodes[n] EXCEPT !.notification_tid = a]))
    BY <1>1 DEF Settles
  <2>8. a \in Tids \cup {0} /\ n \in DOMAIN f.nodes
    BY <2>1, <2>4, <2>6, <2>7 DEF GoodNode, Node, OneNode
  <2>9. PICK z : z = [v EXCEPT !.notification_tid = a]
    OBVIOUS
  <2>10. z \in GoodNode /\ SameNode(v, z) /\ SameTurn(v, z)
    BY <2>4, <2>8, <2>9, NotifiedFacts DEF SameTurn
  <2>11. PICK h : h = PutNode(f, n, z)
    OBVIOUS
  <2>12. Sound(h, 0) /\ OneNode(f, h, n) /\ h.nodes[n] = z
    BY <2>6, <2>8, <2>10, <2>11, OneNodeSound
  <2>13. g = collect_nodes(h)
    BY <2>6, <2>7, <2>9, <2>11
  <2>14. Sound(g, 0) /\ SameCalls(h, g) /\ SameTurns(h, g)
    BY <2>12, <2>13, CollectSound
  <2>15. SameCalls(d, f) /\ SameCalls(f, h)
    BY <2>6, <2>12 DEF OneNode
  <2>16. SameCalls(d, g)
    BY <2>14, <2>15 DEF SameCalls
  <2>17. SameTurns(d, f) /\ SameTurns(f, h)
    BY <2>1, <2>4, <2>6, <2>8, <2>10, <2>12, OneNodeTurns
  <2>18. SameTurns(d, g)
    BY <2>14, <2>17, TurnsTrans
  <2> QED BY <2>14, <2>16, <2>18, SameCallsInCall
<1>2. CASE g = d
  BY <1>2, FlowRefl DEF StillIn
<1> QED BY <1>1, <1>2, DoneCases

----------------------------------------------------------------------------
(* Death notifications.                                                      *)

PutDeath(d, i, v) == [d EXCEPT !.deaths[i] = v]

LEMMA PutDeathSound ==
  ASSUME NEW x, NEW d, Sound(d, x), NEW i \in Slots, NEW v \in Death,
         NEW f, f = PutDeath(d, i, v)
  PROVE /\ Sound(f, x) /\ SameCalls(d, f) /\ SameTurns(d, f) /\ f \in Device
        /\ f.next_node = d.next_node /\ f.nodes = d.nodes
        /\ f.references = d.references /\ f.claims = d.claims
        /\ f.deaths[i] = v /\ \A j \in Slots \ {i} : f.deaths[j] = d.deaths[j]
<1>0. d \in Device /\ Bounded(d) /\ NodesKnown(d)
  BY SoundFacts
<1>1. d.deaths \in [Slots -> Death] /\ d.references \in References
  BY <1>0, FieldTypes DEF Deaths
<1>2. PICK D : D = [d.deaths EXCEPT ![i] = v]
  OBVIOUS
<1>3. D \in Deaths /\ D[i] = v /\ \A j \in Slots \ {i} : D[j] = d.deaths[j]
  BY <1>1, <1>2 DEF Deaths
<1>4. f = PutReferencesDeaths(d, d.references, D)
  BY <1>0, <1>2 DEF PutDeath, PutReferencesDeaths, Device
<1>5. /\ f \in Device /\ SameCalls(d, f)
      /\ f.next_node = d.next_node /\ f.nodes = d.nodes /\ f.references = d.references
      /\ f.claims = d.claims /\ f.deaths = D
  BY <1>0, <1>1, <1>3, <1>4, PutReferencesDeathsFacts
<1>6. Bounded(f)
  BY <1>0, <1>5 DEF Bounded, SameCalls
<1>7. Keeps(d, f)
  BY <1>0, <1>5, SameNodesKeeps DEF NodesKnown
<1>8. SameTurns(d, f)
  BY <1>5, KeptTurns
<1> QED BY <1>3, <1>5, <1>6, <1>7, <1>8, KeepsSound

DeathStates == {None, "armed", "queued", "delivered", "acknowledged", "clear_queued"}

LEMMA DeathUpdates ==
  ASSUME NEW death \in Death
  PROVE /\ [death EXCEPT !.clearing = TRUE] \in Death
        /\ \A state \in DeathStates : [death EXCEPT !.state = state] \in Death
        /\ \A state \in DeathStates : \A y \in Tids \cup {0} :
             [death EXCEPT !.state = state, !.tid = y] \in Death
        /\ NoDeath \in Death
<1>1. [death EXCEPT !.clearing = TRUE] \in Death
  BY DEF Death
<1>2. \A state \in DeathStates : [death EXCEPT !.state = state] \in Death
  BY DEF Death, DeathStates
<1>3. \A state \in DeathStates : \A y \in Tids \cup {0} :
             [death EXCEPT !.state = state, !.tid = y] \in Death
  BY DEF Death, DeathStates
<1>4. NoDeath \in Death
  BY DEF Death, NoDeath, None
<1> QED BY <1>1, <1>2, <1>3, <1>4

LEMMA QueueClearSound ==
  ASSUME NEW d, NEW e, NEW t, InCall(d, e, t), NEW i \in Slots, NEW u \in Tids,
         NEW z, NEW f, f = queue_clear(d, i, z, u)
  PROVE StillIn(d, f, e, t)
<1>0. d \in Device /\ Sound(d, 0)
  BY InCallFacts DEF InCall
<1>1. d.deaths[i] \in Death
  BY <1>0, FieldTypes DEF Deaths
<1>2. PICK y \in Tids \cup {0} :
        y = IF d.threads[z][u].looper \cap {"entered", "registered"} # {} THEN u ELSE 0
  OBVIOUS
<1>3. PICK state \in DeathStates : state = "clear_queued"
  BY DEF DeathStates
<1>4. PICK v \in Death : v = [d.deaths[i] EXCEPT !.state = state, !.tid = y]
  BY <1>1, DeathUpdates
<1>5. f = PutDeath(d, i, v)
  BY <1>2, <1>3, <1>4 DEF queue_clear, PutDeath
<1>6. Sound(f, 0) /\ SameCalls(d, f) /\ SameTurns(d, f)
  BY <1>0, <1>5, PutDeathSound
<1> QED BY <1>6, SameCallsInCall

\* A subscription of endpoint e to the death of owner.
Watch(e, owner, cookie, state) ==
  [endpoint |-> e, owner |-> owner, cookie |-> cookie, tid |-> 0, clearing |-> FALSE,
   state |-> state]

LEMMA WatchFacts ==
  ASSUME NEW e \in Tokens, NEW owner \in Tokens, NEW cookie \in Nat, NEW state \in DeathStates
  PROVE Watch(e, owner, cookie, state) \in Death
  BY DEF Watch, Death, DeathStates

LEMMA ReferenceDeath ==
  ASSUME NEW r \in Reference, NEW i \in 0..PacketLimit, NEW v, v = [r EXCEPT !.death = i]
  PROVE /\ v \in Reference /\ v.death = i /\ v.owner = r.owner /\ v.handle = r.handle
        /\ v.strong = r.strong /\ v.weak = r.weak /\ v.temporary_strong = r.temporary_strong
  BY DEF Reference

PutReferenceDeath(d, k, r, i, v) == [d EXCEPT !.references[k] = r, !.deaths[i] = v]

LEMMA PutDeathInCall ==
  ASSUME NEW d, NEW e, NEW t, InCall(d, e, t), NEW k \in DOMAIN d.references,
         NEW r \in Reference, NEW i \in Slots, NEW v \in Death,
         NEW f, f = PutReferenceDeath(d, k, r, i, v)
  PROVE StillIn(d, f, e, t)
<1>0. d \in Device /\ Sound(d, 0)
  BY InCallFacts DEF InCall
<1>1. PICK a : a = PutReference(d, k, r)
  OBVIOUS
<1>2. Sound(a, 0) /\ SameCalls(d, a) /\ SameTurns(d, a) /\ a.deaths = d.deaths
  BY <1>0, <1>1, PutReferenceSound
<1>3. f = PutDeath(a, i, v)
  <2>1. a = [d EXCEPT !.references = [d.references EXCEPT ![k] = r]]
    BY <1>1 DEF PutReference, PutReferences
  <2> QED BY <1>0, <1>2, <2>1 DEF PutDeath, PutReferenceDeath, Device
<1>4. Sound(f, 0) /\ SameCalls(a, f) /\ SameTurns(a, f)
  BY <1>2, <1>3, PutDeathSound
<1>5. SameCalls(d, f)
  BY <1>2, <1>4 DEF SameCalls
<1>6. SameTurns(d, f)
  BY <1>2, <1>4, TurnsTrans
<1> QED BY <1>4, <1>5, <1>6, SameCallsInCall

FreeSlots(d) == {i \in Slots : d.deaths[i].endpoint = 0}

LEMMA RequestSound ==
  ASSUME NEW d, NEW e, NEW t, InCall(d, e, t), NEW h, NEW cookie \in Nat,
         NEW g, g = request_death(d, e, h, cookie)
  PROVE StillIn(d, g, e, t)
<1> DEFINE K == reference_for(d, e, h)
           k == CHOOSE x \in K : TRUE
           owner == d.references[k].owner
           last == [d EXCEPT !.references[k].death = Min(FreeSlots(d)),
                             !.deaths[Min(FreeSlots(d))] = [endpoint |-> e, owner |-> owner,
                               cookie |-> cookie, tid |-> 0, clearing |-> FALSE,
                               state |-> IF endpoint_for(d, owner) THEN "armed" ELSE "queued"]]
<1>0. d \in Device /\ e \in Tokens
  BY InCallFacts
<1>1. g = IF K = {} \/ FreeSlots(d) = {} THEN d
          ELSE IF d.references[k].death # 0 THEN d ELSE last
  BY Zenon DEF request_death, FreeSlots
<1>2. CASE ~(K = {} \/ FreeSlots(d) = {}) /\ g = last
  <2>1. k \in K
    BY Zenon, <1>2
  <2>2. PICK y \in DOMAIN d.references : y = k
    BY <2>1 DEF reference_for
  <2>3. FreeSlots(d) \in SUBSET Nat /\ FreeSlots(d) # {}
    BY <1>2, BinderAssumption DEF FreeSlots, Slots
  <2>4. PICK i \in Slots : i = Min(FreeSlots(d))
    <3>1. Min(FreeSlots(d)) \in FreeSlots(d)
      BY <2>3, MinIn
    <3> QED BY <3>1 DEF FreeSlots
  <2>5. d.references[y] \in Reference /\ i \in 0..PacketLimit
    BY <1>0, ReferenceTable DEF Slots
  <2>6. PICK o \in Tokens : o = d.references[y].owner
    BY <2>5 DEF Reference
  <2>7. PICK r \in Reference : r = [d.references[y] EXCEPT !.death = i]
    BY <2>5, ReferenceDeath
  <2>8. PICK state \in DeathStates : state = IF endpoint_for(d, o) THEN "armed" ELSE "queued"
    BY DEF DeathStates
  <2>9. PICK v \in Death : v = Watch(e, o, cookie, state)
    BY <1>0, WatchFacts
  <2>10. last = [d EXCEPT !.references[y].death = i,
                         !.deaths[i] = [endpoint |-> e, owner |-> o,
                               cookie |-> cookie, tid |-> 0, clearing |-> FALSE,
                               state |-> IF endpoint_for(d, o) THEN "armed" ELSE "queued"]]
    BY Zenon, <2>2, <2>4, <2>6
  <2> HIDE DEF last, k, K
  <2>11. g = PutReferenceDeath(d, y, r, i, v)
    BY <1>2, <2>7, <2>8, <2>9, <2>10 DEF Watch, PutReferenceDeath
  <2> QED BY <2>11, PutDeathInCall
<1>3. CASE ~(~(K = {} \/ FreeSlots(d) = {}) /\ g = last)
  <2>1. g = d
    BY Zenon, <1>1, <1>3
  <2> QED BY <2>1, FlowRefl DEF StillIn
<1> QED BY <1>2, <1>3

LEMMA ClearSound ==
  ASSUME NEW d, NEW e, NEW t, InCall(d, e, t), NEW h, NEW cookie,
         NEW g, g = clear_death(d, e, t, h, cookie)
  PROVE StillIn(d, g, e, t)
<1> DEFINE K == {k \in reference_for(d, e, h) : d.references[k].death # 0}
           k == CHOOSE x \in K : TRUE
           i == d.references[k].death
           f == [d EXCEPT !.references[k].death = 0, !.deaths[i].clearing = TRUE]
           last == IF Clearable(d.deaths[i].state) THEN queue_clear(f, i, e, t) ELSE f
<1>0. d \in Device /\ e \in Tokens /\ t \in Tids
  BY InCallFacts
<1>1. g = IF K = {} THEN d ELSE IF d.deaths[i].cookie # cookie THEN d ELSE last
  BY Zenon DEF clear_death
<1>2. CASE K # {} /\ g = last
  <2>1. k \in K
    BY Zenon, <1>2
  <2>2. PICK y \in DOMAIN d.references : y = k /\ d.references[y].death # 0
    BY <2>1 DEF reference_for
  <2>3. d.references[y] \in Reference
    BY <1>0, ReferenceTable
  <2>4. PICK j \in Slots : j = d.references[y].death
    <3>1. d.references[y].death \in 0..PacketLimit
      BY <2>3 DEF Reference
    <3>2. d.references[y].death \in 1..PacketLimit
      BY <2>2, <3>1, BinderAssumption
    <3> QED BY <3>2 DEF Slots
  <2>5. PICK z \in 0..PacketLimit : z = 0
    BY BinderAssumption
  <2>6. PICK r \in Reference : r = [d.references[y] EXCEPT !.death = z]
    BY <2>3, ReferenceDeath
  <2>7. d.deaths[j] \in Death
    BY <1>0, FieldTypes DEF Deaths
  <2>8. PICK v \in Death : v = [d.deaths[j] EXCEPT !.clearing = TRUE]
    BY <2>7, DeathUpdates
  <2>9. PICK a : a = PutReferenceDeath(d, y, r, j, v)
    OBVIOUS
  <2>10. f = a
    <3>1. f = [d EXCEPT !.references[y].death = 0, !.deaths[j].clearing = TRUE]
      BY Zenon, <2>2, <2>4
    <3> HIDE DEF f
    <3> QED BY <2>5, <2>6, <2>8, <2>9, <3>1 DEF PutReferenceDeath
  <2>11. StillIn(d, a, e, t)
    BY <2>9, PutDeathInCall
  <2>12. g = a \/ g = queue_clear(a, j, e, t)
    <3>2. i = j
      BY Zenon, <2>2, <2>4
    <3> HIDE DEF i, f
    <3> QED BY Zenon, <1>2, <2>10, <3>2
  <2> HIDE DEF f, K, k, i, last
  <2>13. g = queue_clear(a, j, e, t) => StillIn(a, g, e, t)
    BY <1>0, <2>11, QueueClearSound DEF StillIn
  <2> QED BY <2>11, <2>12, <2>13, StillInTrans
<1>3. CASE ~(K # {} /\ g = last)
  <2>1. g = d
    BY Zenon, <1>1, <1>3
  <2> QED BY <2>1, FlowRefl DEF StillIn
<1> QED BY <1>2, <1>3

LEMMA DeathDoneSound ==
  ASSUME NEW d, NEW e, NEW t, InCall(d, e, t), NEW cookie,
         NEW g, g = death_done(d, e, t, cookie)
  PROVE StillIn(d, g, e, t)
<1> DEFINE I == {i \in Slots : /\ d.deaths[i].endpoint = e /\ d.deaths[i].cookie = cookie
                              /\ d.deaths[i].state = "delivered"}
<1>0. d \in Device /\ e \in Tokens /\ t \in Tids /\ Sound(d, 0)
  BY InCallFacts DEF InCall
<1>1. g = IF I = {} THEN d
          ELSE IF d.deaths[Min(I)].clearing THEN queue_clear(d, Min(I), e, t)
          ELSE [d EXCEPT !.deaths[Min(I)].state = "acknowledged"]
  BY Zenon DEF death_done
<1>2. CASE I # {}
  <2>1. I \in SUBSET Nat
    BY BinderAssumption DEF Slots
  <2>2. PICK i \in Slots : i = Min(I)
    <3>1. Min(I) \in I
      BY <2>1, <1>2, MinIn
    <3> QED BY <3>1
  <2>3. g = queue_clear(d, i, e, t) \/ g = [d EXCEPT !.deaths[i].state = "acknowledged"]
    <3> HIDE DEF I
    <3> QED BY Zenon, <1>1, <1>2, <2>2
  <2>4. d.deaths[i] \in Death
    BY <1>0, FieldTypes DEF Deaths
  <2>5. PICK state \in DeathStates : state = "acknowledged"
    BY DEF DeathStates
  <2>6. PICK v \in Death : v = [d.deaths[i] EXCEPT !.state = state]
    BY <2>4, DeathUpdates
  <2>7. PICK a : a = PutDeath(d, i, v)
    OBVIOUS
  <2>8. Sound(a, 0) /\ SameCalls(d, a) /\ SameTurns(d, a)
    BY <1>0, <2>7, PutDeathSound
  <2>9. StillIn(d, a, e, t)
    BY <2>8, SameCallsInCall
  <2>10. a = [d EXCEPT !.deaths[i].state = "acknowledged"]
    BY <2>5, <2>6, <2>7 DEF PutDeath
  <2> QED BY <1>0, <2>3, <2>9, <2>10, QueueClearSound
<1>3. CASE I = {}
  BY <1>1, <1>3, FlowRefl DEF StillIn
<1> QED BY <1>2, <1>3

----------------------------------------------------------------------------
(* Reading.                                                                  *)

\* A node whose owner was told, and what it holds and what is pending now.
HoldsWeak(node, held, pending) == [node EXCEPT !.has_weak = held, !.pending_weak = pending]
HoldsStrong(node, held, pending) ==
  [node EXCEPT !.has_strong = held, !.pending_strong = pending]
Marked(node, hw, pw, hs, ps) == HoldsStrong(HoldsWeak(node, hw, pw), hs, ps)

WeaklyHeld(node, v, held, pending) ==
  /\ v \in Node /\ SameTurn(node, v)
  /\ v.has_weak = held /\ v.pending_weak = pending
StronglyHeld(node, v, held, pending) ==
  /\ v \in Node /\ SameTurn(node, v)
  /\ v.has_weak = node.has_weak /\ v.pending_weak = node.pending_weak
  /\ v.has_strong = held /\ v.pending_strong = pending

LEMMA HoldsWeakFacts ==
  ASSUME NEW node \in Node, NEW held \in BOOLEAN, NEW pending \in BOOLEAN,
         NEW v, v = HoldsWeak(node, held, pending)
  PROVE WeaklyHeld(node, v, held, pending)
  BY DEF Node, HoldsWeak, SameNode, SameTurn, WeaklyHeld

LEMMA HoldsStrongFacts ==
  ASSUME NEW node \in Node, NEW held \in BOOLEAN, NEW pending \in BOOLEAN,
         NEW v, v = HoldsStrong(node, held, pending)
  PROVE StronglyHeld(node, v, held, pending)
  BY DEF Node, HoldsStrong, SameNode, SameTurn, StronglyHeld

LEMMA MarkedFacts ==
  ASSUME NEW node \in GoodNode, NEW hw \in BOOLEAN, NEW pw \in BOOLEAN,
         NEW hs \in BOOLEAN, NEW ps \in BOOLEAN,
         hs => hw, ps => hs, pw => hw,
         NEW v, v = Marked(node, hw, pw, hs, ps)
  PROVE v \in GoodNode /\ SameTurn(node, v)
<1>1. node \in Node
  BY DEF GoodNode
<1>2. PICK w : w = HoldsWeak(node, hw, pw)
  OBVIOUS
<1>3. WeaklyHeld(node, w, hw, pw) /\ w \in Node
  BY <1>1, <1>2, HoldsWeakFacts DEF WeaklyHeld
<1>4. v = HoldsStrong(w, hs, ps)
  BY <1>2 DEF Marked
<1>5. StronglyHeld(w, v, hs, ps)
  BY <1>3, <1>4, HoldsStrongFacts
<1>6. v \in Node /\ SameTurn(node, v)
  BY <1>3, <1>5 DEF WeaklyHeld, StronglyHeld, SameNode, SameTurn
<1>7. /\ v.pending_strong => v.has_strong
      /\ v.pending_weak => v.has_weak
      /\ v.has_strong => v.has_weak
  BY <1>3, <1>5 DEF WeaklyHeld, StronglyHeld
<1> QED BY <1>6, <1>7 DEF GoodNode

\* The callbacks come in an order that leaves the node in order: ACQUIRE and
\* RELEASE need the weak hold of the owner, DECREFS comes after RELEASE, and
\* what is pending is a use.
LEMMA CalledFacts ==
  ASSUME NEW d \in Device, NEW n \in DOMAIN d.nodes, node_command(d, n) # None,
         NEW v, v = Called(d.nodes[n], node_command(d, n))
  PROVE v \in GoodNode /\ SameTurn(d.nodes[n], v)
<1> DEFINE node == d.nodes[n]
<1>1. node \in GoodNode
  BY NodeTable
<1>2. PICK W \in BOOLEAN : W <=> WeakUse(d, n)
  OBVIOUS
<1>3. PICK S \in BOOLEAN : S <=> StrongUse(d, n)
  OBVIOUS
<1>4. (node.pending_strong => S) /\ (node.pending_weak => W) /\ (S => W)
  BY <1>2, <1>3 DEF WeakUse, StrongUse
<1>5. PICK c : c = node_command(d, n)
  OBVIOUS
<1>6. c = IF W /\ ~node.has_weak THEN "INCREFS"
          ELSE IF S /\ ~node.has_strong THEN "ACQUIRE"
          ELSE IF ~S /\ node.has_strong THEN "RELEASE"
          ELSE IF ~W /\ node.has_weak THEN "DECREFS" ELSE None
  BY <1>2, <1>3, <1>5, Zenon DEF node_command
<1>7. v = Called(node, c) /\ c # None
  BY <1>5
<1> HIDE DEF node
<1>a. PICK hw \in BOOLEAN, pw \in BOOLEAN, hs \in BOOLEAN, ps \in BOOLEAN :
        hw = node.has_weak /\ pw = node.pending_weak /\ hs = node.has_strong
        /\ ps = node.pending_strong
  BY <1>1 DEF GoodNode, Node
<1>b. (ps => hs) /\ (pw => hw) /\ (hs => hw)
  BY <1>1, <1>a DEF GoodNode
<1>c. PICK yes \in BOOLEAN, no \in BOOLEAN : yes = TRUE /\ no = FALSE
  OBVIOUS
<1>8. CASE c = "INCREFS"
  <2>1. v = Marked(node, yes, yes, hs, ps)
    BY <1>1, <1>7, <1>8, <1>a, <1>c DEF Called, Marked, HoldsWeak, HoldsStrong, GoodNode, Node
  <2> QED BY <1>1, <1>b, <1>c, <2>1, MarkedFacts DEF node
<1>9. CASE c = "ACQUIRE"
  <2>1. v = Marked(node, hw, pw, yes, yes)
    BY <1>1, <1>7, <1>9, <1>a, <1>c DEF Called, Marked, HoldsWeak, HoldsStrong, GoodNode, Node
  <2>2. hw = TRUE
    BY <1>4, <1>6, <1>9, <1>a DEF None
  <2> QED BY <1>1, <1>b, <1>c, <2>1, <2>2, MarkedFacts DEF node
<1>10. CASE c = "RELEASE"
  <2>1. v = Marked(node, hw, pw, no, ps)
    BY <1>1, <1>7, <1>10, <1>a, <1>c DEF Called, Marked, HoldsWeak, HoldsStrong, GoodNode, Node
  <2>2. ps = FALSE
    BY <1>4, <1>6, <1>10, <1>a DEF None
  <2> QED BY <1>1, <1>b, <1>c, <2>1, <2>2, MarkedFacts DEF node
<1>11. CASE c = "DECREFS"
  <2>1. v = Marked(node, no, pw, hs, ps)
    BY <1>1, <1>7, <1>11, <1>a, <1>c DEF Called, Marked, HoldsWeak, HoldsStrong, GoodNode, Node
  <2>2. pw = FALSE /\ hs = FALSE
    BY <1>4, <1>6, <1>11, <1>a DEF None
  <2> QED BY <1>1, <1>b, <1>c, <2>1, <2>2, MarkedFacts DEF node
<1> QED BY <1>6, <1>7, <1>8, <1>9, <1>10, <1>11

LEMMA NodeEventSound ==
  ASSUME NEW d, NEW e, NEW t, InCall(d, e, t), NEW n \in DOMAIN d.nodes,
         node_command(d, n) # None, NEW g, g = TakeNodeEvent(d, n)
  PROVE StillIn(d, g, e, t)
<1>0. d \in Device /\ Sound(d, 0)
  BY InCallFacts DEF InCall
<1>1. PICK v : v = Called(d.nodes[n], node_command(d, n))
  OBVIOUS
<1>2. v \in GoodNode /\ SameNode(d.nodes[n], v) /\ SameTurn(d.nodes[n], v)
  BY <1>0, <1>1, CalledFacts DEF SameTurn
<1>3. PICK f : f = PutNode(d, n, v)
  OBVIOUS
<1>4. Sound(f, 0) /\ OneNode(d, f, n) /\ f.nodes[n] = v
  BY <1>0, <1>2, <1>3, OneNodeSound
<1>5. g = collect_nodes(f)
  BY <1>1, <1>3 DEF TakeNodeEvent, PutNode
<1>6. Sound(g, 0) /\ SameCalls(f, g) /\ SameTurns(f, g)
  BY <1>4, <1>5, CollectSound
<1>7. SameCalls(d, g)
  BY <1>4, <1>6 DEF OneNode, SameCalls
<1>8. SameTurns(d, f)
  BY <1>2, <1>4, OneNodeTurns
<1>9. SameTurns(d, g)
  BY <1>6, <1>8, TurnsTrans
<1> QED BY <1>6, <1>7, <1>9, SameCallsInCall

\* The calls once the one with this number is received by thread t.
Received(X, id, t) == {IF x.id = id THEN [x EXCEPT !.target_tid = t] ELSE x : x \in X}
Incoming(th, id) == [th EXCEPT !.incoming = IF id # 0 THEN id ELSE th.incoming]
\* The device once the work at position i is taken by thread t of endpoint e.
Taken(d, e, t, i) ==
  LET w == d.work[i]
      r == SetArena(d, e, w.buffer, "delivered")
      a == PutThread(r, e, t, Incoming(r.threads[e][t], w.transaction))
  IN PutQueue(a, a.next_transaction, Received(a.transactions, w.transaction, t),
              Erase(a.work, i))

LEMMA ReceivedFacts ==
  ASSUME NEW X \in Transactions, NEW id, NEW t \in Tids
  PROVE Received(X, id, t) \in Transactions
<1>1. \A x \in Transaction : [x EXCEPT !.target_tid = t] \in Transaction
  BY DEF Transaction
<1> QED BY <1>1 DEF Received, Transactions

LEMMA TakenSteps ==
  ASSUME NEW d \in Device, NEW e \in Tokens, NEW t \in DOMAIN d.threads[e], NEW i
  PROVE TakeWork(d, e, t, i) = Taken(d, e, t, i)
<1>1. PICK w : w = d.work[i]
  OBVIOUS
<1>2. PICK r : r = SetArena(d, e, w.buffer, "delivered")
  OBVIOUS
<1>3. PICK E : E = [d.endpoints EXCEPT ![e] = [d.endpoints[e] EXCEPT !.arena =
                       [d.endpoints[e].arena EXCEPT ![w.buffer] = "delivered"]]]
  OBVIOUS
<1>4. r = [d EXCEPT !.endpoints = E]
  BY <1>2, <1>3 DEF SetArena
<1>5. PICK T : T = [d.threads EXCEPT ![e] = [d.threads[e] EXCEPT ![t] =
                      Incoming(d.threads[e][t], w.transaction)]]
  OBVIOUS
<1>6. PICK a : a = PutThread(r, e, t, Incoming(r.threads[e][t], w.transaction))
  OBVIOUS
<1>7. r.threads = d.threads /\ r.transactions = d.transactions /\ r.work = d.work
      /\ r.next_transaction = d.next_transaction
  BY <1>4 DEF Device
<1>8. a = [r EXCEPT !.threads = T]
  BY <1>5, <1>6, <1>7 DEF PutThread
<1>9. a = [d EXCEPT !.endpoints = E, !.threads = T]
  BY <1>4, <1>8 DEF Device
<1>10. PICK X : X = Received(d.transactions, w.transaction, t)
  OBVIOUS
<1>11. PICK W : W = Erase(d.work, i)
  OBVIOUS
<1>12. TakeWork(d, e, t, i) = [d EXCEPT !.endpoints = E, !.transactions = X, !.threads = T, !.work = W]
  BY <1>1, <1>3, <1>5, <1>10, <1>11 DEF TakeWork, Received, Incoming
<1>13. a.transactions = d.transactions /\ a.work = d.work
       /\ a.next_transaction = d.next_transaction
  BY <1>9 DEF Device
<1>14. Taken(d, e, t, i) = PutQueue(a, a.next_transaction, X, W)
  BY <1>1, <1>2, <1>6, <1>10, <1>11, <1>13 DEF Taken
<1>15. PutQueue(a, a.next_transaction, X, W)
         = [d EXCEPT !.endpoints = E, !.transactions = X, !.threads = T, !.work = W]
  BY <1>9, <1>13 DEF PutQueue, Device
<1> QED BY <1>12, <1>14, <1>15

LEMMA WorkItem ==
  ASSUME NEW d \in Device, NEW i \in DOMAIN d.work
  PROVE /\ d.work[i] \in Work /\ i \in Nat /\ d.work \in Seq(Work)
        /\ d.work[i].endpoint \in Tokens /\ d.work[i].buffer \in Buffers
        /\ d.work[i].tid \in Tids \cup {0} /\ d.work[i].transaction \in 0..TxnLimit
        /\ d.work[i].async_node \in 0..NodeLimit
<1>1. d.work \in Seq(Work)
  BY FieldTypes DEF Works
<1>2. d.work[i] \in Work /\ i \in Nat
  BY <1>1
<1>3. \A w \in Work : /\ w.endpoint \in Tokens /\ w.buffer \in Buffers
                      /\ w.tid \in Tids \cup {0} /\ w.transaction \in 0..TxnLimit
                      /\ w.async_node \in 0..NodeLimit
  BY DEF Work
<1> QED BY <1>1, <1>2, <1>3

\* f is d once thread t of endpoint e has taken the work at position i.
Took(d, f, e, t, i) ==
  /\ f.next_transaction = d.next_transaction
  /\ f.transactions = Received(d.transactions, d.work[i].transaction, t)
  /\ f.work = Erase(d.work, i)
  /\ \A u \in Tokens : f.endpoints[u].used = d.endpoints[u].used
  /\ \A u \in Tokens : DOMAIN f.threads[u] = DOMAIN d.threads[u]
  /\ \A u \in Tokens : \A y \in DOMAIN d.threads[u] :
       ~(u = e /\ y = t) => f.threads[u][y] = d.threads[u][y]
  /\ f.threads[e][t].outgoing = d.threads[e][t].outgoing
  /\ f.threads[e][t].dead_reply = d.threads[e][t].dead_reply
  /\ BufferIs(d, f, e, d.work[i].buffer, "delivered") /\ SameTurns(d, f)
  /\ f.threads[e][t].incoming = IF d.work[i].transaction # 0 THEN d.work[i].transaction
                                ELSE d.threads[e][t].incoming

LEMMA TakeWorkSound ==
  ASSUME NEW d, NEW e, NEW t, InCall(d, e, t), NEW i \in DOMAIN d.work,
         NEW g, g = TakeWork(d, e, t, i)
  PROVE InCall(g, e, t) /\ Took(d, g, e, t, i)
<1>0. /\ d \in Device /\ Bounded(d) /\ NodesKnown(d) /\ e \in Tokens /\ t \in Tids
      /\ Sound(d, 0) /\ t \in DOMAIN d.threads[e]
  BY InCallFacts DEF InCall
<1>1. PICK w \in Work : w = d.work[i]
  BY <1>0, WorkItem
<1>2. w.buffer \in Buffers /\ w.transaction \in 0..TxnLimit
  BY <1>0, <1>1, WorkItem
<1>3. PICK v \in States : v = "delivered"
  BY DEF States
<1>4. PICK b \in Buffers : b = w.buffer
  BY <1>2
<1>5. PICK r : r = SetArena(d, e, b, v)
  OBVIOUS
<1>6. /\ r \in Device /\ SameOwners(d, r) /\ r.threads = d.threads /\ SameObjects(d, r)
      /\ \A u \in Tokens \ {e} : r.endpoints[u] = d.endpoints[u]
      /\ \A c \in Buffers \ {b} : r.endpoints[e].arena[c] = d.endpoints[e].arena[c]
      /\ r.endpoints[e].arena[b] = v
      /\ r.next_transaction = d.next_transaction
      /\ r.transactions = d.transactions /\ r.work = d.work
      /\ Bounded(r) /\ Keeps(d, r)
  BY <1>0, <1>5, SetArenaFacts
<1>7. Sound(r, 0)
  BY <1>0, <1>6, KeepsSound
<1>8. InCall(r, e, t)
  BY <1>0, <1>6, <1>7 DEF InCall, SameOwners, endpoint_for
<1>9. r.threads[e][t] \in Thread
  BY <1>8, InCallFacts
<1>10. PICK id \in 0..TxnLimit : id = IF w.transaction # 0 THEN w.transaction
                                      ELSE r.threads[e][t].incoming
  <2>1. r.threads[e][t].incoming \in 0..TxnLimit
    BY <1>9 DEF Thread
  <2> QED BY <1>2, <2>1
<1>11. PICK th : th = SetIncoming(r.threads[e][t], id)
  OBVIOUS
<1>12. /\ th \in Thread /\ th.active = r.threads[e][t].active
       /\ th.incoming = id /\ th.outgoing = r.threads[e][t].outgoing
       /\ th.dead_reply = r.threads[e][t].dead_reply
  BY <1>9, <1>11, SetIncomingFacts DEF SameButCalls
<1>13. PICK a : a = PutThread(r, e, t, th)
  OBVIOUS
<1>14. InCall(a, e, t) /\ OneThread(r, a, e, t) /\ a.threads[e][t] = th
  BY <1>0, <1>6, <1>8, <1>12, <1>13, PutThreadInCall DEF MaySleep
<1>15. a \in Device /\ a.work = d.work /\ Bounded(a) /\ NodesKnown(a) /\ Sound(a, 0)
  BY <1>6, <1>14, InCallFacts DEF OneThread, InCall
<1>16. PICK X \in Transactions : X = Received(a.transactions, w.transaction, t)
  BY <1>0, <1>15, FieldTypes, ReceivedFacts
<1>17. a.work \in Seq(Work) /\ i \in DOMAIN a.work
  BY <1>15, FieldTypes DEF Works
<1>18. PICK W : W = Erase(a.work, i)
  OBVIOUS
<1>19. W \in Seq(Work) /\ Len(W) = Len(a.work) - 1
  BY <1>17, <1>18, EraseType
<1>20. W \in Works /\ Len(W) <= PacketLimit
  <2>1. Len(a.work) \in Nat /\ Len(a.work) <= PacketLimit /\ PacketLimit \in Nat
    BY <1>15, <1>17, BinderAssumption DEF Bounded
  <2> QED BY <1>19, <2>1 DEF Works
<1>21. g = PutQueue(a, a.next_transaction, X, W)
  <2>1. g = Taken(d, e, t, i)
    BY <1>0, TakenSteps
  <2>2. Incoming(r.threads[e][t], w.transaction) = th
    BY <1>10, <1>11 DEF Incoming, SetIncoming
  <2> QED BY <1>1, <1>3, <1>4, <1>5, <1>13, <1>16, <1>18, <2>1, <2>2 DEF Taken
<1>22. a.next_transaction \in Counters
  BY <1>15, FieldTypes
<1>23. /\ g \in Device /\ SameObjects(a, g) /\ SameOwners(a, g) /\ g.endpoints = a.endpoints /\ g.threads = a.threads
       /\ Bounded(g) /\ Keeps(a, g)
       /\ g.next_transaction = a.next_transaction /\ g.transactions = X /\ g.work = W
  BY <1>15, <1>16, <1>20, <1>21, <1>22, PutQueueFacts
<1>24. Sound(g, 0)
  BY <1>15, <1>23, KeepsSound
<1>25. /\ g.next_transaction = d.next_transaction
       /\ g.transactions = Received(d.transactions, w.transaction, t)
       /\ g.work = Erase(d.work, i)
  BY <1>6, <1>14, <1>16, <1>18, <1>23 DEF OneThread
<1>26. /\ \A u \in Tokens : g.endpoints[u].used = d.endpoints[u].used
       /\ \A u \in Tokens : DOMAIN g.threads[u] = DOMAIN d.threads[u]
  BY <1>6, <1>14, <1>23 DEF OneThread, SameOwners
<1>27. ASSUME NEW u \in Tokens, NEW y \in DOMAIN d.threads[u], ~(u = e /\ y = t)
       PROVE g.threads[u][y] = d.threads[u][y]
  BY <1>6, <1>14, <1>23, <1>27 DEF OneThread
<1>28. /\ g.threads[e][t].outgoing = d.threads[e][t].outgoing
       /\ g.threads[e][t].dead_reply = d.threads[e][t].dead_reply
       /\ g.threads[e][t].incoming = IF w.transaction # 0 THEN w.transaction
                                     ELSE d.threads[e][t].incoming
  BY <1>6, <1>10, <1>12, <1>14, <1>23
<1>29. SameTurns(d, g)
  <2>1. SameTurns(d, r) /\ SameTurns(r, a) /\ SameTurns(a, g)
    BY <1>6, <1>14, <1>23, ObjectsTurns DEF OneThread
  <2> QED BY <2>1, TurnsTrans
<1>30. g.endpoints = r.endpoints
  BY <1>14, <1>23 DEF OneThread
<1>31. BufferIs(d, g, e, w.buffer, "delivered")
  BY <1>0, <1>3, <1>4, <1>6, <1>26, <1>30 DEF BufferIs
<1>32. Took(d, g, e, t, i)
  BY <1>1, <1>25, <1>26, <1>27, <1>28, <1>29, <1>31 DEF Took
<1> QED BY <1>14, <1>23, <1>24, <1>32 DEF InCall, endpoint_for

LEMMA TakeDeathSound ==
  ASSUME NEW d, NEW e, NEW t, InCall(d, e, t), NEW i \in Slots, NEW g, g = TakeDeath(d, i)
  PROVE StillIn(d, g, e, t)
<1>0. d \in Device /\ Sound(d, 0)
  BY InCallFacts DEF InCall
<1>1. d.deaths[i] \in Death
  BY <1>0, FieldTypes DEF Deaths
<1>2. PICK state \in DeathStates : state = "delivered"
  BY DEF DeathStates
<1>3. PICK v \in Death : v = IF d.deaths[i].state = "clear_queued" THEN NoDeath
                             ELSE [d.deaths[i] EXCEPT !.state = state]
  BY <1>1, DeathUpdates
<1>4. g = PutDeath(d, i, v)
  BY <1>2, <1>3 DEF TakeDeath, PutDeath
<1>5. Sound(g, 0) /\ SameCalls(d, g) /\ SameTurns(d, g)
  BY <1>0, <1>4, PutDeathSound
<1> QED BY <1>5, SameCallsInCall

ReadEffect(d, e, t, g) ==
  \/ g = d
  \/ g = Failed(d, e, t, None)
  \/ \E n \in node_event_for(d, e, t, FALSE) : g = TakeNodeEvent(d, n)
  \/ d.threads[e][t].completions > 0
     /\ g = [d EXCEPT !.threads[e][t].completions = @ - 1]
  \/ \E i \in work_for(d, e, t, FALSE) :
       i = Min(work_for(d, e, t, FALSE)) /\ g = TakeWork(d, e, t, i)
  \/ \E i \in death_for(d, e, t, FALSE) : g = TakeDeath(d, i)

LEMMA ReadCases ==
  ASSUME NEW d \in Device, NEW e, NEW t, NEW g \in read_work(d, e, t)
  PROVE ReadEffect(d, e, t, g)
<1> DEFINE th == d.threads[e][t]
           N == node_event_for(d, e, t, FALSE)
           W == work_for(d, e, t, FALSE)
           D == death_for(d, e, t, FALSE)
<1>1. W \in SUBSET Nat /\ D \in SUBSET Nat
  <2>1. d.work \in Seq(Work)
    BY FieldTypes DEF Works
  <2>2. W \subseteq DOMAIN d.work /\ D \subseteq Slots
    BY DEF work_for, death_for
  <2>3. DOMAIN d.work \subseteq Nat
    BY <2>1
  <2>4. Slots \subseteq Nat
    BY BinderAssumption DEF Slots
  <2> HIDE DEF W, D
  <2> QED BY <2>2, <2>3, <2>4
<1>2. W # {} => Min(W) \in W
  BY <1>1, MinIn
<1>3. D # {} => Min(D) \in D
  BY <1>1, MinIn
<1>4. g \in IF th.error # None THEN {[d EXCEPT !.threads[e][t].error = None]}
            ELSE IF N # {} THEN {TakeNodeEvent(d, n) : n \in N}
            ELSE IF th.completions > 0 THEN {[d EXCEPT !.threads[e][t].completions = @ - 1]}
            ELSE IF W # {} THEN {TakeWork(d, e, t, Min(W))}
            ELSE IF D # {} THEN {TakeDeath(d, Min(D))} ELSE {d}
  BY Zenon DEF read_work
<1>5. PICK A : A = {[d EXCEPT !.threads[e][t].error = None]}
  OBVIOUS
<1>6. PICK B : B = {TakeNodeEvent(d, n) : n \in N}
  OBVIOUS
<1>7. PICK C : C = {[d EXCEPT !.threads[e][t].completions = @ - 1]}
  OBVIOUS
<1>8. \/ g \in A \/ g \in B
      \/ th.completions > 0 /\ g \in C
      \/ W # {} /\ g = TakeWork(d, e, t, Min(W))
      \/ D # {} /\ g = TakeDeath(d, Min(D))
      \/ g = d
  <2> HIDE DEF th, N, W, D
  <2> QED BY Zenon, <1>4, <1>5, <1>6, <1>7
<1>9. g \in A => g = Failed(d, e, t, None)
  BY <1>5 DEF Failed
<1>10. g \in B => \E n \in N : g = TakeNodeEvent(d, n)
  BY Zenon, <1>6
<1>11. g \in C => g = [d EXCEPT !.threads[e][t].completions = @ - 1]
  BY <1>7
<1>12. W # {} /\ g = TakeWork(d, e, t, Min(W)) => \E i \in W : i = Min(W) /\ g = TakeWork(d, e, t, i)
  <2> HIDE DEF W
  <2> QED BY Zenon, <1>2
<1>13. D # {} /\ g = TakeDeath(d, Min(D)) => \E i \in D : g = TakeDeath(d, i)
  <2> HIDE DEF D
  <2> QED BY Zenon, <1>3
<1> HIDE DEF th, N, W, D
<1> QED BY <1>8, <1>9, <1>10, <1>11, <1>12, <1>13 DEF ReadEffect, th, N, W, D

\* Some work that the thread may read was taken.
TakesWork(d, e, t, g) == \E i \in work_for(d, e, t, FALSE) : g = TakeWork(d, e, t, i)

LEMMA ReadSound ==
  ASSUME NEW d, NEW e, NEW t, InCall(d, e, t), NEW g \in read_work(d, e, t)
  PROVE InCall(g, e, t) /\ (SameFlow(d, g) \/ TakesWork(d, e, t, g))
<1>0. d \in Device /\ e \in Tokens /\ t \in DOMAIN d.threads[e] /\ d.threads[e][t] \in Thread
  BY InCallFacts DEF InCall
<1>1. ReadEffect(d, e, t, g)
  BY <1>0, ReadCases
<1>2. CASE g = Failed(d, e, t, None)
  BY <1>2, FailsInCall DEF StillIn
<1>3. ASSUME NEW n \in node_event_for(d, e, t, FALSE), g = TakeNodeEvent(d, n)
      PROVE StillIn(d, g, e, t)
  <2>1. n \in DOMAIN d.nodes /\ node_command(d, n) # None
    BY DEF node_event_for
  <2> QED BY <1>3, <2>1, NodeEventSound
<1>4. CASE d.threads[e][t].completions > 0
           /\ g = [d EXCEPT !.threads[e][t].completions = @ - 1]
  <2>1. PICK c \in 0..PacketLimit : c = d.threads[e][t].completions - 1
    <3>1. d.threads[e][t].completions \in 0..PacketLimit
      BY <1>0 DEF Thread
    <3>2. PICK a : a = d.threads[e][t].completions
      OBVIOUS
    <3>3. a \in 0..PacketLimit /\ a > 0
      BY <1>4, <3>1, <3>2
    <3>4. a - 1 \in 0..PacketLimit
      BY <3>3, BinderAssumption
    <3> QED BY <3>2, <3>4
  <2>2. PICK th : th = [d.threads[e][t] EXCEPT !.completions = c]
    OBVIOUS
  <2>3. g = PutThread(d, e, t, th)
    BY <1>4, <2>1, <2>2 DEF PutThread
  <2>4. th \in Thread /\ th.active = d.threads[e][t].active /\ SameCallState(d.threads[e][t], th)
    BY <1>0, <2>2 DEF Thread, SameCallState
  <2>5. InCall(g, e, t) /\ OneThread(d, g, e, t) /\ g.threads[e][t] = th
    BY <1>0, <2>3, <2>4, PutThreadInCall DEF MaySleep
  <2> QED BY <1>0, <2>4, <2>5, FlowThread
<1>5. ASSUME NEW i \in work_for(d, e, t, FALSE), g = TakeWork(d, e, t, i)
      PROVE InCall(g, e, t) /\ TakesWork(d, e, t, g)
  <2>1. i \in DOMAIN d.work
    BY DEF work_for
  <2> QED BY <1>5, <2>1, TakeWorkSound DEF TakesWork
<1>6. ASSUME NEW i \in death_for(d, e, t, FALSE), g = TakeDeath(d, i)
      PROVE StillIn(d, g, e, t)
  <2>1. i \in Slots
    BY DEF death_for
  <2> QED BY <1>6, <2>1, TakeDeathSound
<1>7. CASE g = d
  BY <1>7, FlowRefl
<1> QED BY <1>1, <1>2, <1>3, <1>4, <1>5, <1>6, <1>7 DEF ReadEffect, StillIn

----------------------------------------------------------------------------
(* Entering and leaving the device.                                          *)

\* Thread t may be inside endpoint e of d.
Admissible(d, e, t) ==
  /\ endpoint_for(d, e) /\ t \in Threads[d.endpoints[e].pid]
  /\ t \in DOMAIN d.threads[e] \/ Cardinality(DOMAIN d.threads[e]) < ThreadLimit

LEMMA NewThreadFacts ==
  NewThread \in Thread /\ NewThread.incoming = 0 /\ NewThread.outgoing = 0
<1>1. 0 \in 0..TxnLimit /\ 0 \in 0..PacketLimit
  BY BinderAssumption
<1>2. {} \in SUBSET Looper
  OBVIOUS
<1> QED BY <1>1, <1>2 DEF NewThread, Thread

LEMMA AdmitSound ==
  ASSUME NEW d, Sound(d, 0), NEW e, NEW t, Admissible(d, e, t),
         NEW f, f = admit_thread(d, e, t)
  PROVE InCall(f, e, t) /\ SameFlow(d, f)
<1>0. d \in Device /\ Bounded(d) /\ NodesKnown(d) /\ e \in Tokens /\ endpoint_for(d, e)
  BY SoundFacts DEF Admissible, endpoint_for
<1>1. t \in Tids
  <2>1. d.endpoints[e].pid \in Procs
    BY <1>0 DEF Sound, Known, TokensGiven, endpoint_for
  <2> QED BY <2>1 DEF Admissible, Tids
<1>2. CASE t \in DOMAIN d.threads[e]
  BY <1>0, <1>2, FlowRefl DEF InCall, admit_thread
<1>3. CASE t \notin DOMAIN d.threads[e]
  <2>1. d.threads[e] \in Tables(Tids, Thread) /\ DOMAIN d.threads[e] \subseteq Tids
    BY <1>0, ThreadTable
  <2>2. PICK P : P = With(d.threads[e], t, NewThread)
    OBVIOUS
  <2>3. /\ P \in Tables(Tids, Thread)
        /\ \A y : y \in DOMAIN P <=> y \in DOMAIN d.threads[e] \/ y = t
    BY <1>1, <2>1, <2>2, NewThreadFacts, TableWith
  <2>4. Cardinality(DOMAIN P) <= ThreadLimit
    <3>1. IsFiniteSet(DOMAIN d.threads[e])
      BY <2>1, BinderAssumption, FS_Subset
    <3>2. DOMAIN P = DOMAIN d.threads[e] \cup {t}
      BY <2>3
    <3>3. Cardinality(DOMAIN P) = Cardinality(DOMAIN d.threads[e]) + 1
      BY <3>1, <3>2, <1>3, FS_AddElement
    <3>4. Cardinality(DOMAIN d.threads[e]) < ThreadLimit
      BY <1>3 DEF Admissible
    <3>5. Cardinality(DOMAIN d.threads[e]) \in Nat /\ ThreadLimit \in Nat
      BY <3>1, BinderAssumption, FS_CardinalityType
    <3> QED BY <3>3, <3>4, <3>5
  <2>5. f = PutThreads(d, e, P)
    BY <1>3, <2>2 DEF admit_thread, SetThread, PutThreads
  <2>6. /\ SameOwners(d, f) /\ SameObjects(d, f) /\ f.threads[e] = P /\ Keeps(d, f) /\ Bounded(f)
        /\ f.endpoints = d.endpoints /\ f.next_transaction = d.next_transaction
        /\ f.transactions = d.transactions /\ f.work = d.work
        /\ \A u \in Tokens \ {e} : f.threads[u] = d.threads[u]
    <3>1. \A y \in DOMAIN d.threads[e] : y # t => P[y] = d.threads[e][y]
      BY <1>1, <2>1, <2>2, NewThreadFacts, TableWith
    <3>2. P[t] = NewThread
      BY <1>1, <2>1, <2>2, NewThreadFacts, TableWith
    <3>3. ~NewThread.active
      BY DEF NewThread
    <3>4. \A s \in DOMAIN P : P[s].active => s \in DOMAIN d.threads[e] /\ d.threads[e][s].active
      BY <2>3, <3>1, <3>2, <3>3
    <3> QED BY <1>0, <2>3, <2>4, <2>5, <3>4, PutThreadsFacts
  <2>7. Sound(f, 0)
    BY <2>6, KeepsSound
  <2>8. \A s \in DOMAIN d.threads[e] : s \in DOMAIN P /\ P[s] = d.threads[e][s]
    BY <1>1, <1>3, <2>1, <2>2, NewThreadFacts, TableWith
  <2>9. \A s \in DOMAIN P : \/ s \in DOMAIN d.threads[e]
                            \/ P[s].incoming = 0 /\ P[s].outgoing = 0
    BY <1>1, <2>1, <2>2, <2>3, NewThreadFacts, TableWith
  <2>10. SameFlow(d, f)
    <3>1. ASSUME NEW u \in Tokens
          PROVE /\ \A s \in DOMAIN d.threads[u] :
                     s \in DOMAIN f.threads[u] /\ f.threads[u][s] = d.threads[u][s]
                /\ \A s \in DOMAIN f.threads[u] :
                     \/ s \in DOMAIN d.threads[u]
                     \/ f.threads[u][s].incoming = 0 /\ f.threads[u][s].outgoing = 0
      <4>1. CASE u = e
        BY <4>1, <2>6, <2>8, <2>9
      <4>2. CASE u # e
        <5>1. f.threads[u] = d.threads[u]
          BY <4>2, <2>6
        <5> QED BY <5>1
      <4> QED BY <4>1, <4>2
    <3>2. SameTalk(d, f)
      BY <2>6, <3>1 DEF SameTalk, SameCallState
    <3>3. SameBuffers(d, f) /\ SameTurns(d, f)
      BY <2>6, ObjectsTurns DEF SameBuffers
    <3> QED BY <3>2, <3>3 DEF SameFlow
  <2> QED BY <1>0, <2>3, <2>6, <2>7, <2>10 DEF InCall, endpoint_for
<1> QED BY <1>2, <1>3

\* An ioctl starts by reaping; who then enters is inside a sound device.
LEMMA EnterSound ==
  ASSUME Sound(dev, 0), NEW e, e \in Tokens, NEW t, NEW d, d = reap_closed(dev), CanEnter(d, e, t)
  PROVE /\ Sound(d, 0) /\ endpoint_for(d, e)
        /\ \A f : f = admit_thread(d, e, t) => InCall(f, e, t) /\ SameFlow(d, f)
<1>1. Sound(d, 0)
  BY ReapSound
<1>2. endpoint_for(d, e)
  BY <1>1 DEF CanEnter, endpoint_for, Sound, Known, TokensGiven
<1>3. Admissible(d, e, t)
  BY <1>2 DEF Admissible, CanEnter
<1> QED BY <1>1, <1>2, <1>3, AdmitSound

\* Leave, one flag at a time.
Returned(d, e, t) == [d EXCEPT !.threads[e][t].initial_return = FALSE]
Awake(d, e, t) == [d EXCEPT !.threads[e][t].active = FALSE]
Asleep(d, e, t) == [d EXCEPT !.threads[e][t].active = TRUE]

LEMMA FlagSound ==
  ASSUME NEW d, NEW e, NEW t, InCall(d, e, t), NEW f,
         \/ f = Returned(d, e, t) \/ f = Awake(d, e, t)
         \/ f = Asleep(d, e, t) /\ d.endpoints[e].opened
  PROVE StillIn(d, f, e, t)
<1>1. e \in Tokens /\ t \in DOMAIN d.threads[e] /\ d.threads[e][t] \in Thread
  BY InCallFacts DEF InCall
<1>2. PICK th \in Thread : /\ f = PutThread(d, e, t, th) /\ MaySleep(d, e, t, th)
                          /\ SameCallState(d.threads[e][t], th)
  <2>1. CASE f = Returned(d, e, t)
    <3>1. PICK th : th = [d.threads[e][t] EXCEPT !.initial_return = FALSE]
      OBVIOUS
    <3>2. th \in Thread /\ th.active = d.threads[e][t].active /\ SameCallState(d.threads[e][t], th)
      BY <1>1, <3>1 DEF Thread, SameCallState
    <3>3. f = PutThread(d, e, t, th)
      BY <2>1, <3>1 DEF Returned, PutThread
    <3> QED BY <3>2, <3>3 DEF MaySleep
  <2>2. CASE f = Awake(d, e, t)
    <3>1. PICK th : th = [d.threads[e][t] EXCEPT !.active = FALSE]
      OBVIOUS
    <3>2. th \in Thread /\ ~th.active /\ SameCallState(d.threads[e][t], th)
      BY <1>1, <3>1 DEF Thread, SameCallState
    <3>3. f = PutThread(d, e, t, th)
      BY <2>2, <3>1 DEF Awake, PutThread
    <3> QED BY <3>2, <3>3 DEF MaySleep
  <2>3. CASE f = Asleep(d, e, t) /\ d.endpoints[e].opened
    <3>1. PICK th : th = [d.threads[e][t] EXCEPT !.active = TRUE]
      OBVIOUS
    <3>2. th \in Thread /\ SameCallState(d.threads[e][t], th)
      BY <1>1, <3>1 DEF Thread, SameCallState
    <3>3. f = PutThread(d, e, t, th)
      BY <2>3, <3>1 DEF Asleep, PutThread
    <3> QED BY <2>3, <3>2, <3>3 DEF MaySleep
  <2> QED BY <2>1, <2>2, <2>3
<1>3. InCall(f, e, t) /\ OneThread(d, f, e, t) /\ f.threads[e][t] = th
  BY <1>1, <1>2, PutThreadInCall
<1> QED BY <1>1, <1>2, <1>3, FlowThread DEF StillIn

LEMMA LeaveSound ==
  ASSUME NEW d, NEW e, NEW t, InCall(d, e, t), NEW f, f = Leave(d, e, t)
  PROVE Sound(f, 0) /\ SameFlow(d, f)
<1>1. PICK g : g = Returned(d, e, t)
  OBVIOUS
<1>2. f = Awake(g, e, t)
  BY <1>1 DEF Leave, Returned, Awake
<1>3. StillIn(d, g, e, t)
  BY <1>1, FlagSound
<1>4. StillIn(g, f, e, t)
  BY <1>2, <1>3, FlagSound DEF StillIn
<1>5. StillIn(d, f, e, t)
  BY <1>3, <1>4, StillInTrans
<1> QED BY <1>5 DEF InCall, StillIn

----------------------------------------------------------------------------
(* Opening, closing and mapping endpoints.                                   *)

LEMMA EndpointTable ==
  ASSUME NEW d \in Device, NEW e \in Tokens
  PROVE d.endpoints[e] \in Endpoint
  BY FieldTypes DEF Endpoints

\* A change of an endpoint that leaves its process and its being open alone.
LEMMA PutEndpointSound ==
  ASSUME NEW d, Sound(d, 0), NEW e \in Tokens, NEW ep \in Endpoint,
         ep.used = d.endpoints[e].used, ep.pid = d.endpoints[e].pid,
         ep.arena = d.endpoints[e].arena,
         ep.opened => d.endpoints[e].opened,
         ~ep.opened => \A t \in DOMAIN d.threads[e] : ~d.threads[e][t].active,
         NEW f, f = PutEndpoint(d, e, ep)
  PROVE Sound(f, 0) /\ SameFlow(d, f)
<1>0. d \in Device /\ Bounded(d) /\ NodesKnown(d)
  BY SoundFacts
<1>1. /\ f \in Device /\ SameObjects(d, f) /\ Bounded(f)
      /\ \A u \in Tokens \ {e} : f.endpoints[u] = d.endpoints[u]
      /\ f.endpoints[e] = ep /\ f.threads = d.threads
      /\ f.next_transaction = d.next_transaction
      /\ f.transactions = d.transactions /\ f.work = d.work
  BY <1>0, PutEndpointFacts
<1>2. \A u \in Tokens : /\ f.endpoints[u].used = d.endpoints[u].used
                        /\ f.endpoints[u].pid = d.endpoints[u].pid
                        /\ f.endpoints[u].opened => d.endpoints[u].opened
  BY <1>1
<1>3. \A y : endpoint_for(f, y) <=> endpoint_for(d, y)
  BY <1>2 DEF endpoint_for
<1>4. NodesKnown(f) /\ NodesOwned(f, 0)
  BY <1>0, <1>1, <1>3 DEF Sound, Known, NodesKnown, NodesOwned, SameObjects
<1>5. ManagerKnown(f, 0)
  <2>1. d.manager # 0 => d.manager \in Tokens
    BY <1>0, FieldTypes
  <2>2. d.manager # 0 => f.endpoints[d.manager].pid = d.endpoints[d.manager].pid
    BY <2>1, <1>2
  <2> QED BY <1>1, <1>3, <2>2 DEF Sound, Known, ManagerKnown, SameObjects
<1>6. TokensGiven(f)
  <2>1. \A n \in DOMAIN f.nodes : f.nodes[n].owner < f.next_token
    BY <1>1 DEF Sound, Known, TokensGiven, SameObjects
  <2>2. \A u \in Tokens :
          /\ f.endpoints[u].opened => f.endpoints[u].used
          /\ f.endpoints[u].used => u < f.next_token /\ f.endpoints[u].pid \in Procs
    BY <1>1, <1>2 DEF Sound, Known, TokensGiven, SameObjects
  <2> QED BY <2>1, <2>2 DEF TokensGiven
<1>7. SleepersOpen(f)
  <2>1. SleepersOpen(d)
    BY DEF Sound, Known
  <2> QED BY <1>1, <2>1 DEF SleepersOpen
<1>8. SameFlow(d, f)
  <2>1. SameTalk(d, f)
    BY <1>1, <1>2 DEF SameTalk, SameCallState
  <2>2. SameBuffers(d, f) /\ SameTurns(d, f)
    BY <1>1, <1>2, ObjectsTurns DEF SameBuffers
  <2> QED BY <2>1, <2>2 DEF SameFlow
<1> QED BY <1>1, <1>4, <1>5, <1>6, <1>7, <1>8 DEF Sound, Known

LEMMA EndpointUpdates ==
  ASSUME NEW ep \in Endpoint
  PROVE /\ LET v == [ep EXCEPT !.opened = FALSE] IN
           v \in Endpoint /\ v.used = ep.used /\ v.pid = ep.pid /\ v.arena = ep.arena /\ ~v.opened
        /\ \A enabled \in BOOLEAN : LET v == [ep EXCEPT !.nonblocking = enabled] IN
           v \in Endpoint /\ v.used = ep.used /\ v.pid = ep.pid /\ v.arena = ep.arena /\ v.opened = ep.opened
        /\ \A m \in {None, "intact", "torn", "gone"} : LET v == [ep EXCEPT !.mapping = m] IN
           v \in Endpoint /\ v.used = ep.used /\ v.pid = ep.pid /\ v.arena = ep.arena /\ v.opened = ep.opened
<1>1. LET v == [ep EXCEPT !.opened = FALSE] IN
      v \in Endpoint /\ v.used = ep.used /\ v.pid = ep.pid /\ v.arena = ep.arena /\ ~v.opened
  BY DEF Endpoint
<1>2. \A enabled \in BOOLEAN : LET v == [ep EXCEPT !.nonblocking = enabled] IN
      v \in Endpoint /\ v.used = ep.used /\ v.pid = ep.pid /\ v.arena = ep.arena /\ v.opened = ep.opened
  BY DEF Endpoint
<1>3. \A m \in {None, "intact", "torn", "gone"} : LET v == [ep EXCEPT !.mapping = m] IN
      v \in Endpoint /\ v.used = ep.used /\ v.pid = ep.pid /\ v.arena = ep.arena /\ v.opened = ep.opened
  BY DEF Endpoint
<1> QED BY <1>1, <1>2, <1>3

\* Open.
Opened(p) == [NoEndpoint EXCEPT !.used = TRUE, !.opened = TRUE, !.pid = p]
PutOpened(d, nt, E) == [d EXCEPT !.next_token = nt, !.endpoints = E]

LEMMA OpenedFacts ==
  ASSUME NEW p \in Procs, NEW ep, ep = Opened(p)
  PROVE ep \in Endpoint /\ ep.used /\ ep.opened /\ ep.pid = p
  BY DEF Opened, NoEndpoint, Endpoint

LEMMA PutOpenedFacts ==
  ASSUME NEW d \in Device, NEW nt \in Counters, NEW E \in Endpoints,
         NEW f, f = PutOpened(d, nt, E)
  PROVE /\ f \in Device /\ f.next_token = nt /\ f.endpoints = E
        /\ f.next_node = d.next_node /\ f.next_transaction = d.next_transaction
        /\ f.threads = d.threads /\ f.manager = d.manager
        /\ f.manager_node = d.manager_node /\ f.manager_uid = d.manager_uid
        /\ f.transactions = d.transactions /\ f.work = d.work
        /\ f.references = d.references /\ f.nodes = d.nodes
        /\ f.claims = d.claims /\ f.deaths = d.deaths
  BY FieldTypes DEF Device, PutOpened

\* f is d where endpoint e, which had no node, is new.
Fresh(d, f, e) ==
  /\ ~d.endpoints[e].used /\ d.next_token <= e
  /\ \A n \in DOMAIN d.nodes : d.nodes[n].owner # e
  /\ \A b \in Buffers : f.endpoints[e].arena[b] = "free"
  /\ \A u \in Tokens \ {e} : f.endpoints[u] = d.endpoints[u]

LEMMA OpenSound ==
  ASSUME NEW d, Sound(d, 0), NEW p \in Procs, d.next_token <= TokenLimit,
         NEW f, f = open(d, p)
  PROVE /\ Sound(f, 0) /\ SameTalk(d, f) /\ SameTurns(d, f)
        /\ \E e \in Tokens : Fresh(d, f, e)
<1>0. d \in Device /\ Bounded(d) /\ NodesKnown(d)
  BY SoundFacts
<1>1. PICK e \in Tokens : e = d.next_token
  BY <1>0, FieldTypes, BinderAssumption DEF Tokens, Counters
<1>2. PICK nt \in Counters : nt = e + 1
  BY <1>0, <1>1, FieldTypes DEF Counters
<1>3. PICK ep : ep = Opened(p)
  OBVIOUS
<1>4. ep \in Endpoint /\ ep.used /\ ep.opened /\ ep.pid = p
  BY <1>3, OpenedFacts
<1>5. PICK E : E = [d.endpoints EXCEPT ![e] = ep]
  OBVIOUS
<1>6. E \in Endpoints /\ E[e] = ep /\ \A u \in Tokens \ {e} : E[u] = d.endpoints[u]
  BY <1>0, <1>4, <1>5, FieldTypes DEF Endpoints
<1>7. f = PutOpened(d, nt, E)
  BY <1>1, <1>2, <1>3, <1>5 DEF open, PutOpened, Opened
<1>8. /\ f \in Device /\ f.next_token = nt /\ f.endpoints = E
      /\ f.next_node = d.next_node /\ f.threads = d.threads /\ f.manager = d.manager
      /\ f.manager_node = d.manager_node /\ f.manager_uid = d.manager_uid
      /\ f.work = d.work /\ f.references = d.references /\ f.nodes = d.nodes
      /\ f.claims = d.claims
      /\ f.next_transaction = d.next_transaction /\ f.transactions = d.transactions
  BY <1>0, <1>6, <1>7, PutOpenedFacts
<1>9. ~d.endpoints[e].used
  BY <1>1 DEF Sound, Known, TokensGiven, Tokens
<1>10. \A y : endpoint_for(f, y) <=> y = e \/ endpoint_for(d, y)
  BY <1>4, <1>6, <1>8, <1>9 DEF endpoint_for
<1>11. \A n \in DOMAIN d.nodes : d.nodes[n].owner \in Tokens /\ d.nodes[n].owner # e
  <2>1. \A n \in DOMAIN d.nodes : d.nodes[n].owner \in Tokens
    BY <1>0, NodeTable
  <2>2. \A n \in DOMAIN d.nodes : d.nodes[n].owner < e
    BY <1>1 DEF Sound, Known, TokensGiven
  <2> QED BY <2>1, <2>2, <1>1 DEF Tokens
<1>12. NodesKnown(f) /\ NodesOwned(f, 0)
  BY <1>0, <1>8, <1>10, <1>11 DEF Sound, Known, NodesKnown, NodesOwned
<1>13. ManagerKnown(f, 0)
  <2>1. d.manager # 0 => d.manager \in Tokens /\ d.manager # e
    BY <1>0, <1>9, FieldTypes DEF Sound, Known, ManagerKnown, endpoint_for
  <2>2. d.manager # 0 => f.endpoints[d.manager] = d.endpoints[d.manager]
    BY <2>1, <1>6, <1>8
  <2> QED BY <1>8, <1>10, <2>2 DEF Sound, Known, ManagerKnown
<1>14. TokensGiven(f)
  <2>1. \A n \in DOMAIN d.nodes : d.nodes[n].owner < e
    BY <1>1 DEF Sound, Known, TokensGiven
  <2>2. \A n \in DOMAIN f.nodes : f.nodes[n].owner < f.next_token
    BY <1>1, <1>2, <1>8, <1>11, <2>1 DEF Tokens
  <2>3. ASSUME NEW u \in Tokens
        PROVE /\ f.endpoints[u].opened => f.endpoints[u].used
              /\ f.endpoints[u].used => u < f.next_token /\ f.endpoints[u].pid \in Procs
    <3>1. CASE u = e
      BY <3>1, <1>2, <1>4, <1>6, <1>8 DEF Tokens
    <3>2. CASE u # e
      <4>1. f.endpoints[u] = d.endpoints[u]
        BY <3>2, <1>6, <1>8
      <4>2. /\ d.endpoints[u].opened => d.endpoints[u].used
            /\ d.endpoints[u].used => u < e /\ d.endpoints[u].pid \in Procs
        BY <1>1 DEF Sound, Known, TokensGiven
      <4>3. u < e => u < f.next_token
        BY <1>2, <1>8 DEF Tokens
      <4> QED BY <4>1, <4>2, <4>3
    <3> QED BY <3>1, <3>2
  <2> QED BY <2>2, <2>3 DEF TokensGiven
<1>15. Bounded(f)
  BY <1>0, <1>8 DEF Bounded
<1>16. SleepersOpen(f)
  <2>1. SleepersOpen(d)
    BY DEF Sound, Known
  <2> QED BY <1>4, <1>6, <1>8, <2>1 DEF SleepersOpen
<1>17. SameTalk(d, f) /\ SameTurns(d, f)
  BY <1>4, <1>6, <1>8, KeptTurns DEF SameTalk, SameCallState
<1>18. Fresh(d, f, e)
  <2>1. \A b \in Buffers : ep.arena[b] = "free"
    BY <1>3 DEF Opened, NoEndpoint
  <2>2. d.next_token <= e
    BY <1>1 DEF Tokens
  <2> QED BY <1>6, <1>8, <1>9, <1>11, <2>1, <2>2 DEF Fresh
<1> QED BY <1>8, <1>12, <1>13, <1>14, <1>15, <1>16, <1>17, <1>18 DEF Sound, Known

----------------------------------------------------------------------------
(* BINDER_SET_CONTEXT_MGR_EXT.                                               *)

PutManager(d, m, mn, uid) ==
  [d EXCEPT !.manager = m, !.manager_node = mn, !.manager_uid = uid]

LEMMA PutManagerFacts ==
  ASSUME NEW d \in Device, NEW m \in Tokens \cup {0}, NEW mn \in 0..NodeLimit,
         NEW uid \in Nat, NEW f, f = PutManager(d, m, mn, uid)
  PROVE /\ f \in Device /\ f.manager = m /\ f.manager_node = mn /\ f.manager_uid = uid
        /\ f.next_token = d.next_token /\ f.next_node = d.next_node
        /\ f.endpoints = d.endpoints /\ f.threads = d.threads /\ f.work = d.work
        /\ f.references = d.references /\ f.nodes = d.nodes /\ f.claims = d.claims
        /\ f.next_transaction = d.next_transaction /\ f.transactions = d.transactions
        /\ f.deaths = d.deaths
  BY FieldTypes DEF Device, PutManager

ManagerRefused(d, e, pointer) ==
  \/ d.manager # 0
  \/ d.manager_uid \notin {0, Uid[d.endpoints[e].pid]}
  \/ owned_node(d, e, pointer) # {} \/ ~NodeAvailable(d)

LEMMA ManagerSteps ==
  ASSUME NEW d, NEW e, NEW pointer, NEW cookie, ~ManagerRefused(d, e, pointer)
  PROVE set_context_manager(d, e, pointer, cookie) =
          PutManager(create_node(d, e, pointer, cookie, 0, TRUE), e, d.next_node,
                     Uid[d.endpoints[e].pid])
  BY DEF set_context_manager, PutManager, ManagerRefused

LEMMA ManagerSound ==
  ASSUME NEW d, NEW e, NEW t, InCall(d, e, t), NEW pointer \in Nat, NEW cookie \in Nat,
         NEW g, g = set_context_manager(d, e, pointer, cookie)
  PROVE StillIn(d, g, e, t)
<1>0. d \in Device /\ Bounded(d) /\ NodesKnown(d) /\ e \in Tokens /\ endpoint_for(d, e)
  BY InCallFacts DEF InCall
<1>1. CASE ManagerRefused(d, e, pointer)
  <2>1. g = d
    BY <1>1 DEF set_context_manager, ManagerRefused
  <2> QED BY <2>1, FlowRefl DEF StillIn
<1>2. CASE ~ManagerRefused(d, e, pointer)
  <2>0. /\ d.manager = 0 /\ owned_node(d, e, pointer) = {} /\ d.next_node <= NodeLimit
    BY <1>2 DEF ManagerRefused, NodeAvailable
  <2>1. PICK true \in BOOLEAN : true = TRUE
    OBVIOUS
  <2>2. PICK zero \in Tids \cup {0} : zero = 0
    OBVIOUS
  <2>3. PICK f : f = create_node(d, e, pointer, cookie, zero, true)
    OBVIOUS
  <2>4. PICK node : node = FreshNode(e, pointer, cookie, zero, true)
    OBVIOUS
  <2>5. node.owner = e /\ node.pointer = pointer /\ node.manager = true /\ ~node.dead
    BY <1>0, <2>4, FreshNodeFacts
  <2> DEFINE m == d.next_node
  <2>6. /\ f \in Device /\ SameCalls(d, f) /\ f.next_node = m + 1
        /\ f.references = d.references /\ f.claims = d.claims
        /\ \A n : n \in DOMAIN f.nodes <=> n \in DOMAIN d.nodes \/ n = m
        /\ \A n \in DOMAIN d.nodes : n # m => f.nodes[n] = d.nodes[n]
        /\ f.nodes[m] = node
    <3>1. Creates(d, f, node)
      BY <1>0, <2>0, <2>3, <2>4, CreateFacts
    <3> QED BY <3>1 DEF Creates
  <2>7. PICK mn \in 1..NodeLimit : mn = m
    BY <1>0, <2>0, FieldTypes, BinderAssumption DEF Counters
  <2>8. PICK uid \in Nat : uid = Uid[d.endpoints[e].pid]
    <3>1. d.endpoints[e].pid \in Procs
      BY <1>0 DEF InCall, Sound, Known, TokensGiven, endpoint_for
    <3> QED BY <3>1, BinderAssumption
  <2>9. g = PutManager(f, e, mn, uid)
    BY <1>2, <2>1, <2>2, <2>3, <2>7, <2>8, ManagerSteps
  <2>10. /\ g \in Device /\ g.manager = e /\ g.manager_node = m /\ g.manager_uid = uid
         /\ g.next_token = d.next_token /\ g.next_node = m + 1
         /\ g.endpoints = d.endpoints /\ g.threads = d.threads /\ g.work = d.work
         /\ g.references = d.references /\ g.nodes = f.nodes /\ g.claims = d.claims
         /\ g.next_transaction = d.next_transaction /\ g.transactions = d.transactions
    <3>1. mn \in 0..NodeLimit /\ e \in Tokens \cup {0}
      BY <1>0, <2>7
    <3>2. f \in Device
      BY <2>6
    <3>3. /\ g \in Device /\ g.manager = e /\ g.manager_node = mn /\ g.manager_uid = uid
          /\ g.next_token = f.next_token /\ g.next_node = f.next_node
          /\ g.endpoints = f.endpoints /\ g.threads = f.threads /\ g.work = f.work
          /\ g.references = f.references /\ g.nodes = f.nodes /\ g.claims = f.claims
          /\ g.next_transaction = f.next_transaction /\ g.transactions = f.transactions
      BY <3>1, <3>2, <2>9, PutManagerFacts
    <3> QED BY <3>3, <2>6, <2>7 DEF SameCalls
  <2>11. \A y : endpoint_for(g, y) <=> endpoint_for(d, y)
    BY <2>10 DEF endpoint_for
  <2>12. e # 0 /\ m # 0
    BY <1>0, <2>7 DEF Tokens
  <2>13. m \notin DOMAIN d.nodes
    BY <1>0, FieldTypes DEF NodesKnown, Counters
  <2>14. NodesKnown(g)
    <3>1. \A n \in DOMAIN d.nodes : n \in Nat /\ n < m
      BY <1>0, NodeTable DEF NodesKnown
    <3>2. m \in Nat
      BY <1>0, FieldTypes DEF Counters
    <3>3. \A n \in DOMAIN g.nodes : n < g.next_node
      BY <3>1, <3>2, <2>6, <2>10
    <3> QED BY <1>0, <3>3, <2>6, <2>10 DEF NodesKnown
  <2>15. NodesOwned(g, 0)
    <3>1. \A n \in DOMAIN g.nodes : n # m => n \in DOMAIN d.nodes /\ g.nodes[n] = d.nodes[n]
      BY <2>6, <2>10
    <3>2. g.nodes[m] = node
      BY <2>6, <2>10
    <3>3. \A n \in DOMAIN g.nodes :
            g.nodes[n].dead <=> (g.nodes[n].owner = 0 \/ ~endpoint_for(g, g.nodes[n].owner))
      <4> SUFFICES ASSUME NEW n \in DOMAIN g.nodes
                   PROVE g.nodes[n].dead <=> (g.nodes[n].owner = 0 \/ ~endpoint_for(g, g.nodes[n].owner))
        OBVIOUS
      <4>1. CASE n = m
        BY <4>1, <3>2, <2>5, <2>11, <2>12, <1>0
      <4>2. CASE n # m
        BY <4>2, <3>1, <2>11 DEF InCall, Sound, Known, NodesOwned
      <4> QED BY <4>1, <4>2
    <3>4. \A n \in DOMAIN d.nodes : d.nodes[n].owner = e /\ ~d.nodes[n].dead
                                     => d.nodes[n].pointer # pointer
      BY <2>0 DEF owned_node
    <3>5. \A n, k \in DOMAIN g.nodes :
            /\ n # k /\ ~g.nodes[n].dead /\ ~g.nodes[k].dead
            /\ g.nodes[n].owner = g.nodes[k].owner
            => g.nodes[n].pointer # g.nodes[k].pointer
      <4> SUFFICES ASSUME NEW n \in DOMAIN g.nodes, NEW k \in DOMAIN g.nodes,
                          n # k, ~g.nodes[n].dead, ~g.nodes[k].dead,
                          g.nodes[n].owner = g.nodes[k].owner
                   PROVE g.nodes[n].pointer # g.nodes[k].pointer
        OBVIOUS
      <4>1. CASE n = m
        BY <4>1, <3>1, <3>2, <3>4, <2>5
      <4>2. CASE k = m
        BY <4>2, <3>1, <3>2, <3>4, <2>5
      <4>3. CASE n # m /\ k # m
        BY <4>3, <3>1 DEF InCall, Sound, Known, NodesOwned
      <4> QED BY <4>1, <4>2, <4>3
    <3> QED BY <3>3, <3>5 DEF NodesOwned
  <2>16. ManagerKnown(g, 0)
    <3>1. \A n \in DOMAIN d.nodes : ~(d.nodes[n].manager /\ ~d.nodes[n].dead)
      <4>1. \A n \in DOMAIN d.nodes : d.nodes[n].owner # 0
        BY <1>0, NodeTable DEF Tokens
      <4> QED BY <4>1, <2>0 DEF InCall, Sound, Known, ManagerKnown
    <3>2. \A n \in DOMAIN g.nodes : g.nodes[n].manager /\ ~g.nodes[n].dead => n = m
      BY <3>1, <2>6, <2>10
    <3>3. m \in DOMAIN g.nodes /\ g.nodes[m] = node
      BY <2>6, <2>10
    <3>4. endpoint_for(g, e) /\ uid = Uid[g.endpoints[e].pid]
      BY <1>0, <2>8, <2>10, <2>11
    <3> QED BY <3>2, <3>3, <3>4, <2>1, <2>5, <2>10, <2>12 DEF ManagerKnown
  <2>17. TokensGiven(g)
    <3>1. e < d.next_token
      BY <1>0 DEF InCall, Sound, Known, TokensGiven, endpoint_for
    <3>2. \A n \in DOMAIN g.nodes : g.nodes[n].owner < g.next_token
      BY <3>1, <2>5, <2>6, <2>10 DEF InCall, Sound, Known, TokensGiven
    <3>3. \A u \in Tokens :
            /\ g.endpoints[u].opened => g.endpoints[u].used
            /\ g.endpoints[u].used => u < g.next_token /\ g.endpoints[u].pid \in Procs
      BY <2>10 DEF InCall, Sound, Known, TokensGiven
    <3> QED BY <3>2, <3>3 DEF TokensGiven
  <2>18. Bounded(g)
    BY <1>0, <2>10 DEF Bounded
  <2>19. Sound(g, 0)
    <3>1. SleepersOpen(g)
      BY <2>10 DEF InCall, Sound, Known, SleepersOpen
    <3> QED BY <2>10, <2>14, <2>15, <2>16, <2>17, <2>18, <3>1 DEF Sound, Known
  <2>20. endpoint_for(g, e) /\ t \in DOMAIN g.threads[e]
    BY <2>10, <2>11 DEF InCall
  <2>21. SameTurns(d, g)
    <3>1. node.async_buffer = 0
      BY <2>4 DEF FreshNode
    <3>2. m \in Nat
      BY <1>0, FieldTypes DEF Counters
    <3>3. Given(d) \subseteq Given(g) /\ m \notin Given(d)
      BY <2>10, <3>2 DEF Given
    <3>4. ASSUME NEW n \in DOMAIN g.nodes, n # m
          PROVE n \in DOMAIN d.nodes /\ g.nodes[n] = d.nodes[n]
      BY <2>6, <2>10, <3>4
    <3> QED BY <2>6, <2>10, <3>1, <3>3, <3>4 DEF SameTurns, SameNode
  <2>22. SameTalk(d, g) /\ SameBuffers(d, g)
    BY <2>10 DEF SameTalk, SameCallState, SameBuffers
  <2> QED BY <2>19, <2>20, <2>21, <2>22 DEF InCall, StillIn, SameFlow
<1> QED BY <1>1, <1>2

----------------------------------------------------------------------------
(* BINDER_THREAD_EXIT.                                                       *)

NodesLeft(d, e, t) ==
  [n \in DOMAIN d.nodes |-> IF d.nodes[n].owner = e /\ d.nodes[n].notification_tid = t
                            THEN [d.nodes[n] EXCEPT !.notification_tid = 0] ELSE d.nodes[n]]
DeathsLeft(d, e, t) ==
  [i \in Slots |-> IF d.deaths[i].endpoint = e /\ d.deaths[i].tid = t THEN NoDeath
                   ELSE d.deaths[i]]
Left(d, e, t) ==
  PutThreads(PutNodesDeaths(d, NodesLeft(d, e, t), DeathsLeft(d, e, t)), e,
             Without(d.threads[e], {t}))

LEMMA NodesLeftFacts ==
  ASSUME NEW d \in Device, NEW e, NEW t, NEW N, N = NodesLeft(d, e, t)
  PROVE /\ N \in Nodes /\ DOMAIN N = DOMAIN d.nodes
        /\ \A n \in DOMAIN d.nodes :
             SameNode(d.nodes[n], N[n]) /\ N[n].async_buffer = d.nodes[n].async_buffer
<1>1. \A n \in DOMAIN d.nodes : n \in NodeIds /\ d.nodes[n] \in GoodNode
  BY NodeTable
<1>2. ASSUME NEW node \in GoodNode, NEW v, v = [node EXCEPT !.notification_tid = 0]
      PROVE v \in GoodNode /\ SameNode(node, v) /\ v.async_buffer = node.async_buffer
  BY <1>2 DEF GoodNode, Node, SameNode
<1>3. DOMAIN N = DOMAIN d.nodes /\ \A n \in DOMAIN d.nodes :
        \/ N[n] = d.nodes[n] \/ N[n] = [d.nodes[n] EXCEPT !.notification_tid = 0]
  BY DEF NodesLeft
<1>4. \A n \in DOMAIN d.nodes :
        N[n] \in GoodNode /\ SameNode(d.nodes[n], N[n])
        /\ N[n].async_buffer = d.nodes[n].async_buffer
  BY <1>1, <1>2, <1>3 DEF SameNode
<1>5. N \in [DOMAIN N -> GoodNode]
  BY <1>3, <1>4 DEF NodesLeft
<1>6. N \in Nodes
  BY <1>1, <1>3, <1>5, TableMember DEF Nodes
<1> QED BY <1>3, <1>4, <1>6

LEMMA NoDeathFacts == NoDeath \in Death
  BY DEF NoDeath, Death

LEMMA DeathsLeftFacts ==
  ASSUME NEW d \in Device, NEW e, NEW t, NEW D, D = DeathsLeft(d, e, t)
  PROVE D \in Deaths
<1>1. \A i \in Slots : d.deaths[i] \in Death
  BY FieldTypes DEF Deaths
<1> QED BY <1>1, NoDeathFacts DEF DeathsLeft, Deaths

\* f is d without thread t of endpoint e.
WithoutThread(d, f, e, t) ==
  /\ f.next_transaction = d.next_transaction /\ f.endpoints = d.endpoints
  /\ f.transactions = d.transactions /\ f.work = d.work /\ SameTurns(d, f)
  /\ \A u \in Tokens \ {e} : f.threads[u] = d.threads[u]
  /\ \A s : s \in DOMAIN f.threads[e] <=> s \in DOMAIN d.threads[e] /\ s # t
  /\ \A s \in DOMAIN f.threads[e] : f.threads[e][s] = d.threads[e][s]

LEMMA LeftSound ==
  ASSUME NEW d, Sound(d, 0), NEW e \in Tokens, NEW t, NEW f, f = Left(d, e, t)
  PROVE Sound(f, 0) /\ WithoutThread(d, f, e, t)
<1>0. d \in Device /\ Bounded(d) /\ NodesKnown(d)
  BY SoundFacts
<1>1. PICK N : N = NodesLeft(d, e, t)
  OBVIOUS
<1>2. PICK D : D = DeathsLeft(d, e, t)
  OBVIOUS
<1>3. /\ N \in Nodes /\ DOMAIN N = DOMAIN d.nodes
      /\ \A n \in DOMAIN d.nodes :
           SameNode(d.nodes[n], N[n]) /\ N[n].async_buffer = d.nodes[n].async_buffer
  BY <1>0, <1>1, NodesLeftFacts
<1>4. D \in Deaths
  BY <1>0, <1>2, DeathsLeftFacts
<1>5. PICK g : g = PutNodesDeaths(d, N, D)
  OBVIOUS
<1>6. /\ g \in Device /\ SameCalls(d, g)
      /\ g.next_node = d.next_node /\ g.nodes = N /\ g.references = d.references
      /\ g.claims = d.claims
  BY <1>0, <1>3, <1>4, <1>5, PutNodesDeathsFacts
<1>7. Keeps(d, g)
  <2>1. \A k \in DOMAIN g.references : k[2] \in DOMAIN g.nodes
    BY <1>0, <1>3, <1>6 DEF NodesKnown
  <2> QED BY <1>0, <1>3, <1>6, <2>1, SameCallsKeeps
<1>8. Bounded(g)
  BY <1>0, <1>6 DEF Bounded, SameCalls
<1>9. Sound(g, 0)
  BY <1>7, <1>8, KeepsSound
<1>10. PICK P : P = Without(d.threads[e], {t})
  OBVIOUS
<1>11. d.threads[e] \in Tables(Tids, Thread) /\ DOMAIN d.threads[e] \subseteq Tids
  BY <1>0, ThreadTable
<1>12. P \in Tables(Tids, Thread) /\ DOMAIN P = DOMAIN d.threads[e] \ {t}
  BY <1>10, <1>11, TableRestrict DEF Without
<1>13. Cardinality(DOMAIN P) <= ThreadLimit
  <2>1. IsFiniteSet(DOMAIN d.threads[e])
    BY <1>11, BinderAssumption, FS_Subset
  <2>2. Cardinality(DOMAIN P) <= Cardinality(DOMAIN d.threads[e])
    BY <2>1, <1>12, FS_Subset
  <2>3. IsFiniteSet(DOMAIN P)
    BY <2>1, <1>12, FS_Subset
  <2>4. Cardinality(DOMAIN P) \in Nat /\ Cardinality(DOMAIN d.threads[e]) \in Nat
    BY <2>1, <2>3, FS_CardinalityType
  <2>5. Cardinality(DOMAIN d.threads[e]) <= ThreadLimit /\ ThreadLimit \in Nat
    BY <1>0, BinderAssumption DEF Bounded
  <2> QED BY <2>2, <2>4, <2>5
<1>14. f = PutThreads(g, e, P)
  BY <1>1, <1>2, <1>5, <1>10 DEF Left
<1>15. /\ Keeps(g, f) /\ SameObjects(g, f) /\ Bounded(f) /\ f.threads[e] = P
       /\ f.next_transaction = g.next_transaction /\ f.endpoints = g.endpoints
       /\ f.transactions = g.transactions /\ f.work = g.work
       /\ \A u \in Tokens \ {e} : f.threads[u] = g.threads[u]
  <2>1. NodesKnown(g)
    BY <1>9, SoundFacts
  <2>2. \A s \in DOMAIN P : s \in DOMAIN d.threads[e] /\ P[s] = d.threads[e][s]
    BY <1>10, <1>11, <1>12, TableRestrict DEF Without
  <2>3. \A s \in DOMAIN P : P[s].active => s \in DOMAIN g.threads[e] /\ g.threads[e][s].active
    BY <2>2, <1>6 DEF SameCalls
  <2> QED BY <2>1, <2>3, <1>6, <1>8, <1>12, <1>13, <1>14, PutThreadsFacts
<1>16. \A s \in DOMAIN P : P[s] = d.threads[e][s]
  BY <1>10, <1>11, <1>12, TableRestrict DEF Without
<1>t. SameTurns(d, f)
  <2>1. SameTurns(d, g)
    BY <1>3, <1>6, EqualTurns
  <2>2. SameTurns(g, f)
    BY <1>15, ObjectsTurns
  <2> QED BY <2>1, <2>2, TurnsTrans
<1>17. WithoutThread(d, f, e, t)
  BY <1>6, <1>12, <1>15, <1>16, <1>t DEF WithoutThread, SameCalls
<1> QED BY <1>9, <1>15, <1>17, KeepsSound

LEMMA ExitSteps ==
  ASSUME NEW e, NEW t, ThreadExit(e, t), NEW d, d = reap_closed(dev),
         NEW f, f = cancel_transactions(admit_thread(d, e, t), e, t), f \in Device
  PROVE CanEnter(d, e, t) /\ dev' = Left(f, e, t)
<1>1. /\ CanEnter(d, e, t)
      /\ dev' = [f EXCEPT
          !.nodes = [n \in DOMAIN f.nodes |->
             IF f.nodes[n].owner = e /\ f.nodes[n].notification_tid = t
             THEN [f.nodes[n] EXCEPT !.notification_tid = 0] ELSE f.nodes[n]],
          !.deaths = [i \in Slots |->
             IF f.deaths[i].endpoint = e /\ f.deaths[i].tid = t THEN NoDeath
             ELSE f.deaths[i]],
          !.threads[e] = Without(@, {t})]
  BY DEF ThreadExit
<1> QED BY <1>1, FieldTypes DEF Left, PutThreads, PutNodesDeaths, NodesLeft, DeathsLeft, Device

----------------------------------------------------------------------------
(* The invariant, and what every entry point does to it.                     *)

DeviceSound == Sound(dev, 0)

\* A command of thread t of endpoint e, which runs Body on f and leaves g.
Commanded(e, t, f, g) ==
  /\ CanEnter(reap_closed(dev), e, t)
  /\ f = admit_thread(reap_closed(dev), e, t)
  /\ dev' = Leave(g, e, t)

\* What a command of thread t of endpoint e does to the calls.
CallEffect(f, e, t, g) ==
  \/ SameFlow(f, g) \/ TransferEffect(f, e, t, g) \/ ReplyEffect(f, e, t, g)
  \/ TakesWork(f, e, t, g) \/ \E b \in Buffers : FreeEffect(f, e, b, g)

\* Thread t of endpoint e executes one command.
Runs(e, t) ==
  \E f, g : Commanded(e, t, f, g)
            /\ (InCall(f, e, t) => InCall(g, e, t) /\ CallEffect(f, e, t, g))

LEMMA RunsSound ==
  ASSUME DeviceSound, NEW e \in Tokens, NEW t, Runs(e, t)
  PROVE DeviceSound'
<1>1. PICK f, g : /\ Commanded(e, t, f, g)
                  /\ InCall(f, e, t) => InCall(g, e, t) /\ CallEffect(f, e, t, g)
  BY DEF Runs
<1>2. InCall(f, e, t)
  BY <1>1, EnterSound DEF DeviceSound, Commanded
<1>3. PICK h : h = dev'
  OBVIOUS
<1>4. Sound(h, 0)
  BY <1>1, <1>2, <1>3, LeaveSound DEF Commanded
<1> QED BY <1>3, <1>4 DEF DeviceSound

LEMMA GuestValues ==
  /\ \A pointer \in Pointers : pointer \in Nat
  /\ \A cookie \in Cookies : cookie \in Nat
  /\ \A parcel \in Parcels : parcel \in Seq(Objects)
  BY BinderAssumption

LEMMA LooperCommandRuns ==
  ASSUME NEW e \in Tokens, NEW t, NEW c \in {"ENTER", "REGISTER", "EXIT"},
         LooperCommand(e, t, c)
  PROVE Runs(e, t)
<1>1. PICK f : f = admit_thread(reap_closed(dev), e, t)
  OBVIOUS
<1>2. PICK g : g = IF f.threads[e][t].error # None THEN f
                   ELSE looper_command(f, e, t, c)
  OBVIOUS
<1>3. Commanded(e, t, f, g)
  BY <1>1, <1>2 DEF LooperCommand, Write, Ioctl, Commanded
<1>4. InCall(f, e, t) => InCall(g, e, t) /\ CallEffect(f, e, t, g)
  BY <1>2, GuestValues, LooperSound, FlowRefl DEF StillIn, CallEffect
<1> QED BY <1>3, <1>4 DEF Runs

LEMMA CallRuns ==
  ASSUME NEW e \in Tokens, NEW t, NEW h, NEW parcel \in Parcels,
         Call(e, t, h, parcel)
  PROVE Runs(e, t)
<1>1. PICK f : f = admit_thread(reap_closed(dev), e, t)
  OBVIOUS
<1>2. PICK oneway \in BOOLEAN : oneway = FALSE
  OBVIOUS
<1>3. PICK g : g = IF f.threads[e][t].error # None THEN f
                   ELSE transfer_packet(f, e, t, h, oneway, parcel)
  OBVIOUS
<1>4. Commanded(e, t, f, g)
  BY <1>1, <1>2, <1>3 DEF Call, Write, Ioctl, Commanded
<1>5. InCall(f, e, t) => InCall(g, e, t) /\ CallEffect(f, e, t, g)
  BY <1>3, GuestValues, TransferSound, FlowRefl DEF CallEffect
<1> QED BY <1>4, <1>5 DEF Runs

LEMMA OneWayRuns ==
  ASSUME NEW e \in Tokens, NEW t, NEW h, NEW parcel \in Parcels,
         OneWay(e, t, h, parcel)
  PROVE Runs(e, t)
<1>1. PICK f : f = admit_thread(reap_closed(dev), e, t)
  OBVIOUS
<1>2. PICK oneway \in BOOLEAN : oneway = TRUE
  OBVIOUS
<1>3. PICK g : g = IF f.threads[e][t].error # None THEN f
                   ELSE transfer_packet(f, e, t, h, oneway, parcel)
  OBVIOUS
<1>4. Commanded(e, t, f, g)
  BY <1>1, <1>2, <1>3 DEF OneWay, Write, Ioctl, Commanded
<1>5. InCall(f, e, t) => InCall(g, e, t) /\ CallEffect(f, e, t, g)
  BY <1>3, GuestValues, TransferSound, FlowRefl DEF CallEffect
<1> QED BY <1>4, <1>5 DEF Runs

LEMMA ReplyRuns ==
  ASSUME NEW e \in Tokens, NEW t, NEW parcel \in Parcels,
         Reply(e, t, parcel)
  PROVE Runs(e, t)
<1>1. PICK f : f = admit_thread(reap_closed(dev), e, t)
  OBVIOUS
<1>2. PICK g : g = IF f.threads[e][t].error # None THEN f
                   ELSE reply_packet(f, e, t, parcel)
  OBVIOUS
<1>3. Commanded(e, t, f, g)
  BY <1>1, <1>2 DEF Reply, Write, Ioctl, Commanded
<1>4. InCall(f, e, t) => InCall(g, e, t) /\ CallEffect(f, e, t, g)
  BY <1>2, GuestValues, ReplySound, FlowRefl DEF CallEffect
<1> QED BY <1>3, <1>4 DEF Runs

LEMMA FreeBufferRuns ==
  ASSUME NEW e \in Tokens, NEW t, NEW b \in Buffers,
         FreeBuffer(e, t, b)
  PROVE Runs(e, t)
<1>1. PICK f : f = admit_thread(reap_closed(dev), e, t)
  OBVIOUS
<1>2. PICK g : g = IF f.threads[e][t].error # None THEN f
                   ELSE free_packet(f, e, b)
  OBVIOUS
<1>3. Commanded(e, t, f, g)
  BY <1>1, <1>2 DEF FreeBuffer, Write, Ioctl, Commanded
<1>4. InCall(f, e, t) => InCall(g, e, t) /\ CallEffect(f, e, t, g)
  BY <1>2, GuestValues, FreeSound, FlowRefl DEF CallEffect
<1> QED BY <1>3, <1>4 DEF Runs

LEMMA ReferenceCommandRuns ==
  ASSUME NEW e \in Tokens, NEW t, NEW h, NEW strong \in BOOLEAN, NEW increment \in BOOLEAN,
         ReferenceCommand(e, t, h, strong, increment)
  PROVE Runs(e, t)
<1>1. PICK f : f = admit_thread(reap_closed(dev), e, t)
  OBVIOUS
<1>2. PICK g : g = IF f.threads[e][t].error # None THEN f
                   ELSE reference_command(f, e, h, strong, increment)
  OBVIOUS
<1>3. Commanded(e, t, f, g)
  BY <1>1, <1>2 DEF ReferenceCommand, Write, Ioctl, Commanded
<1>4. InCall(f, e, t) => InCall(g, e, t) /\ CallEffect(f, e, t, g)
  BY <1>2, GuestValues, ReferenceSound, FlowRefl DEF StillIn, CallEffect
<1> QED BY <1>3, <1>4 DEF Runs

LEMMA NodeDoneRuns ==
  ASSUME NEW e \in Tokens, NEW t, NEW pointer, NEW cookie, NEW strong \in BOOLEAN,
         NodeDone(e, t, pointer, cookie, strong)
  PROVE Runs(e, t)
<1>1. PICK f : f = admit_thread(reap_closed(dev), e, t)
  OBVIOUS
<1>2. PICK g : g = IF f.threads[e][t].error # None THEN f
                   ELSE node_done_command(f, e, pointer, cookie, strong)
  OBVIOUS
<1>3. Commanded(e, t, f, g)
  BY <1>1, <1>2 DEF NodeDone, Write, Ioctl, Commanded
<1>4. InCall(f, e, t) => InCall(g, e, t) /\ CallEffect(f, e, t, g)
  BY <1>2, GuestValues, DoneSound, FlowRefl DEF StillIn, CallEffect
<1> QED BY <1>3, <1>4 DEF Runs

LEMMA RequestDeathRuns ==
  ASSUME NEW e \in Tokens, NEW t, NEW h, NEW cookie \in Cookies,
         RequestDeath(e, t, h, cookie)
  PROVE Runs(e, t)
<1>1. PICK f : f = admit_thread(reap_closed(dev), e, t)
  OBVIOUS
<1>2. PICK g : g = IF f.threads[e][t].error # None THEN f
                   ELSE request_death(f, e, h, cookie)
  OBVIOUS
<1>3. Commanded(e, t, f, g)
  BY <1>1, <1>2 DEF RequestDeath, Write, Ioctl, Commanded
<1>4. InCall(f, e, t) => InCall(g, e, t) /\ CallEffect(f, e, t, g)
  BY <1>2, GuestValues, RequestSound, FlowRefl DEF StillIn, CallEffect
<1> QED BY <1>3, <1>4 DEF Runs

LEMMA ClearDeathRuns ==
  ASSUME NEW e \in Tokens, NEW t, NEW h, NEW cookie \in Cookies,
         ClearDeath(e, t, h, cookie)
  PROVE Runs(e, t)
<1>1. PICK f : f = admit_thread(reap_closed(dev), e, t)
  OBVIOUS
<1>2. PICK g : g = IF f.threads[e][t].error # None THEN f
                   ELSE clear_death(f, e, t, h, cookie)
  OBVIOUS
<1>3. Commanded(e, t, f, g)
  BY <1>1, <1>2 DEF ClearDeath, Write, Ioctl, Commanded
<1>4. InCall(f, e, t) => InCall(g, e, t) /\ CallEffect(f, e, t, g)
  BY <1>2, GuestValues, ClearSound, FlowRefl DEF StillIn, CallEffect
<1> QED BY <1>3, <1>4 DEF Runs

LEMMA DeathDoneRuns ==
  ASSUME NEW e \in Tokens, NEW t, NEW cookie \in Cookies,
         DeathDone(e, t, cookie)
  PROVE Runs(e, t)
<1>1. PICK f : f = admit_thread(reap_closed(dev), e, t)
  OBVIOUS
<1>2. PICK g : g = IF f.threads[e][t].error # None THEN f
                   ELSE death_done(f, e, t, cookie)
  OBVIOUS
<1>3. Commanded(e, t, f, g)
  BY <1>1, <1>2 DEF DeathDone, Write, Ioctl, Commanded
<1>4. InCall(f, e, t) => InCall(g, e, t) /\ CallEffect(f, e, t, g)
  BY <1>2, GuestValues, DeathDoneSound, FlowRefl DEF StillIn, CallEffect
<1> QED BY <1>3, <1>4 DEF Runs

LEMMA SetContextManagerRuns ==
  ASSUME NEW e \in Tokens, NEW t, NEW pointer \in Pointers, NEW cookie \in Cookies,
         SetContextManager(e, t, pointer, cookie)
  PROVE Runs(e, t)
<1>1. PICK f : f = admit_thread(reap_closed(dev), e, t)
  OBVIOUS
<1>2. PICK g : g = set_context_manager(f, e, pointer, cookie)
  OBVIOUS
<1>3. Commanded(e, t, f, g)
  BY <1>1, <1>2 DEF SetContextManager, Ioctl, Commanded
<1>4. InCall(f, e, t) => InCall(g, e, t) /\ CallEffect(f, e, t, g)
  BY <1>2, GuestValues, ManagerSound, FlowRefl DEF StillIn, CallEffect
<1> QED BY <1>3, <1>4 DEF Runs

LEMMA ReadRuns ==
  ASSUME NEW e \in Tokens, NEW t, Read(e, t)
  PROVE Runs(e, t)
<1>1. PICK f : f = admit_thread(reap_closed(dev), e, t)
  OBVIOUS
<1>2. /\ CanEnter(reap_closed(dev), e, t)
      /\ \/ \E g \in read_work(f, e, t) : dev' = Leave(g, e, t)
         \/ dev' = Leave(f, e, t)
  BY <1>1 DEF Read
<1>3. CASE dev' = Leave(f, e, t)
  <2>1. Commanded(e, t, f, f)
    BY <1>1, <1>2, <1>3 DEF Commanded
  <2> QED BY <2>1, FlowRefl DEF Runs, CallEffect
<1>4. ASSUME NEW g \in read_work(f, e, t), dev' = Leave(g, e, t)
      PROVE Runs(e, t)
  <2>1. Commanded(e, t, f, g)
    BY <1>1, <1>2, <1>4 DEF Commanded
  <2>2. ASSUME InCall(f, e, t) PROVE InCall(g, e, t) /\ CallEffect(f, e, t, g)
    BY <2>2, ReadSound DEF CallEffect
  <2> QED BY <2>1, <2>2 DEF Runs
<1> QED BY <1>2, <1>3, <1>4

LEMMA SleepKeeps ==
  ASSUME DeviceSound, NEW e \in Tokens, NEW t, Sleep(e, t)
  PROVE DeviceSound'
<1>1. PICK d : d = reap_closed(dev)
  OBVIOUS
<1>2. PICK h : h = dev'
  OBVIOUS
<1>3. CanEnter(d, e, t) /\ t \in DOMAIN d.threads[e] /\ h = Asleep(d, e, t)
  BY <1>1, <1>2 DEF Sleep, Asleep
<1>4. InCall(d, e, t)
  BY <1>1, <1>3, EnterSound DEF DeviceSound, InCall
<1>5. InCall(h, e, t)
  BY <1>3, <1>4, FlagSound DEF CanEnter, StillIn
<1> QED BY <1>2, <1>5 DEF DeviceSound, InCall

LEMMA ReleaseKeepsOpen ==
  ASSUME NEW d, Sound(d, 0), NEW u \in Tokens, ~d.endpoints[u].opened,
         NEW e \in Tokens, d.endpoints[e].opened, NEW t \in DOMAIN d.threads[e],
         NEW f, f = release_endpoint(d, u)
  PROVE Sound(f, 0) /\ f \in Device /\ f.endpoints[e].opened /\ t \in DOMAIN f.threads[e]
<1>0. d \in Device /\ e \in Tokens \ {u}
  BY SoundFacts
<1>1. PICK r : r = Released(d, u)
  OBVIOUS
<1>a. /\ Sound(f, 0) /\ f \in Device /\ f = Emptied(Released(d, u), u)
      /\ SameOthers(d, f, u)
  BY EndpointFacts
<1>2. Sound(f, 0) /\ f \in Device /\ f = Emptied(Released(d, u), u)
      /\ f.endpoints[e].opened = d.endpoints[e].opened
  BY <1>0, <1>a DEF SameOthers
<1>3. f = Emptied(r, u)
  BY <1>1, <1>2
<1>4. r \in Device /\ r.threads = EndedThreads(d, CancelledIds(d, u, 0))
  BY <1>1, ReleasedFacts
<1>5. DOMAIN r.threads[e] = DOMAIN d.threads[e]
  BY <1>0, <1>4, EndedThreadsFacts
<1>6. f.threads[e] = r.threads[e]
  BY <1>0, <1>3, <1>4, EmptiedFacts
<1> QED BY <1>2, <1>5, <1>6

\* Reaping leaves an open endpoint and its threads in place.
LEMMA ReapKeepsOpen ==
  ASSUME NEW d, Sound(d, 0), NEW e \in Tokens, NEW t \in DOMAIN d.threads[e],
         d.endpoints[e].opened, NEW f, f = reap_closed(d)
  PROVE InCall(f, e, t)
<1> DEFINE S == {g \in Device : /\ Sound(g, 0) /\ g.endpoints[e].opened
                                /\ t \in DOMAIN g.threads[e]}
<1>1. d \in S
  BY SoundFacts
<1>2. ASSUME NEW g \in S, NEW u \in Tokens, GoneIn(g, u)
      PROVE release_endpoint(g, u) \in S
  <2>1. PICK h : h = release_endpoint(g, u)
    OBVIOUS
  <2>2. Sound(g, 0) /\ g.endpoints[e].opened /\ t \in DOMAIN g.threads[e]
    OBVIOUS
  <2> HIDE DEF S
  <2>3. ~g.endpoints[u].opened
    BY <1>2 DEF GoneIn
  <2>4. Sound(h, 0) /\ h \in Device /\ h.endpoints[e].opened /\ t \in DOMAIN h.threads[e]
    BY <2>1, <2>2, <2>3, ReleaseKeepsOpen
  <2> QED BY <2>1, <2>4 DEF S
<1>3. f \in S
  <2> HIDE DEF S
  <2> QED BY <1>1, <1>2, ReapInduct
<1> QED BY <1>3 DEF Sound, Known, TokensGiven, InCall, endpoint_for

\* A thread that sleeps is still there, and its endpoint, after reaping.
LEMMA WakeSound ==
  ASSUME DeviceSound, NEW e \in Tokens, NEW t, Sleeping(e, t),
         NEW d, d = reap_closed(dev)
  PROVE InCall(d, e, t)
<1>1. t \in DOMAIN dev.threads[e] /\ dev.endpoints[e].opened
  BY DEF Sleeping, DeviceSound, Sound, Known, SleepersOpen
<1> QED BY <1>1, ReapKeepsOpen DEF DeviceSound

LEMMA PollKeeps ==
  ASSUME DeviceSound, NEW e \in Tokens, NEW t, Poll(e, t)
  PROVE DeviceSound'
<1>1. PICK d : d = reap_closed(dev)
  OBVIOUS
<1>2. PICK h : h = dev'
  OBVIOUS
<1>3. InCall(d, e, t)
  BY <1>1, WakeSound DEF Poll
<1>4. h = d \/ \E g \in read_work(d, e, t) : h = Leave(g, e, t)
  BY <1>1, <1>2 DEF Poll
<1>5. Sound(h, 0)
  <2>1. CASE h = d
    BY <1>3, <2>1 DEF InCall
  <2>2. ASSUME NEW g \in read_work(d, e, t), h = Leave(g, e, t) PROVE Sound(h, 0)
    <3>1. InCall(g, e, t)
      BY <1>3, ReadSound
    <3> QED BY <2>2, <3>1, LeaveSound
  <2> QED BY <1>4, <2>1, <2>2
<1> QED BY <1>2, <1>5 DEF DeviceSound

LEMMA InterruptedKeeps ==
  ASSUME DeviceSound, NEW e \in Tokens, NEW t, Interrupted(e, t)
  PROVE DeviceSound'
<1>1. PICK d : d = reap_closed(dev)
  OBVIOUS
<1>2. PICK h : h = dev'
  OBVIOUS
<1>3. InCall(d, e, t)
  BY <1>1, WakeSound DEF Interrupted
<1>4. h = Leave(d, e, t)
  BY <1>1, <1>2 DEF Interrupted
<1>5. Sound(h, 0)
  BY <1>3, <1>4, LeaveSound
<1> QED BY <1>2, <1>5 DEF DeviceSound

LEMMA EventsKeeps ==
  ASSUME DeviceSound, NEW e \in Tokens, NEW t, Events(e, t)
  PROVE DeviceSound'
<1>1. PICK d : d = reap_closed(dev)
  OBVIOUS
<1>2. PICK h : h = dev'
  OBVIOUS
<1>3. Admissible(d, e, t) /\ h = admit_thread(d, e, t)
  BY <1>1, <1>2 DEF Events, Admissible
<1>4. Sound(d, 0)
  BY <1>1, ReapSound DEF DeviceSound
<1>5. InCall(h, e, t)
  BY <1>3, <1>4, AdmitSound
<1> QED BY <1>2, <1>5 DEF DeviceSound, InCall

LEMMA ThreadExitKeeps ==
  ASSUME DeviceSound, NEW e \in Tokens, NEW t, ThreadExit(e, t)
  PROVE DeviceSound'
<1>1. PICK d : d = reap_closed(dev)
  OBVIOUS
<1>2. PICK a : a = admit_thread(d, e, t)
  OBVIOUS
<1>3. PICK f : f = cancel_transactions(a, e, t)
  OBVIOUS
<1>4. CanEnter(d, e, t)
  BY <1>1 DEF ThreadExit
<1>5. InCall(a, e, t)
  BY <1>1, <1>2, <1>4, EnterSound DEF DeviceSound
<1>6. f \in Device /\ Bounded(f) /\ Keeps(a, f)
  BY <1>3, <1>5, InCallFacts, CancelFacts
<1>7. Sound(f, 0)
  BY <1>5, <1>6, KeepsSound DEF InCall
<1>8. PICK h : h = dev'
  OBVIOUS
<1>9. h = Left(f, e, t)
  BY <1>1, <1>2, <1>3, <1>6, <1>8, ExitSteps
<1>10. Sound(h, 0)
  BY <1>7, <1>9, LeftSound
<1> QED BY <1>8, <1>10 DEF DeviceSound

LEMMA OpenKeeps ==
  ASSUME DeviceSound, NEW p \in Procs, Open(p)
  PROVE DeviceSound'
<1>1. PICK d : d = reap_closed(dev)
  OBVIOUS
<1>2. PICK h : h = dev'
  OBVIOUS
<1>3. d.next_token <= TokenLimit /\ h = open(d, p)
  BY <1>1, <1>2 DEF Open
<1>4. Sound(d, 0)
  BY <1>1, ReapSound DEF DeviceSound
<1>5. Sound(h, 0)
  BY <1>3, <1>4, OpenSound
<1> QED BY <1>2, <1>5 DEF DeviceSound

\* Close.
Closed(d, e) == [d EXCEPT !.endpoints[e].opened = FALSE]

LEMMA ClosedSound ==
  ASSUME NEW d, Sound(d, 0), NEW e \in Tokens,
         \A t \in DOMAIN d.threads[e] : ~d.threads[e][t].active,
         NEW f, f = Closed(d, e)
  PROVE Sound(f, 0) /\ SameFlow(d, f)
<1>1. d \in Device /\ d.endpoints[e] \in Endpoint
  BY SoundFacts, EndpointTable
<1>2. PICK ep : ep = [d.endpoints[e] EXCEPT !.opened = FALSE]
  OBVIOUS
<1>3. ep \in Endpoint /\ ep.used = d.endpoints[e].used /\ ep.pid = d.endpoints[e].pid
      /\ ~ep.opened /\ ep.arena = d.endpoints[e].arena
  BY <1>1, <1>2, EndpointUpdates
<1>4. f = PutEndpoint(d, e, ep)
  BY <1>2 DEF Closed, PutEndpoint
<1> QED BY <1>3, <1>4, PutEndpointSound

LEMMA CloseKeeps ==
  ASSUME DeviceSound, NEW e \in Tokens, Close(e)
  PROVE DeviceSound'
<1>1. PICK f : f = Closed(dev, e)
  OBVIOUS
<1>2. PICK h : h = dev'
  OBVIOUS
<1>3. \A t \in DOMAIN dev.threads[e] : ~dev.threads[e][t].active
  BY DEF Close
<1>4. h = reap_closed(f)
  BY <1>1, <1>2 DEF Close, Closed
<1>5. Sound(f, 0)
  BY <1>1, <1>3, ClosedSound DEF DeviceSound
<1>6. Sound(h, 0)
  BY <1>4, <1>5, ReapSound
<1> QED BY <1>2, <1>6 DEF DeviceSound

\* Mmap and Unmap, and the nonblocking flag.
Mapped(d, e, m) == [d EXCEPT !.endpoints[e].mapping = m]
Blocking(d, e, enabled) == [d EXCEPT !.endpoints[e].nonblocking = enabled]

LEMMA MappedSound ==
  ASSUME NEW d, Sound(d, 0), NEW e \in Tokens, NEW m \in {None, "intact", "torn", "gone"},
         NEW f, f = Mapped(d, e, m)
  PROVE Sound(f, 0) /\ SameFlow(d, f)
<1>1. d \in Device /\ d.endpoints[e] \in Endpoint
  BY SoundFacts, EndpointTable
<1>2. PICK ep : ep = [d.endpoints[e] EXCEPT !.mapping = m]
  OBVIOUS
<1>3. ep \in Endpoint /\ ep.used = d.endpoints[e].used /\ ep.pid = d.endpoints[e].pid
      /\ ep.opened = d.endpoints[e].opened /\ ep.arena = d.endpoints[e].arena
  BY <1>1, <1>2, EndpointUpdates
<1>4. f = PutEndpoint(d, e, ep)
  BY <1>2 DEF Mapped, PutEndpoint
<1>5. ~ep.opened => \A t \in DOMAIN d.threads[e] : ~d.threads[e][t].active
  BY <1>3 DEF Sound, Known, SleepersOpen
<1> QED BY <1>3, <1>4, <1>5, PutEndpointSound

LEMMA BlockingSound ==
  ASSUME NEW d, Sound(d, 0), NEW e \in Tokens, NEW enabled \in BOOLEAN,
         NEW f, f = Blocking(d, e, enabled)
  PROVE Sound(f, 0) /\ SameFlow(d, f)
<1>1. d \in Device /\ d.endpoints[e] \in Endpoint
  BY SoundFacts, EndpointTable
<1>2. PICK ep : ep = [d.endpoints[e] EXCEPT !.nonblocking = enabled]
  OBVIOUS
<1>3. ep \in Endpoint /\ ep.used = d.endpoints[e].used /\ ep.pid = d.endpoints[e].pid
      /\ ep.opened = d.endpoints[e].opened /\ ep.arena = d.endpoints[e].arena
  BY <1>1, <1>2, EndpointUpdates
<1>4. f = PutEndpoint(d, e, ep)
  BY <1>2 DEF Blocking, PutEndpoint
<1>5. ~ep.opened => \A t \in DOMAIN d.threads[e] : ~d.threads[e][t].active
  BY <1>3 DEF Sound, Known, SleepersOpen
<1> QED BY <1>3, <1>4, <1>5, PutEndpointSound

LEMMA MmapKeeps ==
  ASSUME DeviceSound, NEW e \in Tokens, Mmap(e)
  PROVE DeviceSound'
<1>1. PICK d : d = reap_closed(dev)
  OBVIOUS
<1>2. PICK h : h = dev'
  OBVIOUS
<1>3. PICK m \in {None, "intact", "torn", "gone"} : m = "intact"
  OBVIOUS
<1>4. h = Mapped(d, e, m)
  BY <1>1, <1>2, <1>3 DEF Mmap, mmap, Mapped
<1>5. Sound(h, 0)
  BY <1>1, <1>4, ReapSound, MappedSound DEF DeviceSound
<1> QED BY <1>2, <1>5 DEF DeviceSound

LEMMA UnmapKeeps ==
  ASSUME DeviceSound, NEW e \in Tokens, NEW part, part \in {"torn", "gone"}, Unmap(e, part)
  PROVE DeviceSound'
<1>1. PICK h : h = dev'
  OBVIOUS
<1>2. h = Mapped(dev, e, part)
  BY <1>1 DEF Unmap, Mapped
<1>3. part \in {None, "intact", "torn", "gone"}
  OBVIOUS
<1>4. Sound(h, 0)
  BY <1>2, <1>3, MappedSound DEF DeviceSound
<1> QED BY <1>1, <1>4 DEF DeviceSound

LEMMA NonblockingKeeps ==
  ASSUME DeviceSound, NEW e \in Tokens, NEW enabled \in BOOLEAN, set_nonblocking(e, enabled)
  PROVE DeviceSound'
<1>1. PICK h : h = dev'
  OBVIOUS
<1>2. h = Blocking(dev, e, enabled)
  BY <1>1 DEF set_nonblocking, Blocking
<1>3. Sound(h, 0)
  BY <1>2, BlockingSound DEF DeviceSound
<1> QED BY <1>1, <1>3 DEF DeviceSound

LEMMA RefusedKeeps ==
  ASSUME DeviceSound, Refused
  PROVE DeviceSound'
<1>1. PICK h : h = dev'
  OBVIOUS
<1>2. Sound(h, 0)
  BY <1>1, ReapSound DEF Refused, DeviceSound
<1> QED BY <1>1, <1>2 DEF DeviceSound

----------------------------------------------------------------------------
(* The start, the step and the theorems.                                     *)

LEMMA CreatedSound == Sound(Created, 0)
<1>1. NoEndpoint \in Endpoint /\ ~NoEndpoint.used /\ ~NoEndpoint.opened
  BY DEF NoEndpoint, Endpoint
<1>2. PICK E : E = [e \in Tokens |-> NoEndpoint]
  OBVIOUS
<1>3. E \in Endpoints /\ \A e \in Tokens : E[e] = NoEndpoint
  BY <1>1, <1>2 DEF Endpoints
<1>4. PICK T : T = [e \in Tokens |-> <<>>]
  OBVIOUS
<1>5. T \in ThreadTables /\ \A e \in Tokens : DOMAIN T[e] = {}
  BY <1>4, EmptyTable DEF ThreadTables
<1>6. PICK D : D = [i \in Slots |-> NoDeath]
  OBVIOUS
<1>7. D \in Deaths
  BY <1>6, NoDeathFacts DEF Deaths
<1>8. <<>> \in References /\ <<>> \in Nodes /\ DOMAIN <<>> = {}
  BY EmptyTable DEF References, Nodes
<1>9. <<>> \in Works /\ Len(<<>>) = 0
  BY DEF Works
<1>10. {} \in Transactions /\ {} \in Claims
  BY DEF Transactions, Claims
<1>11. PICK d : d = Created
  OBVIOUS
<1>12. d = [next_token |-> 1, next_node |-> 1, next_transaction |-> 1,
            endpoints |-> E, threads |-> T,
            manager |-> 0, manager_node |-> 0, manager_uid |-> 0,
            transactions |-> {}, work |-> <<>>, references |-> <<>>,
            nodes |-> <<>>, claims |-> {}, deaths |-> D]
  BY <1>2, <1>4, <1>6, <1>11 DEF Created
<1>13. d \in Device
  <2>1. 1 \in Counters /\ 0 \in Tokens \cup {0} /\ 0 \in 0..NodeLimit
    BY BinderAssumption DEF Counters
  <2> QED BY <2>1, <1>3, <1>5, <1>7, <1>8, <1>9, <1>10, <1>12 DEF Device
<1>14. /\ \A e \in Tokens : ~d.endpoints[e].used /\ ~d.endpoints[e].opened
       /\ \A e \in Tokens : DOMAIN d.threads[e] = {}
       /\ d.manager = 0 /\ d.manager_node = 0 /\ Len(d.work) = 0
       /\ DOMAIN d.references = {} /\ DOMAIN d.nodes = {} /\ d.claims = {}
  BY <1>1, <1>3, <1>5, <1>8, <1>9, <1>12
<1>15. NodesKnown(d) /\ NodesOwned(d, 0) /\ ManagerKnown(d, 0) /\ TokensGiven(d)
       /\ SleepersOpen(d)
  BY <1>14 DEF NodesKnown, NodesOwned, ManagerKnown, TokensGiven, SleepersOpen
<1>16. Bounded(d)
  <2>1. Cardinality({}) = 0 /\ IsFiniteSet({})
    BY FS_EmptySet
  <2>2. 0 <= PacketLimit /\ 0 <= ClaimLimit /\ 0 <= ThreadLimit
    BY BinderAssumption
  <2> QED BY <1>14, <2>1, <2>2 DEF Bounded
<1> QED BY <1>11, <1>13, <1>15, <1>16 DEF Sound, Known

LEMMA ThreadStepRuns ==
  ASSUME NEW e \in Tokens, NEW t \in Tids, ThreadStep(e, t)
  PROVE \/ Runs(e, t) \/ ThreadExit(e, t) \/ Sleep(e, t) \/ Poll(e, t)
        \/ Interrupted(e, t) \/ Events(e, t)
<1>1. CASE Read(e, t)
  BY <1>1, ReadRuns
<1>2. ASSUME NEW c \in {"ENTER", "REGISTER", "EXIT"}, LooperCommand(e, t, c)
      PROVE Runs(e, t)
  BY <1>2, LooperCommandRuns
<1>3. ASSUME NEW b \in Buffers, FreeBuffer(e, t, b) PROVE Runs(e, t)
  BY <1>3, FreeBufferRuns
<1>4. ASSUME NEW parcel \in Parcels, Reply(e, t, parcel) PROVE Runs(e, t)
  BY <1>4, ReplyRuns
<1>5. ASSUME NEW parcel \in Parcels, NEW h \in Handles,
             Call(e, t, h, parcel) \/ OneWay(e, t, h, parcel)
      PROVE Runs(e, t)
  BY <1>5, CallRuns, OneWayRuns
<1>6. ASSUME NEW h \in Handles, NEW strong \in BOOLEAN, NEW increment \in BOOLEAN,
             ReferenceCommand(e, t, h, strong, increment)
      PROVE Runs(e, t)
  BY <1>6, ReferenceCommandRuns
<1>7. ASSUME NEW c \in Cookies, DeathDone(e, t, c) PROVE Runs(e, t)
  BY <1>7, DeathDoneRuns
<1>8. ASSUME NEW c \in Cookies, NEW h \in Handles,
             RequestDeath(e, t, h, c) \/ ClearDeath(e, t, h, c)
      PROVE Runs(e, t)
  BY <1>8, RequestDeathRuns, ClearDeathRuns
<1>9. ASSUME NEW c \in Cookies, NEW p \in Pointers, SetContextManager(e, t, p, c)
      PROVE Runs(e, t)
  BY <1>9, SetContextManagerRuns
<1>10. ASSUME NEW c \in Cookies, NEW p \in Pointers, NEW strong \in BOOLEAN,
              NodeDone(e, t, p, c, strong)
       PROVE Runs(e, t)
  BY <1>10, NodeDoneRuns
<1> QED
  BY <1>1, <1>2, <1>3, <1>4, <1>5, <1>6, <1>7, <1>8, <1>9, <1>10 DEF ThreadStep

LEMMA ThreadStepKeeps ==
  ASSUME DeviceSound, NEW e \in Tokens, NEW t \in Tids, ThreadStep(e, t)
  PROVE DeviceSound'
  BY ThreadStepRuns, RunsSound, ThreadExitKeeps, SleepKeeps, PollKeeps, InterruptedKeeps,
     EventsKeeps

LEMMA StepKeeps ==
  ASSUME DeviceSound, [Next]_dev
  PROVE DeviceSound'
<1>1. CASE UNCHANGED dev
  BY <1>1 DEF DeviceSound
<1>2. ASSUME NEW p \in Procs, Open(p) PROVE DeviceSound'
  BY <1>2, OpenKeeps
<1>3. CASE Refused
  BY <1>3, RefusedKeeps
<1>4. ASSUME NEW e \in Tokens, Close(e) \/ Mmap(e) PROVE DeviceSound'
  BY <1>4, CloseKeeps, MmapKeeps
<1>5. ASSUME NEW e \in Tokens, NEW part \in {"torn", "gone"}, Unmap(e, part)
      PROVE DeviceSound'
  BY <1>5, UnmapKeeps
<1>6. ASSUME NEW e \in Tokens, NEW enabled \in BOOLEAN, set_nonblocking(e, enabled)
      PROVE DeviceSound'
  BY <1>6, NonblockingKeeps
<1>7. ASSUME NEW e \in Tokens, NEW t \in Tids, ThreadStep(e, t) PROVE DeviceSound'
  BY <1>7, ThreadStepKeeps
<1> QED BY <1>1, <1>2, <1>3, <1>4, <1>5, <1>6, <1>7 DEF Next

\* Every entry point of binder_device.cpp, reaping included, leaves a device
\* whose tables agree: what a reference names is there, a node dies with its
\* endpoint, tokens are given in order, one manager is known.
THEOREM DeviceStaysSound == Spec => []DeviceSound
<1>1. Init => DeviceSound
  BY CreatedSound DEF Init, DeviceSound
<1>2. DeviceSound /\ [Next]_dev => DeviceSound'
  BY StepKeeps
<1> QED BY <1>1, <1>2, PTL DEF Spec

\* node_command and node_done_command: an owner is never told to release what it
\* was not told to acquire, or has not acknowledged; release_references kills
\* exactly the nodes of the endpoint that goes; owned_node finds one node for
\* one pointer.
THEOREM CallbacksInOrder == Spec => []OwnerCallbacks
<1>1. DeviceSound => OwnerCallbacks
  <2> SUFFICES ASSUME DeviceSound, NEW n \in DOMAIN dev.nodes
               PROVE LET node == dev.nodes[n] IN
                     /\ node.pending_strong => node.has_strong
                     /\ node.pending_weak => node.has_weak
                     /\ node.has_strong => node.has_weak
                     /\ node.dead <=> ~endpoint_for(dev, node.owner)
                     /\ ~node.dead => \A m \in DOMAIN dev.nodes \ {n} :
                          ~(dev.nodes[m].owner = node.owner /\ dev.nodes[m].pointer = node.pointer)
    BY DEF OwnerCallbacks
  <2>1. dev \in Device /\ NodesOwned(dev, 0)
    BY DEF DeviceSound, Sound, Known
  <2>2. dev.nodes[n] \in GoodNode /\ dev.nodes[n].owner \in Tokens
    BY <2>1, NodeTable
  <2>3. dev.nodes[n].owner # 0
    BY <2>2 DEF Tokens
  <2>4. dev.nodes[n].dead <=> ~endpoint_for(dev, dev.nodes[n].owner)
    BY <2>1, <2>3 DEF NodesOwned
  <2>5. ASSUME ~dev.nodes[n].dead, NEW m \in DOMAIN dev.nodes \ {n},
               dev.nodes[m].owner = dev.nodes[n].owner
        PROVE dev.nodes[m].pointer # dev.nodes[n].pointer
    <3>1. ~dev.nodes[m].dead
      BY <2>1, <2>3, <2>4, <2>5 DEF NodesOwned
    <3> QED BY <2>1, <2>5, <3>1 DEF NodesOwned
  <2> QED BY <2>2, <2>4, <2>5 DEF GoodNode
<1> QED BY <1>1, DeviceStaysSound, PTL

\* set_context_manager and release_endpoint: at any time at most one manager, the
\* one that is recorded, with its endpoint and its node; handle 0 is never routed
\* to an earlier one.
THEOREM ManagerIsOne == Spec => []OneManager
<1>1. DeviceSound => OneManager
  <2> SUFFICES ASSUME DeviceSound PROVE OneManager
    OBVIOUS
  <2>1. ManagerKnown(dev, 0)
    BY DEF DeviceSound, Sound, Known
  <2> QED BY <2>1 DEF OneManager, ManagerKnown
<1> QED BY <1>1, DeviceStaysSound, PTL

\* The fields keep the types their declarations give them, and the limits that
\* artbox_binder_device_create takes are respected by every operation.
THEOREM DeviceTyped == Spec => []TypeOK
<1>1. DeviceSound => TypeOK
  <2> SUFFICES ASSUME DeviceSound PROVE TypeOK
    OBVIOUS
  <2>1. dev \in Device /\ Bounded(dev) /\ NodesKnown(dev)
    BY SoundFacts DEF DeviceSound
  <2>2. DOMAIN dev = DOMAIN Created
    BY <2>1 DEF Device, Created
  <2>3. dev.next_token \in Nat /\ dev.next_node \in Nat /\ dev.next_transaction \in Nat
    BY <2>1, FieldTypes DEF Counters
  <2>4. \A e \in Tokens :
          /\ dev.endpoints[e] \in Endpoint
          /\ DOMAIN dev.threads[e] \subseteq Tids
          /\ \A t \in DOMAIN dev.threads[e] : dev.threads[e][t] \in Thread
          /\ Cardinality(DOMAIN dev.threads[e]) <= ThreadLimit
    BY <2>1, EndpointTable, ThreadTable DEF Bounded
  <2>5. /\ dev.manager \in Tokens \cup {0} /\ dev.manager_node \in 0..NodeLimit
        /\ dev.transactions \subseteq Transaction
    BY <2>1, FieldTypes DEF Transactions
  <2>6. Len(dev.work) <= PacketLimit /\ \A i \in DOMAIN dev.work : dev.work[i] \in Work
    <3>1. dev.work \in Seq(Work)
      BY <2>1, FieldTypes DEF Works
    <3> QED BY <2>1, <3>1 DEF Bounded
  <2>7. /\ Cardinality(DOMAIN dev.references) <= PacketLimit
        /\ \A k \in DOMAIN dev.references : dev.references[k] \in Reference
    BY <2>1, ReferenceTable DEF Bounded
  <2>8. \A n \in DOMAIN dev.nodes : n < dev.next_node /\ dev.nodes[n] \in Node
    BY <2>1, NodeTable DEF NodesKnown, GoodNode
  <2>9. dev.claims \subseteq Claim /\ Cardinality(dev.claims) <= ClaimLimit
    BY <2>1, FieldTypes DEF Claims, Bounded
  <2>10. \A i \in Slots : dev.deaths[i] \in Death
    BY <2>1, FieldTypes DEF Deaths
  <2> QED BY <2>2, <2>3, <2>4, <2>5, <2>6, <2>7, <2>8, <2>9, <2>10 DEF TypeOK
<1> QED BY <1>1, DeviceStaysSound, PTL

----------------------------------------------------------------------------
(* The subscriptions to the death of endpoints.                              *)

Attached(d, k, i) == k \in DOMAIN d.references /\ d.references[k].death = i
Unattached(d, i) == \A k \in DOMAIN d.references : d.references[k].death # i
\* A reference to what endpoint r.owner owns, with its subscription.
LinkGood(d, k) ==
  LET r == d.references[k]
      death == d.deaths[r.death]
  IN /\ r.owner < d.next_token
     /\ r.death # 0 => /\ death.endpoint = k[1] /\ ~death.clearing
                       /\ death.owner = r.owner
SlotsOwn(d) == \A i \in Slots : \A j, k : Attached(d, j, i) /\ Attached(d, k, i) => j = k
\* A subscription: x is the endpoint that is being released, if any.
SlotGood(d, x, i) ==
  LET death == d.deaths[i] IN
  death.endpoint # 0 =>
    /\ endpoint_for(d, death.endpoint) /\ death.owner < d.next_token
    /\ death.clearing <=> Unattached(d, i)
    /\ death.state = "armed" <=> /\ endpoint_for(d, death.owner) /\ death.owner # x
                                 /\ death.state # "clear_queued"
    /\ death.state = "clear_queued" => death.clearing
    /\ death.tid # 0 => /\ death.state = "clear_queued"
                        /\ thread_for(d, death.endpoint, death.tid)
Subscribed(d, x) ==
  /\ \A k \in DOMAIN d.references : LinkGood(d, k)
  /\ SlotsOwn(d)
  /\ \A i \in Slots : SlotGood(d, x, i)

\* The endpoints of d and their threads are still there in f.
Places(d, f) ==
  /\ d.next_token <= f.next_token
  /\ \A e \in Tokens :
       /\ e < d.next_token => f.endpoints[e].used = d.endpoints[e].used
       /\ DOMAIN d.threads[e] \subseteq DOMAIN f.threads[e]
LinkStays(d, f, k) ==
  \/ /\ k \in DOMAIN d.references
     /\ f.references[k].death = d.references[k].death
     /\ f.references[k].owner = d.references[k].owner
  \/ f.references[k].death = 0 /\ f.references[k].owner < f.next_token
SlotStays(d, f, i) ==
  f.deaths[i] = d.deaths[i] /\ \A k : Attached(d, k, i) => Attached(f, k, i)
SlotEnds(d, f, i) == f.deaths[i] = NoDeath /\ ~Unattached(d, i) /\ Unattached(f, i)
\* No subscription is made or changed when d becomes f; one ends with its reference.
LinksStay(d, f) ==
  /\ Places(d, f)
  /\ \A k \in DOMAIN f.references : LinkStays(d, f, k)
  /\ \A i \in Slots : SlotStays(d, f, i) \/ SlotEnds(d, f, i)

LEMMA DeathTypes ==
  ASSUME NEW d \in Device
  PROVE /\ \A i \in Slots : d.deaths[i] \in Death /\ i \in Nat /\ i # 0
        /\ \A k \in DOMAIN d.references : /\ d.references[k] \in Reference
                                         /\ k[1] \in Tokens
                                         /\ d.references[k].owner \in Tokens
                                         /\ d.references[k].death \in Slots \cup {0}
        /\ 0 \notin Tokens /\ d.next_token \in Nat
<1>1. PacketLimit \in Nat /\ TokenLimit \in Nat
  BY BinderAssumption
<1>2. d.deaths \in [Slots -> Death] /\ d.next_token \in Nat
  BY FieldTypes DEF Deaths, Counters
<1>3. \A i \in Slots : d.deaths[i] \in Death /\ i \in Nat /\ i # 0
  BY <1>1, <1>2 DEF Slots
<1>4. \A k \in DOMAIN d.references : d.references[k] \in Reference /\ k[1] \in Tokens
  BY ReferenceTable
<1>5. \A r \in Reference : r.owner \in Tokens /\ r.death \in Slots \cup {0}
  BY <1>1 DEF Reference, Slots
<1>6. 0 \notin Tokens
  BY <1>1 DEF Tokens
<1> QED BY <1>2, <1>3, <1>4, <1>5, <1>6

LEMMA PlacesTrans ==
  ASSUME NEW d \in Device, NEW f \in Device, NEW g \in Device, Places(d, f), Places(f, g)
  PROVE Places(d, g)
<1>1. d.next_token \in Nat /\ f.next_token \in Nat /\ g.next_token \in Nat
  BY DeathTypes
<1>2. \A e \in Tokens : e \in Nat
  BY BinderAssumption DEF Tokens
<1> QED BY <1>1, <1>2 DEF Places

LEMMA LinksTrans ==
  ASSUME NEW d \in Device, NEW f \in Device, NEW g \in Device,
         LinksStay(d, f), LinksStay(f, g)
  PROVE LinksStay(d, g)
<1>1. Places(d, g)
  BY PlacesTrans DEF LinksStay
<1>2. ASSUME NEW k \in DOMAIN g.references PROVE LinkStays(d, g, k)
  <2>1. CASE g.references[k].death = 0 /\ g.references[k].owner < g.next_token
    BY <2>1 DEF LinkStays
  <2>2. CASE /\ k \in DOMAIN f.references
             /\ g.references[k].death = f.references[k].death
             /\ g.references[k].owner = f.references[k].owner
    <3>1. LinkStays(d, f, k)
      BY <2>2 DEF LinksStay
    <3>2. /\ f.next_token \in Nat /\ g.next_token \in Nat /\ f.next_token <= g.next_token
          /\ f.references[k].owner \in Tokens
      BY <2>2, DeathTypes DEF LinksStay, Places
    <3>3. f.references[k].owner \in Nat
      BY <3>2, BinderAssumption DEF Tokens
    <3> QED BY <2>2, <3>1, <3>2, <3>3 DEF LinkStays
  <2> QED BY <1>2, <2>1, <2>2 DEF LinksStay, LinkStays
<1>3. ASSUME NEW i \in Slots PROVE SlotStays(d, g, i) \/ SlotEnds(d, g, i)
  <2>0. i # 0
    BY DeathTypes
  <2>1. SlotStays(d, f, i) \/ SlotEnds(d, f, i)
    BY DEF LinksStay
  <2>2. SlotStays(f, g, i) \/ SlotEnds(f, g, i)
    BY DEF LinksStay
  <2>3. ASSUME NEW k, Attached(g, k, i) PROVE Attached(f, k, i)
    BY <2>0, <2>3 DEF LinksStay, LinkStays, Attached
  <2>4. ASSUME NEW k, Attached(f, k, i) PROVE Attached(d, k, i)
    BY <2>0, <2>4 DEF LinksStay, LinkStays, Attached
  <2>5. CASE SlotStays(d, f, i) /\ SlotStays(f, g, i)
    BY <2>5 DEF SlotStays
  <2>6. CASE SlotStays(d, f, i) /\ SlotEnds(f, g, i)
    BY <2>4, <2>6 DEF SlotStays, SlotEnds, Unattached, Attached
  <2>7. CASE SlotEnds(d, f, i) /\ SlotStays(f, g, i)
    BY <2>3, <2>7 DEF SlotStays, SlotEnds, Unattached, Attached
  <2>8. CASE SlotEnds(d, f, i) /\ SlotEnds(f, g, i)
    BY <2>8 DEF SlotEnds
  <2> QED BY <2>1, <2>2, <2>5, <2>6, <2>7, <2>8
<1> QED BY <1>1, <1>2, <1>3 DEF LinksStay

\* What becomes of a slot, and who is there, is all that a subscription depends on.
LEMMA SlotKept ==
  ASSUME NEW d \in Device, NEW f \in Device, TokensGiven(d), Places(d, f), NEW x,
         NEW i \in Slots, SlotGood(d, x, i), f.deaths[i] = d.deaths[i],
         Unattached(f, i) <=> Unattached(d, i)
  PROVE SlotGood(f, x, i)
<1> SUFFICES ASSUME f.deaths[i].endpoint # 0 PROVE SlotGood(f, x, i)
  BY DEF SlotGood
<1>1. PICK v \in Death : v = d.deaths[i] /\ v = f.deaths[i]
  BY DeathTypes
<1>2. /\ v.endpoint # 0 /\ endpoint_for(d, v.endpoint) /\ v.owner < d.next_token
      /\ v.clearing <=> Unattached(d, i)
      /\ v.state = "armed" <=> endpoint_for(d, v.owner) /\ v.owner # x
                               /\ v.state # "clear_queued"
      /\ v.state = "clear_queued" => v.clearing
      /\ v.tid # 0 => v.state = "clear_queued" /\ thread_for(d, v.endpoint, v.tid)
  BY <1>1 DEF SlotGood
<1>3. /\ d.next_token \in Nat /\ f.next_token \in Nat /\ d.next_token <= f.next_token
      /\ v.owner \in Nat /\ (v.owner \in Tokens \/ v.owner = 0)
  <2>1. v.owner \in Tokens \cup {0}
    BY DEF Death
  <2> QED BY <2>1, DeathTypes, BinderAssumption DEF Places, Tokens
<1>4. endpoint_for(f, v.endpoint) /\ v.owner < f.next_token
  <2>1. v.endpoint \in Tokens /\ d.endpoints[v.endpoint].used
    BY <1>2 DEF endpoint_for
  <2>2. v.endpoint < d.next_token
    BY <2>1 DEF TokensGiven
  <2>3. f.endpoints[v.endpoint].used
    BY <2>1, <2>2 DEF Places
  <2> QED BY <1>2, <1>3, <2>1, <2>3 DEF endpoint_for
<1>5. endpoint_for(f, v.owner) <=> endpoint_for(d, v.owner)
  BY <1>2, <1>3 DEF endpoint_for, Places
<1>6. v.tid # 0 => v.state = "clear_queued" /\ thread_for(f, v.endpoint, v.tid)
  BY <1>2, <1>4 DEF thread_for, Places, endpoint_for
<1> QED BY <1>1, <1>2, <1>4, <1>5, <1>6 DEF SlotGood

LEMMA LinksKeep ==
  ASSUME NEW d \in Device, NEW f \in Device, TokensGiven(d), NEW x, Subscribed(d, x),
         LinksStay(d, f)
  PROVE Subscribed(f, x)
<1>1. ASSUME NEW i \in Slots, NEW k, Attached(f, k, i) PROVE Attached(d, k, i)
  <2>1. i # 0
    BY DeathTypes
  <2> QED BY <1>1, <2>1 DEF LinksStay, LinkStays, Attached
<1>2. ASSUME NEW k \in DOMAIN f.references PROVE LinkGood(f, k)
  <2>1. LinkStays(d, f, k)
    BY DEF LinksStay
  <2>2. CASE f.references[k].death = 0 /\ f.references[k].owner < f.next_token
    BY <2>2 DEF LinkGood
  <2>3. CASE /\ k \in DOMAIN d.references
             /\ f.references[k].death = d.references[k].death
             /\ f.references[k].owner = d.references[k].owner
    <3>1. LinkGood(d, k)
      BY <2>3 DEF Subscribed
    <3>2. f.references[k].owner < f.next_token
      <4>1. /\ d.next_token \in Nat /\ f.next_token \in Nat /\ d.next_token <= f.next_token
            /\ d.references[k].owner \in Tokens
        BY <2>3, DeathTypes DEF LinksStay, Places
      <4>2. d.references[k].owner \in Nat
        BY <4>1, BinderAssumption DEF Tokens
      <4> QED BY <2>3, <3>1, <4>1, <4>2 DEF LinkGood
    <3>3. CASE f.references[k].death = 0
      BY <3>2, <3>3 DEF LinkGood
    <3>4. CASE f.references[k].death # 0
      <4>1. PICK i \in Slots : i = f.references[k].death
        BY <3>4, DeathTypes
      <4>2. ~Unattached(f, i)
        BY <4>1 DEF Unattached
      <4>3. f.deaths[i] = d.deaths[i]
        BY <4>2 DEF LinksStay, SlotStays, SlotEnds
      <4> QED BY <2>3, <3>1, <3>2, <3>4, <4>1, <4>3 DEF LinkGood
    <3> QED BY <3>3, <3>4
  <2> QED BY <2>1, <2>2, <2>3 DEF LinkStays
<1>3. SlotsOwn(f)
  BY <1>1 DEF Subscribed, SlotsOwn
<1>4. ASSUME NEW i \in Slots PROVE SlotGood(f, x, i)
  <2>1. CASE SlotEnds(d, f, i)
    BY <2>1 DEF SlotEnds, SlotGood, NoDeath
  <2>2. CASE SlotStays(d, f, i)
    <3>1. Unattached(f, i) <=> Unattached(d, i)
      BY <1>1, <2>2 DEF SlotStays, Attached, Unattached
    <3>2. SlotGood(d, x, i) /\ Places(d, f) /\ f.deaths[i] = d.deaths[i]
      BY <2>2 DEF Subscribed, LinksStay, SlotStays
    <3> QED BY <3>1, <3>2, SlotKept
  <2> QED BY <2>1, <2>2 DEF LinksStay
<1> QED BY <1>2, <1>3, <1>4 DEF Subscribed

\* An operation that does not touch references and subscriptions.
LEMMA SameLinks ==
  ASSUME NEW d \in Device, NEW f \in Device, Places(d, f),
         f.references = d.references, f.deaths = d.deaths
  PROVE LinksStay(d, f)
  BY DEF LinksStay, LinkStays, SlotStays, Attached

LEMMA SameCallsPlaces ==
  ASSUME NEW d \in Device, NEW f, SameCalls(d, f)
  PROVE Places(d, f)
<1>1. d.next_token \in Nat
  BY DeathTypes
<1> QED BY <1>1 DEF SameCalls, Places

LEMMA FlowPlaces ==
  ASSUME NEW d \in Device, NEW f \in Device, SameFlow(d, f), d.next_token <= f.next_token
  PROVE Places(d, f)
  BY DEF Places, SameFlow, SameTalk, SameBuffers

\* What the operations on references and holds do to subscriptions.
LEMMA CollectLinks ==
  ASSUME NEW d \in Device, NEW f, f = collect_nodes(d)
  PROVE f \in Device /\ LinksStay(d, f)
<1>1. f \in Device /\ SameCalls(d, f) /\ f.references = d.references /\ f.deaths = d.deaths
  BY CollectFacts
<1> QED BY <1>1, SameCallsPlaces, SameLinks

\* The references in K are gone, every one with its subscription.
LinksWithout(d, f, K) ==
  /\ K \subseteq DOMAIN d.references
  /\ \A k : k \in DOMAIN f.references <=> k \in DOMAIN d.references /\ k \notin K
  /\ \A k \in DOMAIN f.references :
       /\ f.references[k].death = d.references[k].death
       /\ f.references[k].owner = d.references[k].owner
  /\ \A i \in Slots : f.deaths[i] = IF \E k \in K : d.references[k].death = i
                                     THEN NoDeath ELSE d.deaths[i]

LEMMA LinksGo ==
  ASSUME NEW d \in Device, SlotsOwn(d), NEW f \in Device, Places(d, f),
         NEW K, LinksWithout(d, f, K)
  PROVE LinksStay(d, f)
<1>0. /\ \A k : k \in DOMAIN f.references <=> k \in DOMAIN d.references /\ k \notin K
      /\ \A k \in DOMAIN f.references :
           /\ f.references[k].death = d.references[k].death
           /\ f.references[k].owner = d.references[k].owner
      /\ \A i \in Slots : f.deaths[i] = IF \E k \in K : d.references[k].death = i
                                         THEN NoDeath ELSE d.deaths[i]
      /\ K \subseteq DOMAIN d.references
  BY DEF LinksWithout
<1>1. ASSUME NEW k \in DOMAIN f.references PROVE LinkStays(d, f, k)
  BY <1>0 DEF LinkStays
<1>2. ASSUME NEW i \in Slots PROVE SlotStays(d, f, i) \/ SlotEnds(d, f, i)
  <2>1. CASE \E k \in K : d.references[k].death = i
    <3>1. PICK k \in K : d.references[k].death = i
      BY <2>1
    <3>2. Attached(d, k, i)
      BY <1>0, <3>1 DEF Attached
    <3>3. ASSUME NEW j \in DOMAIN f.references, f.references[j].death = i PROVE FALSE
      <4>1. Attached(d, j, i)
        BY <1>0, <3>3 DEF Attached
      <4>2. j = k
        BY <3>2, <4>1 DEF SlotsOwn
      <4> QED BY <1>0, <3>1, <3>3, <4>2
    <3>4. SlotEnds(d, f, i)
      BY <1>0, <2>1, <3>2, <3>3 DEF SlotEnds, Unattached, Attached
    <3> QED BY <3>4
  <2>2. CASE ~\E k \in K : d.references[k].death = i
    BY <1>0, <2>2 DEF SlotStays, Attached
  <2> QED BY <2>1, <2>2
<1> QED BY <1>1, <1>2 DEF LinksStay

LEMMA DropLinks ==
  ASSUME NEW d \in Device, SlotsOwn(d), NEW K, K \subseteq DOMAIN d.references,
         NEW f, f = drop_references(d, K)
  PROVE f \in Device /\ LinksStay(d, f)
<1>1. f \in Device /\ SameCalls(d, f)
  BY DropFacts
<1>2. /\ \A k : k \in DOMAIN f.references <=> k \in DOMAIN d.references /\ k \notin K
      /\ \A k \in DOMAIN f.references : f.references[k] = d.references[k]
      /\ \A i \in Slots : f.deaths[i] = IF \E k \in K : d.references[k].death = i
                                        THEN NoDeath ELSE d.deaths[i]
  BY DropFacts
<1>3. Places(d, f)
  BY <1>1, SameCallsPlaces
<1>4. \A k \in DOMAIN f.references :
        /\ f.references[k].death = d.references[k].death
        /\ f.references[k].owner = d.references[k].owner
  BY <1>2
<1>5. LinksWithout(d, f, K)
  BY <1>2, <1>4 DEF LinksWithout
<1> QED BY <1>1, <1>3, <1>5, LinksGo

LEMMA ReleaseLinks ==
  ASSUME NEW d \in Device, SlotsOwn(d), Bounded(d), NodesKnown(d),
         NEW C \in SUBSET d.claims, NEW f, f = release_claims(d, C)
  PROVE f \in Device /\ LinksStay(d, f)
<1>1. f \in Device /\ SameCalls(d, f)
  BY ReleaseFacts
<1>2. /\ \A k : k \in DOMAIN f.references <=> k \in DOMAIN d.references /\ k \notin Idle(d, C)
      /\ \A k \in DOMAIN f.references : f.references[k] = GivenBack(d, C, k)
  BY ReleaseFacts
<1>3. \A i \in Slots : f.deaths[i] = IF \E k \in Idle(d, C) : d.references[k].death = i
                                     THEN NoDeath ELSE d.deaths[i]
  BY ReleaseFacts
<1>4. Places(d, f)
  BY <1>1, SameCallsPlaces
<1>5. ASSUME NEW k \in DOMAIN f.references
      PROVE /\ f.references[k].death = d.references[k].death
            /\ f.references[k].owner = d.references[k].owner
  <2>1. k \in DOMAIN d.references /\ f.references[k] = GivenBack(d, C, k)
    BY <1>2
  <2>2. IsFiniteSet(d.claims)
    BY DEF Bounded
  <2>3. LET a == d.references[k]
            b == GivenBack(d, C, k) IN b.death = a.death /\ b.owner = a.owner
    BY <2>1, <2>2, GivenBackFacts
  <2> QED BY <2>1, <2>3
<1>6. Idle(d, C) \subseteq DOMAIN d.references
  BY DEF Idle, Unreferenced
<1>7. PICK K : K = Idle(d, C)
  OBVIOUS
<1>8. LinksWithout(d, f, K)
  BY <1>2, <1>3, <1>5, <1>6, <1>7 DEF LinksWithout
<1> QED BY <1>1, <1>4, <1>8, LinksGo

LEMMA EnsuredLinks ==
  ASSUME NEW d \in Device, TokensGiven(d), NEW e, NEW n \in DOMAIN d.nodes,
         NEW f, Ensured(d, f, e, n)
  PROVE f \in Device /\ LinksStay(d, f)
<1>1. f \in Device /\ SameCalls(d, f) /\ f.deaths = d.deaths
  BY DEF Ensured
<1>2. Places(d, f)
  BY <1>1, SameCallsPlaces
<1>3. \A k \in DOMAIN d.references : k \in DOMAIN f.references /\ f.references[k] = d.references[k]
  BY DEF Ensured, AlsoRefers
<1>4. ASSUME NEW k \in DOMAIN f.references PROVE LinkStays(d, f, k)
  <2>1. CASE k \in DOMAIN d.references
    BY <1>3, <2>1 DEF LinkStays
  <2>2. CASE k \notin DOMAIN d.references
    <3>1. k = <<e, n>>
      BY <1>4, <2>2 DEF Ensured, AlsoRefers
    <3>2. PICK h \in Nat : f.references[<<e, n>>] = NewReference(d.nodes[n].owner, h)
      BY <2>2, <3>1 DEF Ensured, Imported
    <3>3. f.references[k].death = 0 /\ f.references[k].owner = d.nodes[n].owner
      BY <3>1, <3>2 DEF NewReference
    <3>4. d.nodes[n].owner < f.next_token
      BY <1>1 DEF TokensGiven, SameCalls
    <3> QED BY <3>3, <3>4 DEF LinkStays
  <2> QED BY <2>1, <2>2
<1>5. ASSUME NEW i \in Slots PROVE SlotStays(d, f, i)
  BY <1>1, <1>3 DEF SlotStays, Attached
<1> QED BY <1>1, <1>2, <1>4, <1>5 DEF LinksStay

\* Only what a reference counts changes.
LEMMA CountLinks ==
  ASSUME NEW d \in Device, NEW f \in Device, SameCalls(d, f), f.deaths = d.deaths,
         DOMAIN f.references = DOMAIN d.references,
         \A k \in DOMAIN d.references : /\ f.references[k].death = d.references[k].death
                                       /\ f.references[k].owner = d.references[k].owner
  PROVE LinksStay(d, f)
<1>1. Places(d, f)
  BY SameCallsPlaces
<1> QED BY <1>1 DEF LinksStay, LinkStays, SlotStays, Attached

LEMMA AddHoldLinks ==
  ASSUME NEW d \in Device, Bounded(d), NEW c \in Claim,
         Cardinality(d.claims) # ClaimLimit, NEW f, f = AddHold(d, c)
  PROVE f \in Device /\ LinksStay(d, f)
<1>1. /\ f \in Device /\ SameCalls(d, f)
      /\ f.references = d.references /\ f.deaths = d.deaths
  BY AddHoldFacts
<1> QED BY <1>1, SameCallsPlaces, SameLinks

LEMMA AddClaimLinks ==
  ASSUME NEW s \in Attempts, Sound(s.dev, 0), NEW e \in Tokens,
         NEW b \in Buffers, NEW index \in Nat, NEW n \in DOMAIN s.dev.nodes,
         NEW remote \in BOOLEAN, NEW g, g = add_claim(s, e, b, index, n, remote)
  PROVE g \in Attempts /\ LinksStay(s.dev, g.dev)
<1>0. PICK d : d = s.dev
  OBVIOUS
<1>1. d \in Device /\ Bounded(d) /\ NodesKnown(d) /\ TokensGiven(d)
  BY <1>0, SoundFacts DEF Sound, Known
<1>2. n \in NodeIds
  BY <1>0, <1>1, NodeTable
<1>3. CASE g = PutError(s, "ENOMEM")
  <2>1. g \in Attempts /\ g.dev = d
    BY <1>0, <1>3, AttemptFacts
  <2> QED BY <1>0, <1>1, <2>1, SameCallsPlaces, SameLinks DEF SameCalls
<1>4. CASE HeldLocally(s, g, e, b, index, n)
  <2>1. PICK c : c = Hold(e, b, index, n, 0, FALSE)
    OBVIOUS
  <2>2. c \in Claim
    BY <1>2, <2>1, HoldFacts
  <2>3. PICK f : f = AddHold(d, c)
    OBVIOUS
  <2>4. f \in Device /\ LinksStay(d, f)
    BY <1>0, <1>1, <1>4, <2>2, <2>3, AddHoldLinks DEF HeldLocally
  <2>5. g = PutDevice(s, f)
    BY <1>0, <1>4, <2>1, <2>3 DEF HeldLocally
  <2> QED BY <1>0, <2>4, <2>5, AttemptFacts
<1>5. ASSUME NEW a, HeldRemotely(s, g, a, e, b, index, n)
      PROVE g \in Attempts /\ LinksStay(s.dev, g.dev)
  <2>1. /\ Cardinality(d.claims) # ClaimLimit /\ ReferenceAvailable(d, e, n)
        /\ a = ensure_reference(d, e, n)
        /\ a.references[<<e, n>>].temporary_strong # CountMax
    BY <1>0, <1>5 DEF HeldRemotely
  <2>2. Ensured(d, a, e, n)
    BY <1>0, <1>1, <2>1, EnsureFacts
  <2>3. /\ a \in Device /\ LinksStay(d, a) /\ Bounded(a) /\ a.claims = d.claims
        /\ <<e, n>> \in DOMAIN a.references
    BY <1>0, <1>1, <2>2, EnsuredLinks DEF Ensured, AlsoRefers
  <2>4. PICK q : q = CountUse(a, <<e, n>>)
    OBVIOUS
  <2>5. /\ q \in Device /\ SameCalls(a, q) /\ Bounded(q)
        /\ q.claims = a.claims /\ q.deaths = a.deaths
        /\ DOMAIN q.references = DOMAIN a.references
        /\ \A y \in DOMAIN a.references : y # <<e, n>> => q.references[y] = a.references[y]
        /\ q.references[<<e, n>>].owner = a.references[<<e, n>>].owner
        /\ q.references[<<e, n>>].death = a.references[<<e, n>>].death
    BY <2>1, <2>3, <2>4, CountUseFacts
  <2>6. LinksStay(a, q)
    <3>1. \A k \in DOMAIN a.references : /\ q.references[k].death = a.references[k].death
                                         /\ q.references[k].owner = a.references[k].owner
      BY <2>5
    <3> QED BY <2>3, <2>5, <3>1, CountLinks
  <2>7. PICK c : c = Hold(e, b, index, n, a.references[<<e, n>>].handle, TRUE)
    OBVIOUS
  <2>8. c \in Claim
    <3>1. a.references[<<e, n>>].handle \in Nat
      BY <2>3, DeathTypes DEF Reference
    <3> QED BY <1>2, <2>7, <3>1, HoldFacts
  <2>9. PICK f : f = AddHold(q, c)
    OBVIOUS
  <2>10. f \in Device /\ LinksStay(q, f)
    BY <2>1, <2>3, <2>5, <2>8, <2>9, AddHoldLinks
  <2>11. LinksStay(d, f)
    BY <1>1, <2>3, <2>5, <2>6, <2>10, LinksTrans
  <2>12. g = PutDevice(s, f)
    BY <1>5, <2>4, <2>7, <2>9 DEF HeldRemotely
  <2> QED BY <1>0, <2>10, <2>11, <2>12, AttemptFacts
<1> QED BY <1>0, <1>1, <1>3, <1>4, <1>5, AddClaimCases

\* The threads of every endpoint are those that were there.
SameThreads(d, f) == \A u \in Tokens : DOMAIN f.threads[u] = DOMAIN d.threads[u]

LEMMA LinksRefl ==
  ASSUME NEW d \in Device
  PROVE LinksStay(d, d)
<1>1. SameCalls(d, d)
  BY DEF SameCalls
<1> QED BY <1>1, SameCallsPlaces, SameLinks

LEMMA OwnersPlaces ==
  ASSUME NEW d \in Device, NEW f \in Device, f.next_token = d.next_token,
         SameOwners(d, f), SameThreads(d, f)
  PROVE Places(d, f)
<1>1. d.next_token \in Nat
  BY DeathTypes
<1> QED BY <1>1 DEF SameOwners, SameThreads, Places

LEMMA ObjectsLinks ==
  ASSUME NEW d \in Device, NEW f \in Device, SameObjects(d, f), SameOwners(d, f),
         SameThreads(d, f)
  PROVE LinksStay(d, f)
<1>1. f.next_token = d.next_token /\ f.references = d.references /\ f.deaths = d.deaths
  BY DEF SameObjects
<1>2. Places(d, f)
  BY <1>1, OwnersPlaces
<1> QED BY <1>1, <1>2, SameLinks

LEMMA ArenaLinks ==
  ASSUME NEW d \in Device, NEW e \in Tokens, NEW b \in Buffers, NEW v \in States,
         NEW f, f = SetArena(d, e, b, v)
  PROVE f \in Device /\ LinksStay(d, f)
<1>1. f \in Device /\ SameObjects(d, f) /\ SameOwners(d, f) /\ f.threads = d.threads
  BY SetArenaFacts
<1>2. SameThreads(d, f)
  BY <1>1 DEF SameThreads
<1> QED BY <1>1, <1>2, ObjectsLinks

LEMMA TranslateLinks ==
  ASSUME NEW s \in Attempts, Sound(s.dev, 0), NEW e \in Tokens, endpoint_for(s.dev, e),
         NEW t \in Tids \cup {0}, NEW target \in Tokens, NEW b \in Buffers,
         NEW index \in Nat, NEW object \in Objects,
         NEW g, g = Translate(s, e, t, target, b, index, object)
  PROVE g \in Attempts /\ LinksStay(s.dev, g.dev)
<1>0. s.dev \in Device /\ Bounded(s.dev) /\ NodesKnown(s.dev)
  BY SoundFacts
<1>1. CASE Refuses(s, g)
  <2>1. g \in Attempts /\ g.dev = s.dev
    BY <1>1, RefusesFacts
  <2> QED BY <2>1, <1>0, LinksRefl
<1>2. ASSUME NEW d, NEW n, ExportsTo(s, e, t, target, b, index, object, d, n, g),
             object.kind = "BINDER"
      PROVE g \in Attempts /\ LinksStay(s.dev, g.dev)
  <2>1. d \in Device /\ Sound(d, 0) /\ n \in DOMAIN d.nodes
    BY <1>2, ExportsFacts DEF ExportsTo
  <2>2. LinksStay(s.dev, d)
    <3>1. CASE d = s.dev
      BY <1>0, <3>1, LinksRefl
    <3>2. CASE /\ NodeAvailable(s.dev)
               /\ d = create_node(s.dev, e, object.pointer, object.cookie, t, FALSE)
      <4>1. object.pointer \in Nat /\ object.cookie \in Nat
        BY <1>2 DEF Objects
      <4>2. s.dev.next_node <= NodeLimit
        BY <3>2 DEF NodeAvailable
      <4>3. PICK manager \in BOOLEAN : manager = FALSE
        OBVIOUS
      <4>4. Creates(s.dev, d, FreshNode(e, object.pointer, object.cookie, t, manager))
        BY <1>0, <3>2, <4>1, <4>2, <4>3, CreateFacts
      <4>5. SameCalls(s.dev, d) /\ d.references = s.dev.references /\ d.deaths = s.dev.deaths
        BY <4>4 DEF Creates
      <4> QED BY <1>0, <2>1, <4>5, SameCallsPlaces, SameLinks
    <3> QED BY <1>2, <3>1, <3>2 DEF ExportsTo, Exports
  <2>3. PICK u \in Attempts : u = PutDevice(s, d) /\ u.dev = d
    BY <2>1, AttemptFacts
  <2>4. PICK remote \in BOOLEAN : remote = (e # target)
    OBVIOUS
  <2>5. g = add_claim(u, target, b, index, n, remote)
    BY <1>2, <2>3, <2>4 DEF ExportsTo
  <2>6. g \in Attempts /\ LinksStay(u.dev, g.dev)
    BY <2>1, <2>3, <2>5, AddClaimLinks
  <2>7. g.dev \in Device
    BY <2>6, AttemptFacts
  <2> QED BY <1>0, <2>1, <2>2, <2>3, <2>6, <2>7, LinksTrans
<1>3. ASSUME NEW n, ForwardsTo(s, e, target, b, index, object, n, g)
      PROVE g \in Attempts /\ LinksStay(s.dev, g.dev)
  <2>1. n \in DOMAIN s.dev.nodes
    BY <1>0, <1>3, StrongNodeKnown DEF ForwardsTo
  <2>2. PICK remote \in BOOLEAN : remote = (s.dev.nodes[n].owner # target)
    OBVIOUS
  <2>3. g = add_claim(s, target, b, index, n, remote)
    BY <1>3, <2>2 DEF ForwardsTo
  <2> QED BY <2>1, <2>3, AddClaimLinks
<1> QED BY <1>1, <1>2, <1>3, TranslateCases

LEMMA TranslatedLinks ==
  ASSUME NEW s \in Attempts, Sound(s.dev, 0), NEW e \in Tokens, endpoint_for(s.dev, e),
         NEW t \in Tids \cup {0}, NEW target \in Tokens, NEW b \in Buffers,
         NEW parcel \in Seq(Objects),
         NEW g, g = Translated(s, e, t, target, b, parcel)
  PROVE g \in Attempts /\ LinksStay(s.dev, g.dev)
<1> DEFINE S == {u \in Attempts : /\ Sound(u.dev, 0) /\ Grown(s.dev, u.dev)
                                  /\ LinksStay(s.dev, u.dev)}
<1>0. s.dev \in Device
  BY AttemptFacts
<1>1. s \in S
  BY <1>0, GrownRefl, LinksRefl
<1>2. ASSUME NEW u \in S, NEW i \in DOMAIN parcel
      PROVE Translate(u, e, t, target, b, i, parcel[i]) \in S
  <2>1. i \in Nat /\ parcel[i] \in Objects
    OBVIOUS
  <2>2. /\ u \in Attempts /\ Sound(u.dev, 0) /\ Grown(s.dev, u.dev) /\ u.dev \in Device
        /\ LinksStay(s.dev, u.dev)
    BY AttemptFacts
  <2>3. endpoint_for(u.dev, e)
    BY <2>2 DEF Grown, SameCalls, endpoint_for
  <2>4. PICK v : v = Translate(u, e, t, target, b, i, parcel[i])
    OBVIOUS
  <2>5. v \in Attempts /\ Sound(v.dev, 0) /\ Grown(u.dev, v.dev)
    BY <2>1, <2>2, <2>3, <2>4, TranslateGrows
  <2>6. LinksStay(u.dev, v.dev)
    BY <2>1, <2>2, <2>3, <2>4, TranslateLinks
  <2>7. v.dev \in Device
    BY <2>5, AttemptFacts
  <2>8. Grown(s.dev, v.dev)
    BY <1>0, <2>2, <2>5, <2>7, GrownTrans
  <2>9. LinksStay(s.dev, v.dev)
    BY <1>0, <2>2, <2>6, <2>7, LinksTrans
  <2> QED BY <2>4, <2>5, <2>8, <2>9
<1>3. g \in S
  <2> HIDE DEF S
  <2> QED BY <1>1, <1>2, TranslatedInduct
<1> QED BY <1>3

LEMMA SoundGiven ==
  ASSUME NEW x, NEW d, Sound(d, x)
  PROVE TokensGiven(d)
  BY DEF Sound, Known

LEMMA ReserveLinks ==
  ASSUME NEW d, Sound(d, 0), Subscribed(d, 0), NEW e \in Tokens, endpoint_for(d, e),
         NEW t \in Tids \cup {0}, NEW target \in Tokens,
         NEW n, n = 0 \/ n \in DOMAIN d.nodes, NEW parcel \in Seq(Objects),
         NEW s, s = reserve_payload(d, e, t, target, n, parcel)
  PROVE s.dev \in Device /\ LinksStay(d, s.dev)
<1>0. d \in Device /\ Bounded(d) /\ NodesKnown(d) /\ TokensGiven(d)
  BY SoundFacts, SoundGiven
<1>1. CASE Rejects(d, s)
  <2>1. s.dev = d
    BY <1>1 DEF Rejects
  <2> QED BY <1>0, <2>1, LinksRefl
<1>2. ASSUME NEW b, NEW u, Reserves(d, e, t, target, n, parcel, b, u, s)
      PROVE s.dev \in Device /\ LinksStay(d, s.dev)
  <2>1. b \in Buffers
    BY <1>2, FreeBufferFound DEF Reserves, Admits
  <2>2. PICK r : r = SetArena(d, target, b, "reserved")
    OBVIOUS
  <2>3. PICK v : v = FirstHold(d, target, b, n)
    OBVIOUS
  <2>4. /\ r \in Device /\ Sound(r, 0) /\ SameOwners(d, r) /\ r.nodes = d.nodes
        /\ v \in Attempts /\ Sound(v.dev, 0) /\ Grown(r, v.dev)
    BY <2>1, <2>2, <2>3, ReservedFacts DEF SameObjects
  <2>5. LinksStay(d, r)
    BY <1>0, <2>1, <2>2, ArenaLinks DEF States
  <2>6. LinksStay(r, v.dev)
    <3>1. PICK q \in Attempts : q = Reserved(d, target, b) /\ q.dev = r
      <4>1. PICK q : q = [dev |-> r, error |-> "OK"]
        OBVIOUS
      <4>2. q = Reserved(d, target, b)
        BY <2>2, <4>1 DEF Reserved
      <4>3. q \in Attempts /\ q.dev = r
        <5> HIDE DEF Device
        <5> QED BY <2>4, <4>1 DEF Attempts
      <4> QED BY <4>2, <4>3
    <3>2. CASE n # 0 /\ ~d.nodes[n].manager
      <4>1. PICK remote \in BOOLEAN : remote = FALSE
        OBVIOUS
      <4>2. PICK index \in Nat : index = 0
        OBVIOUS
      <4>3. v = add_claim(q, target, b, index, n, remote)
        BY <2>3, <3>1, <3>2, <4>1, <4>2 DEF FirstHold
      <4>4. n \in DOMAIN q.dev.nodes
        BY <2>4, <3>1, <3>2
      <4> QED BY <2>1, <2>4, <3>1, <4>3, <4>4, AddClaimLinks
    <3>3. CASE ~(n # 0 /\ ~d.nodes[n].manager)
      <4>1. v = q
        BY <2>3, <3>1, <3>3 DEF FirstHold
      <4> QED BY <2>4, <3>1, <4>1, LinksRefl
    <3> QED BY <3>2, <3>3
  <2>7. endpoint_for(v.dev, e)
    BY <2>4 DEF Grown, SameCalls, SameOwners, endpoint_for
  <2>8. u = Translated(v, e, t, target, b, parcel)
    BY <1>2, <2>3 DEF Reserves
  <2>9. u \in Attempts /\ Sound(u.dev, 0) /\ LinksStay(v.dev, u.dev)
    BY <2>1, <2>4, <2>7, <2>8, TranslatedGrows, TranslatedLinks
  <2>10. v.dev \in Device /\ u.dev \in Device
    BY <2>4, <2>9, AttemptFacts
  <2>11. LinksStay(d, u.dev)
    <3>1. LinksStay(d, v.dev)
      BY <1>0, <2>4, <2>5, <2>6, <2>10, LinksTrans
    <3> QED BY <1>0, <2>9, <2>10, <3>1, LinksTrans
  <2>12. CASE u.error = "OK"
    <3>1. s = u
      BY <1>2, <2>12 DEF Reserves
    <3> QED BY <2>10, <2>11, <3>1
  <2>13. CASE u.error # "OK"
    <3>1. s = Unwound(u, target, b)
      BY <1>2, <2>13 DEF Reserves
    <3>2. PICK C \in SUBSET u.dev.claims : C = ClaimsOf(u.dev, target, b)
      BY DEF ClaimsOf
    <3>3. PICK w : w = release_claims(u.dev, C)
      OBVIOUS
    <3>4. PICK z : z = SetArena(w, target, b, "free")
      OBVIOUS
    <3>5. Bounded(u.dev) /\ NodesKnown(u.dev) /\ SlotsOwn(u.dev)
      <4>1. Subscribed(u.dev, 0)
        BY <1>0, <2>10, <2>11, LinksKeep
      <4> QED BY <2>9, <4>1, SoundFacts DEF Subscribed
    <3>6. w \in Device /\ LinksStay(u.dev, w)
      BY <2>10, <3>2, <3>3, <3>5, ReleaseLinks
    <3>7. z \in Device /\ LinksStay(w, z)
      BY <2>1, <3>4, <3>6, ArenaLinks DEF States
    <3>8. LinksStay(d, z)
      <4>1. LinksStay(d, w)
        BY <1>0, <2>10, <2>11, <3>6, LinksTrans
      <4> QED BY <1>0, <3>6, <3>7, <4>1, LinksTrans
    <3>9. s.dev = z
      BY <2>9, <3>1, <3>2, <3>3, <3>4, <3>7, AttemptFacts DEF Unwound
    <3> QED BY <3>7, <3>8, <3>9
  <2> QED BY <2>12, <2>13
<1> QED BY <1>1, <1>2, ReserveCases

\* What the write commands do to subscriptions.

LEMMA OneThreadLinks ==
  ASSUME NEW d \in Device, NEW e \in Tokens, NEW t, NEW f, OneThread(d, f, e, t)
  PROVE f \in Device /\ LinksStay(d, f)
<1>1. f \in Device /\ SameObjects(d, f) /\ SameOwners(d, f) /\ SameThreads(d, f)
  BY DEF OneThread, SameThreads
<1> QED BY <1>1, ObjectsLinks

LEMMA FailedLinks ==
  ASSUME NEW d, NEW e, NEW t, InCall(d, e, t),
         NEW error \in {None, "DEAD_REPLY", "FAILED_REPLY"}, NEW f, f = Failed(d, e, t, error)
  PROVE f \in Device /\ LinksStay(d, f)
<1>1. d \in Device /\ e \in Tokens
  BY InCallFacts
<1>2. OneThread(d, f, e, t)
  BY FailsInCall
<1> QED BY <1>1, <1>2, OneThreadLinks

LEMMA CompletedLinks ==
  ASSUME NEW d, NEW e, NEW t, InCall(d, e, t), d.threads[e][t].completions # PacketLimit,
         NEW f, f = Completed(d, e, t)
  PROVE f \in Device /\ LinksStay(d, f)
<1>1. d \in Device /\ e \in Tokens /\ t \in DOMAIN d.threads[e] /\ Sound(d, 0)
  BY InCallFacts DEF InCall
<1>2. OneThread(d, f, e, t)
  BY <1>1, CompletedFacts
<1> QED BY <1>1, <1>2, OneThreadLinks

\* Sent is what the device r becomes when a packet is queued.
SentFrom(r, Sent, e, t) ==
  /\ InCall(Sent, e, t) /\ LinksStay(r, Sent)
  /\ Sent.threads[e][t].completions # PacketLimit

LEMMA QueuedLinks ==
  ASSUME NEW d \in Device, NEW e, NEW t, NEW s \in Attempts, InCall(s.dev, e, t),
         LinksStay(d, s.dev), NEW Sent, s.error = "OK" => SentFrom(s.dev, Sent, e, t),
         NEW g, g = Queued(s, e, t, Sent)
  PROVE g \in Device /\ LinksStay(d, g)
<1>0. PICK r : r = s.dev
  OBVIOUS
<1>1. r \in Device /\ InCall(r, e, t) /\ LinksStay(d, r)
  BY <1>0, InCallFacts
<1>2. CASE s.error = "EINVAL"
  <2>1. g = Failed(r, e, t, "FAILED_REPLY")
    BY <1>0, <1>2 DEF Queued
  <2>2. g \in Device /\ LinksStay(r, g)
    BY <1>1, <2>1, FailedLinks
  <2> QED BY <1>1, <2>2, LinksTrans
<1>3. CASE s.error # "EINVAL" /\ s.error # "OK"
  BY <1>0, <1>1, <1>3 DEF Queued
<1>4. CASE s.error = "OK"
  <2>1. g = Completed(Sent, e, t)
    BY <1>4 DEF Queued
  <2>2. InCall(Sent, e, t) /\ LinksStay(r, Sent) /\ Sent.threads[e][t].completions # PacketLimit
    BY <1>0, <1>4 DEF SentFrom
  <2>3. g \in Device /\ LinksStay(Sent, g)
    BY <2>1, <2>2, CompletedLinks
  <2>4. Sent \in Device
    BY <2>2, InCallFacts
  <2>5. LinksStay(d, Sent)
    BY <1>1, <2>2, <2>4, LinksTrans
  <2> QED BY <2>3, <2>4, <2>5, LinksTrans
<1> QED BY <1>2, <1>3, <1>4

LEMMA SentLinks ==
  ASSUME NEW r, NEW e, NEW t, InCall(r, e, t), NEW n \in DOMAIN r.nodes, NEW b \in Buffers,
         Len(r.work) # PacketLimit, r.threads[e][t].completions # PacketLimit,
         NEW oneway \in BOOLEAN, ~oneway => r.next_transaction <= TxnLimit,
         NEW f, f = IF oneway THEN SendOneWay(r, n, b) ELSE SendCall(r, e, t, n, b)
  PROVE SentFrom(r, f, e, t)
<1>0. r \in Device /\ e \in Tokens /\ Sound(r, 0) /\ endpoint_for(r, e)
      /\ t \in DOMAIN r.threads[e]
  BY InCallFacts DEF InCall
<1>1. CASE oneway
  <2>1. f = SendOneWay(r, n, b)
    BY <1>1
  <2>2. /\ Sound(f, 0) /\ f \in Device /\ f.next_token = r.next_token
        /\ f.endpoints = r.endpoints /\ f.threads = r.threads
        /\ f.references = r.references /\ f.deaths = r.deaths
    BY <1>0, <2>1, SendOneWayFacts
  <2>3. InCall(f, e, t)
    BY <1>0, <2>2 DEF InCall, endpoint_for
  <2>4. SameOwners(r, f) /\ SameThreads(r, f)
    BY <2>2 DEF SameOwners, SameThreads
  <2>5. LinksStay(r, f)
    BY <1>0, <2>2, <2>4, OwnersPlaces, SameLinks
  <2> QED BY <2>2, <2>3, <2>5 DEF SentFrom
<1>2. CASE ~oneway
  <2>1. f = SendCall(r, e, t, n, b)
    BY <1>2
  <2>2. /\ Sound(f, 0) /\ f \in Device /\ SameObjects(r, f) /\ SameOwners(r, f)
        /\ f.endpoints = r.endpoints
        /\ \A u \in Tokens : DOMAIN f.threads[u] = DOMAIN r.threads[u]
        /\ SameButCalls(r.threads[e][t], f.threads[e][t])
    BY <1>0, <1>2, <2>1, SendCallFacts
  <2>3. InCall(f, e, t)
    BY <1>0, <2>2 DEF InCall, endpoint_for
  <2>4. SameThreads(r, f)
    BY <2>2 DEF SameThreads
  <2>5. LinksStay(r, f)
    BY <1>0, <2>2, <2>4, ObjectsLinks
  <2> QED BY <2>2, <2>3, <2>5 DEF SentFrom, SameButCalls
<1> QED BY <1>1, <1>2

LEMMA TransferLinks ==
  ASSUME NEW d, NEW e, NEW t, InCall(d, e, t), Subscribed(d, 0), NEW h,
         NEW oneway \in BOOLEAN, NEW parcel \in Seq(Objects),
         NEW g, g = transfer_packet(d, e, t, h, oneway, parcel)
  PROVE g \in Device /\ LinksStay(d, g)
<1>0. d \in Device /\ e \in Tokens /\ t \in Tids /\ Sound(d, 0) /\ endpoint_for(d, e)
  BY InCallFacts DEF InCall
<1>1. CASE Fails(d, e, t, g)
  <2>1. PICK error \in {None, "DEAD_REPLY", "FAILED_REPLY"} : g = Failed(d, e, t, error)
    BY <1>1 DEF Fails
  <2> QED BY <2>1, FailedLinks
<1>2. ASSUME NEW n, NEW s, Sends(d, e, t, oneway, parcel, n, s, g)
      PROVE g \in Device /\ LinksStay(d, g)
  <2>1. PICK target : target = d.nodes[n].owner
    OBVIOUS
  <2>2. PICK b : b = Min(FreeBuffers(d, target))
    OBVIOUS
  <2>3. PICK Sent : Sent = IF oneway THEN SendOneWay(s.dev, n, b) ELSE SendCall(s.dev, e, t, n, b)
    OBVIOUS
  <2>4. /\ ~Full(d, e, t) /\ n # 0 /\ n \in DOMAIN d.nodes
        /\ endpoint_for(d, target)
        /\ ~oneway => d.next_transaction <= TxnLimit
        /\ s = reserve_payload(d, e, t, target, n, parcel)
        /\ g = Queued(s, e, t, Sent)
    BY <1>2, <2>1, <2>2, <2>3 DEF Sends
  <2>5. target \in Tokens
    BY <2>4 DEF endpoint_for
  <2>6. /\ s \in Attempts /\ InCall(s.dev, e, t) /\ SameTraffic(d, s.dev)
        /\ s.error = "OK" => n \in DOMAIN s.dev.nodes /\ TookFirst(d, s.dev, target)
    BY <2>4, <2>5, ReserveInCall
  <2>7. LinksStay(d, s.dev)
    BY <1>0, <2>4, <2>5, ReserveLinks
  <2>8. ASSUME s.error = "OK" PROVE SentFrom(s.dev, Sent, e, t)
    <3>1. PICK r : r = s.dev
      OBVIOUS
    <3>2. /\ r.threads = d.threads /\ r.work = d.work
          /\ r.next_transaction = d.next_transaction
      BY <2>6, <3>1 DEF SameTraffic
    <3>3. /\ InCall(r, e, t) /\ n \in DOMAIN r.nodes /\ b \in Buffers
          /\ Len(r.work) # PacketLimit /\ r.threads[e][t].completions # PacketLimit
          /\ ~oneway => r.next_transaction <= TxnLimit
          /\ Sent = IF oneway THEN SendOneWay(r, n, b) ELSE SendCall(r, e, t, n, b)
      BY <2>2, <2>3, <2>4, <2>6, <2>8, <3>1, <3>2 DEF Full, TookFirst
    <3> QED BY <3>1, <3>3, SentLinks
  <2> QED BY <1>0, <2>4, <2>6, <2>7, <2>8, QueuedLinks
<1>3. CASE g = d
  BY <1>0, <1>3, LinksRefl
<1> QED BY <1>0, <1>1, <1>2, <1>3, TransferCases

LEMMA ReplyObjects ==
  ASSUME NEW d, NEW e, NEW t, InCall(d, e, t), NEW x, NEW b, NEW f, f = SendReply(d, e, t, x, b)
  PROVE f.next_token = d.next_token /\ f.references = d.references /\ f.deaths = d.deaths
<1>1. d \in Device
  BY InCallFacts
<1>2. PICK g : g = [d EXCEPT !.threads[e][t].incoming = 0]
  OBVIOUS
<1>3. g.next_token = d.next_token /\ g.references = d.references /\ g.deaths = d.deaths
  BY <1>1, <1>2 DEF Device
<1>4. f.next_token = g.next_token /\ f.references = g.references /\ f.deaths = g.deaths
  BY <1>1, <1>2 DEF SendReply, Device
<1> QED BY <1>3, <1>4

LEMMA ReplyLinks ==
  ASSUME NEW d, NEW e, NEW t, InCall(d, e, t), Subscribed(d, 0),
         NEW parcel \in Seq(Objects), NEW g, g = reply_packet(d, e, t, parcel)
  PROVE g \in Device /\ LinksStay(d, g)
<1>0. d \in Device /\ e \in Tokens /\ t \in Tids /\ d.threads[e][t] \in Thread
      /\ t \in DOMAIN d.threads[e] /\ Sound(d, 0) /\ endpoint_for(d, e)
  BY InCallFacts DEF InCall
<1>1. CASE g = Failed(DeadReply(d, e, t), e, t, "DEAD_REPLY")
  <2>0. PICK th : th = [d.threads[e][t] EXCEPT !.dead_reply = FALSE]
    OBVIOUS
  <2>1. th \in Thread /\ th.active = d.threads[e][t].active
    BY <1>0, <2>0, ThreadFlags
  <2>2. PICK f : f = PutThread(d, e, t, th)
    OBVIOUS
  <2>3. InCall(f, e, t) /\ OneThread(d, f, e, t)
    BY <1>0, <2>1, <2>2, PutThreadInCall DEF MaySleep
  <2>4. g = Failed(f, e, t, "DEAD_REPLY")
    BY <1>1, <2>0, <2>2 DEF DeadReply
  <2>5. g \in Device /\ LinksStay(f, g)
    BY <2>3, <2>4, FailedLinks
  <2>6. f \in Device /\ LinksStay(d, f)
    BY <1>0, <2>3, OneThreadLinks
  <2> QED BY <1>0, <2>5, <2>6, LinksTrans
<1>2. ASSUME NEW x, NEW s, Replies(d, e, t, parcel, x, s, g)
      PROVE g \in Device /\ LinksStay(d, g)
  <2>1. PICK b : b = Min(FreeBuffers(d, x.source))
    OBVIOUS
  <2>2. PICK Sent : Sent = SendReply(s.dev, e, t, x, b)
    OBVIOUS
  <2>3. /\ ~Full(d, e, t) /\ x \in d.transactions
        /\ thread_for(d, x.source, x.source_tid)
        /\ s = reserve_payload(d, e, t, x.source, 0, parcel)
        /\ g = Queued(s, e, t, Sent)
    BY <1>2, <2>1, <2>2 DEF Replies
  <2>4. PICK target \in Tokens : target = x.source
    BY <2>3 DEF thread_for, endpoint_for
  <2>5. PICK n : n = 0
    OBVIOUS
  <2>6. s = reserve_payload(d, e, t, target, n, parcel)
    BY <2>3, <2>4, <2>5
  <2>7. /\ s \in Attempts /\ InCall(s.dev, e, t) /\ SameTraffic(d, s.dev)
        /\ s.error = "OK" => TookFirst(d, s.dev, target)
    BY <2>5, <2>6, ReserveInCall
  <2>8. LinksStay(d, s.dev)
    BY <1>0, <2>5, <2>6, ReserveLinks
  <2>9. ASSUME s.error = "OK" PROVE SentFrom(s.dev, Sent, e, t)
    <3>1. PICK r : r = s.dev
      OBVIOUS
    <3>2. /\ r.threads = d.threads /\ r.work = d.work /\ r.transactions = d.transactions
      BY <2>7, <3>1 DEF SameTraffic
    <3>3. /\ InCall(r, e, t) /\ x \in r.transactions /\ b \in Buffers
          /\ x.source_tid \in DOMAIN r.threads[x.source]
          /\ Len(r.work) # PacketLimit /\ r.threads[e][t].completions # PacketLimit
          /\ Sent = SendReply(r, e, t, x, b)
      BY <2>1, <2>2, <2>3, <2>4, <2>7, <2>9, <3>1, <3>2 DEF Full, TookFirst, thread_for
    <3>4. /\ InCall(Sent, e, t) /\ Replied(r, Sent, e, t, x, b)
          /\ Sent.threads[e][t].completions = r.threads[e][t].completions
      BY <3>3, SendReplySound
    <3>5. LinksStay(r, Sent)
      <4>1. r \in Device /\ Sent \in Device
        BY <3>3, <3>4, InCallFacts
      <4>2. /\ Sent.next_token = r.next_token
            /\ Sent.references = r.references /\ Sent.deaths = r.deaths
        BY <3>3, ReplyObjects
      <4>3. SameOwners(r, Sent) /\ SameThreads(r, Sent)
        BY <3>4 DEF Replied, SameOwners, SameThreads
      <4> QED BY <4>1, <4>2, <4>3, OwnersPlaces, SameLinks
    <3> QED BY <3>1, <3>3, <3>4, <3>5 DEF SentFrom
  <2> QED BY <1>0, <2>3, <2>7, <2>8, <2>9, QueuedLinks
<1>3. CASE g = d
  BY <1>0, <1>3, LinksRefl
<1> QED BY <1>1, <1>2, <1>3, ReplyCases

\* The other commands that leave subscriptions alone.
FlowOnly(d, f) == /\ f.next_token = d.next_token
                  /\ f.references = d.references /\ f.deaths = d.deaths

LEMMA FlowLinks ==
  ASSUME NEW d \in Device, NEW f \in Device, SameFlow(d, f), FlowOnly(d, f)
  PROVE LinksStay(d, f)
<1>1. d.next_token \in Nat
  BY DeathTypes
<1>2. Places(d, f)
  BY <1>1, FlowPlaces DEF FlowOnly
<1> QED BY <1>2, SameLinks DEF FlowOnly

LEMMA StillLinks ==
  ASSUME NEW d, NEW e, NEW t, InCall(d, e, t), NEW f, StillIn(d, f, e, t), FlowOnly(d, f)
  PROVE f \in Device /\ LinksStay(d, f)
<1>1. d \in Device /\ f \in Device /\ SameFlow(d, f)
  BY InCallFacts DEF StillIn
<1> QED BY <1>1, FlowLinks

LEMMA OneNodeLinks ==
  ASSUME NEW d \in Device, NEW f, NEW n, OneNode(d, f, n)
  PROVE f \in Device /\ LinksStay(d, f)
<1>1. f \in Device /\ SameCalls(d, f) /\ f.references = d.references /\ f.deaths = d.deaths
  BY DEF OneNode
<1> QED BY <1>1, SameCallsPlaces, SameLinks

LEMMA FreeLinks ==
  ASSUME NEW d, NEW e, NEW t, InCall(d, e, t), Subscribed(d, 0), NEW b \in Buffers,
         NEW g, g = free_packet(d, e, b)
  PROVE g \in Device /\ LinksStay(d, g)
<1>0. d \in Device /\ e \in Tokens /\ Sound(d, 0) /\ TokensGiven(d)
  BY InCallFacts, SoundGiven DEF InCall
<1>1. CASE d.endpoints[e].arena[b] # "delivered"
  <2>1. g = d
    BY <1>1 DEF free_packet
  <2> QED BY <1>0, <2>1, LinksRefl
<1>2. CASE d.endpoints[e].arena[b] = "delivered"
  <2>1. PICK f : f = BufferFreed(d, e, b)
    OBVIOUS
  <2>2. g = release_claims(f, ClaimsOf(f, e, b))
    BY <1>0, <1>2, <2>1, FreeSteps
  <2>3. /\ Sound(f, 0) /\ f \in Device /\ f.threads = d.threads /\ SameOwners(d, f)
        /\ f.references = d.references /\ f.deaths = d.deaths
    BY <1>0, <2>1, BufferFreedFacts
  <2>4. f.next_token = d.next_token
    BY <1>0, <2>1 DEF BufferFreed, PutNodes, SetArena, Device
  <2>5. SameThreads(d, f)
    BY <2>3 DEF SameThreads
  <2>6. LinksStay(d, f)
    BY <1>0, <2>3, <2>4, <2>5, OwnersPlaces, SameLinks
  <2>7. Subscribed(f, 0)
    BY <1>0, <2>3, <2>6, LinksKeep
  <2>8. PICK C \in SUBSET f.claims : C = ClaimsOf(f, e, b)
    BY DEF ClaimsOf
  <2>9. SlotsOwn(f) /\ Bounded(f) /\ NodesKnown(f)
    BY <2>3, <2>7, SoundFacts DEF Subscribed
  <2>10. g \in Device /\ LinksStay(f, g)
    BY <2>2, <2>3, <2>8, <2>9, ReleaseLinks
  <2> QED BY <1>0, <2>3, <2>6, <2>10, LinksTrans
<1> QED BY <1>1, <1>2

LEMMA LooperLinks ==
  ASSUME NEW d, NEW e, NEW t, InCall(d, e, t), NEW command,
         command \in {"ENTER", "REGISTER", "EXIT"}, NEW g, g = looper_command(d, e, t, command)
  PROVE g \in Device /\ LinksStay(d, g)
<1>1. d \in Device
  BY InCallFacts
<1>2. StillIn(d, g, e, t)
  BY LooperSound
<1>3. FlowOnly(d, g)
  <2>1. PICK L : g = [d EXCEPT !.threads[e][t].looper = L]
    BY DEF looper_command
  <2> QED BY <1>1, <2>1 DEF FlowOnly, Device
<1> QED BY <1>2, <1>3, StillLinks

LEMMA ReferenceLinks ==
  ASSUME NEW d, NEW e, NEW t, InCall(d, e, t), Subscribed(d, 0), NEW h,
         NEW strong \in BOOLEAN, NEW increment \in BOOLEAN,
         NEW g, g = reference_command(d, e, h, strong, increment)
  PROVE g \in Device /\ LinksStay(d, g)
<1>0. d \in Device /\ Bounded(d) /\ NodesKnown(d) /\ e \in Tokens /\ Sound(d, 0) /\ TokensGiven(d)
  BY InCallFacts, SoundGiven DEF InCall
<1>1. ASSUME NEW f, NEW k, Counts(d, e, h, increment, f, k), Recount(f, k, strong, increment, g)
      PROVE g \in Device /\ LinksStay(d, g)
  <2>0. StillIn(d, f, e, t) /\ k \in DOMAIN f.references
    BY <1>1, CountsSound
  <2>1. InCall(f, e, t) /\ k \in DOMAIN f.references /\ Sound(f, 0) /\ f \in Device
    BY <2>0, InCallFacts DEF InCall, StillIn
  <2>2. LinksStay(d, f)
    <3>1. CASE f = d
      BY <1>0, <3>1, LinksRefl
    <3>2. CASE /\ d.manager # 0 /\ ReferenceAvailable(d, e, d.manager_node)
               /\ f = ensure_reference(d, e, d.manager_node)
      <4>1. PICK n \in DOMAIN d.nodes : n = d.manager_node
        <5>1. ManagerKnown(d, 0) /\ d.manager \notin {0, 0}
          BY <1>0, <3>2 DEF Sound, Known
        <5>2. d.manager_node \in DOMAIN d.nodes
          BY <5>1 DEF ManagerKnown
        <5> QED BY <5>2
      <4>2. f = ensure_reference(d, e, n) /\ ReferenceAvailable(d, e, n)
        BY <3>2, <4>1
      <4>3. Ensured(d, f, e, n)
        BY <1>0, <4>2, EnsureFacts
      <4> QED BY <1>0, <4>3, EnsuredLinks
    <3> QED BY <1>1, <3>1, <3>2 DEF Counts
  <2>3. CASE g = f
    BY <2>1, <2>2, <2>3
  <2>4. ASSUME ~(increment /\ (IF strong THEN f.references[k].strong
                               ELSE f.references[k].weak) = CountMax),
               NEW a, a = PutReference(f, k, Recounted(f.references[k], strong, increment)),
               g = collect_nodes(drop_references(a, Unreferenced(a, {k})))
        PROVE g \in Device /\ LinksStay(d, g)
    <3>1. f.references[k] \in Reference
      BY <2>1, ReferenceTable
    <3>2. PICK o \in Reference : o = f.references[k]
      BY <3>1
    <3>3. PICK r \in Reference : r = Recounted(o, strong, increment)
      <4>2. CASE strong
        BY <2>4, <3>2, <4>2, BumpedFacts DEF Recounted
      <4>3. CASE ~strong
        BY <2>4, <3>2, <4>3, BumpedFacts DEF Recounted
      <4> QED BY <4>2, <4>3
    <3>4. r.death = o.death /\ r.owner = o.owner
      BY <3>2, <3>3 DEF Recounted, Reference
    <3>5. /\ Sound(a, 0) /\ SameCalls(f, a) /\ a \in Device /\ a.deaths = f.deaths
          /\ DOMAIN a.references = DOMAIN f.references
          /\ \A y \in DOMAIN f.references : y # k => a.references[y] = f.references[y]
          /\ a.references[k] = r
      BY <2>1, <2>4, <3>2, <3>3, PutReferenceSound
    <3>6. \A y \in DOMAIN f.references : /\ a.references[y].death = f.references[y].death
                                        /\ a.references[y].owner = f.references[y].owner
      BY <3>2, <3>4, <3>5
    <3>7. LinksStay(f, a)
      BY <2>1, <3>5, <3>6, CountLinks
    <3>8. LinksStay(d, a)
      BY <1>0, <2>1, <2>2, <3>5, <3>7, LinksTrans
    <3>9. SlotsOwn(a)
      <4>1. Subscribed(a, 0)
        BY <1>0, <3>5, <3>8, LinksKeep
      <4> QED BY <4>1 DEF Subscribed
    <3>10. PICK K : K = Unreferenced(a, {k})
      OBVIOUS
    <3>11. K \subseteq DOMAIN a.references
      BY <3>10 DEF Unreferenced
    <3>12. PICK b : b = drop_references(a, K)
      OBVIOUS
    <3>13. b \in Device /\ LinksStay(a, b)
      BY <3>5, <3>9, <3>11, <3>12, DropLinks
    <3>14. g = collect_nodes(b)
      BY <2>4, <3>10, <3>12
    <3>15. g \in Device /\ LinksStay(b, g)
      BY <3>13, <3>14, CollectLinks
    <3>16. LinksStay(d, b)
      BY <1>0, <3>5, <3>8, <3>13, LinksTrans
    <3> QED BY <1>0, <3>13, <3>15, <3>16, LinksTrans
  <2> QED BY <1>1, <2>3, <2>4 DEF Recount
<1>2. CASE g = d
  BY <1>0, <1>2, LinksRefl
<1> QED BY <1>1, <1>2, CountsCases

LEMMA DoneLinks ==
  ASSUME NEW d, NEW e, NEW t, InCall(d, e, t), NEW pointer, NEW cookie, NEW strong \in BOOLEAN,
         NEW g, g = node_done_command(d, e, pointer, cookie, strong)
  PROVE g \in Device /\ LinksStay(d, g)
<1>0. d \in Device /\ Sound(d, 0)
  BY InCallFacts DEF InCall
<1>1. ASSUME NEW n \in owned_node(d, e, pointer), NEW f, Settles(d, f, n, strong, g)
      PROVE g \in Device /\ LinksStay(d, g)
  <2>1. n \in DOMAIN d.nodes
    BY DEF owned_node
  <2>2. d.nodes[n] \in GoodNode
    BY <1>0, <2>1, NodeTable
  <2>3. PICK v : v = Acknowledged(d.nodes[n], strong)
    OBVIOUS
  <2>4. v \in GoodNode /\ SameNode(d.nodes[n], v)
    BY <2>2, <2>3, AcknowledgedFacts DEF SameTurn
  <2>5. f = PutNode(d, n, v)
    BY <1>1, <2>3 DEF Settles
  <2>6. Sound(f, 0) /\ OneNode(d, f, n) /\ f.nodes[n] = v
    BY <1>0, <2>1, <2>4, <2>5, OneNodeSound
  <2>7. PICK a \in {0, f.nodes[n].notification_tid} :
          g = collect_nodes(PutNode(f, n, [f.nodes[n] EXCEPT !.notification_tid = a]))
    BY <1>1 DEF Settles
  <2>8. a \in Tids \cup {0} /\ n \in DOMAIN f.nodes
    BY <2>1, <2>4, <2>6, <2>7 DEF GoodNode, Node, OneNode
  <2>9. PICK z : z = [v EXCEPT !.notification_tid = a]
    OBVIOUS
  <2>10. z \in GoodNode /\ SameNode(v, z)
    BY <2>4, <2>8, <2>9, NotifiedFacts DEF SameTurn
  <2>11. PICK h : h = PutNode(f, n, z)
    OBVIOUS
  <2>12. OneNode(f, h, n)
    BY <2>6, <2>8, <2>10, <2>11, OneNodeSound
  <2>13. g = collect_nodes(h)
    BY <2>6, <2>7, <2>9, <2>11
  <2>14. f \in Device /\ LinksStay(d, f)
    BY <1>0, <2>6, OneNodeLinks
  <2>15. h \in Device /\ LinksStay(f, h)
    BY <2>12, <2>14, OneNodeLinks
  <2>16. g \in Device /\ LinksStay(h, g)
    BY <2>13, <2>15, CollectLinks
  <2>17. LinksStay(d, h)
    BY <1>0, <2>14, <2>15, LinksTrans
  <2> QED BY <1>0, <2>15, <2>16, <2>17, LinksTrans
<1>2. CASE g = d
  BY <1>0, <1>2, LinksRefl
<1> QED BY <1>1, <1>2, DoneCases

LEMMA ManagerLinks ==
  ASSUME NEW d, NEW e, NEW t, InCall(d, e, t), NEW pointer \in Nat, NEW cookie \in Nat,
         NEW g, g = set_context_manager(d, e, pointer, cookie)
  PROVE g \in Device /\ LinksStay(d, g)
<1>1. d \in Device
  BY InCallFacts
<1>2. StillIn(d, g, e, t)
  BY ManagerSound
<1>3. FlowOnly(d, g)
  <2>1. CASE ManagerRefused(d, e, pointer)
    <3>1. g = d
      BY <2>1 DEF set_context_manager, ManagerRefused
    <3> QED BY <3>1 DEF FlowOnly
  <2>2. CASE ~ManagerRefused(d, e, pointer)
    <3>1. PICK f : f = create_node(d, e, pointer, cookie, 0, TRUE)
      OBVIOUS
    <3>2. PICK uid : g = PutManager(f, e, d.next_node, uid)
      BY <2>2, <3>1, ManagerSteps
    <3>3. PICK nn, N : f = [d EXCEPT !.next_node = nn, !.nodes = N]
      BY <3>1 DEF create_node
    <3>4. g = [d EXCEPT !.next_node = nn, !.nodes = N, !.manager = e,
                        !.manager_node = d.next_node, !.manager_uid = uid]
      BY <3>2, <3>3 DEF PutManager
    <3> QED BY <1>1, <3>4 DEF FlowOnly, Device
  <2> QED BY <2>1, <2>2
<1> QED BY <1>2, <1>3, StillLinks
=============================================================================
