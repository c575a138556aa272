------------------------- MODULE BinderArenaProofs -------------------------
(* The arena's table stays sound and the arena keeps its promise, for every  *)
(* capacity, limit, alignment and word size.                                 *)
EXTENDS BinderArena, FiniteSetTheorems, TLAPS

-----------------------------------------------------------------------------
(* Facts about the operations of Vectors.                                    *)

\* Every nonempty set of naturals has a least member.
LEMMA LeastNatural ==
  ASSUME NEW S \in SUBSET Nat, S # {}
  PROVE \E m \in S : \A n \in S : m <= n
<1> DEFINE below == {1..n : n \in S}
<1>1. below \subseteq FiniteSubsetsOf(Nat) /\ below # {}
  <2>1. ASSUME NEW n \in S PROVE 1..n \in FiniteSubsetsOf(Nat)
    <3>1. IsFiniteSet(1..n) /\ 1..n \subseteq Nat
      BY FS_Interval
    <3> QED BY <3>1 DEF FiniteSubsetsOf
  <2> QED BY <2>1
<1>2. PICK x \in below : \A y \in below : ~(<<y, x>> \in StrictSubsetOrdering(Nat))
  BY <1>1, FS_StrictSubsetOrderingWellFounded, WFMin
<1>3. PICK m \in S : x = 1..m
  BY <1>2
<1>4. ASSUME NEW n \in S, n < m PROVE FALSE
  <2>1. 1..n \in below /\ 1..n \subseteq 1..m /\ m \in 1..m /\ m \notin 1..n
    BY <1>4
  <2>2. 1..n # 1..m /\ 1..n \subseteq Nat /\ 1..m \subseteq Nat
    BY <2>1
  <2>3. <<1..n, 1..m>> \in StrictSubsetOrdering(Nat)
    BY <2>1, <2>2, Zenon DEF StrictSubsetOrdering
  <2> QED BY <2>1, <2>3, <1>2, <1>3
<1> QED BY <1>3, <1>4

\* Erasing an entry leaves a sequence that is one shorter.
LEMMA EraseType ==
  ASSUME NEW S, NEW s \in Seq(S), NEW i \in DOMAIN s
  PROVE /\ Erase(s, i) \in Seq(S)
        /\ Len(Erase(s, i)) = Len(s) - 1
        /\ DOMAIN Erase(s, i) = 1..(Len(s) - 1)
  BY DEF Erase

\* Inserting an entry makes a sequence one longer.
LEMMA InsertType ==
  ASSUME NEW S, NEW s \in Seq(S), NEW i \in 1..(Len(s) + 1), NEW x \in S
  PROVE Insert(s, i, x) \in Seq(S) /\ Len(Insert(s, i, x)) = Len(s) + 1
<1> DEFINE e == Insert(s, i, x)
<1>1. ASSUME NEW j \in 1..(Len(s) + 1)
      PROVE (IF j < i THEN s[j] ELSE IF j = i THEN x ELSE s[j - 1]) \in S
  OBVIOUS
<1>2. e \in [1..(Len(s) + 1) -> S]
  BY <1>1 DEF Insert
<1> QED BY <1>2 DEF Insert


-----------------------------------------------------------------------------
(* Alignment.                                                                *)

\* Rounding down to the alignment.
LEMMA RoundDown ==
  ASSUME NEW m \in Nat
  PROVE LET p == (m \div Align) * Align
        IN p \in Nat /\ p % Align = 0 /\ p <= m /\ m < p + Align
  BY ArenaAssumption

LEMMA Quotient ==
  ASSUME NEW x \in Nat, x % Align = 0
  PROVE \E k \in Nat : x = k * Align
<1>1. x \div Align \in Nat
  BY ArenaAssumption
<1>2. x = (x \div Align) * Align
  BY ArenaAssumption
<1> QED BY <1>1, <1>2

LEMMA Multiple ==
  ASSUME NEW k \in Int
  PROVE (k * Align) % Align = 0
  BY ArenaAssumption

LEMMA SumAligned ==
  ASSUME NEW x \in Nat, NEW y \in Nat, x % Align = 0, y % Align = 0
  PROVE (x + y) % Align = 0
<1>1. PICK k \in Nat : x = k * Align
  BY Quotient
<1>2. PICK l \in Nat : y = l * Align
  BY Quotient
<1>3. x + y = (k + l) * Align /\ k + l \in Int
  BY <1>1, <1>2, ArenaAssumption
<1> QED BY <1>3, Multiple

-----------------------------------------------------------------------------
(* Sizes and gaps.                                                         *)

\* No size up to the capacity wraps when it is rounded up.
LEMMA RoundUpExact ==
  ASSUME NEW n \in Nat, n <= Capacity
  PROVE /\ RoundUp(n) = Promise!Pad(n)
        /\ RoundUp(n) \in Nat /\ RoundUp(n) % Align = 0 /\ RoundUp(n) >= n
<1>1. Align <= Capacity /\ n + Align - 1 \in Nat /\ n + Align - 1 < Word
  <2>1. Align <= Capacity
    BY ArenaAssumption
  <2> QED BY <2>1, ArenaAssumption
<1>2. (n + Align - 1) % Word = n + Align - 1
  BY <1>1, ArenaAssumption
<1>3. RoundUp(n) = ((n + Align - 1) \div Align) * Align
  BY <1>2 DEF RoundUp
<1>4. /\ RoundUp(n) \in Nat /\ RoundUp(n) % Align = 0
      /\ n + Align - 1 < RoundUp(n) + Align
  BY <1>1, <1>3, RoundDown
<1> QED BY <1>3, <1>4, ArenaAssumption DEF Promise!Pad

\* The extent of an admitted request: aligned, at most the capacity, and what
\* unbounded arithmetic gives.
LEMMA ExtentExact ==
  ASSUME NEW r \in Requests, ~TooLarge(r), r.offsets % Align = 0
  PROVE /\ Extent(r) = Promise!Need(r)
        /\ Extent(r) \in 1..Capacity /\ Extent(r) % Align = 0
        /\ RoundUp(r.data) = Promise!Pad(r.data)
<1>1. r.data \in Nat /\ r.offsets \in Nat /\ r.extra \in Nat
  BY ArenaAssumption
<1>2. r.data <= Capacity /\ r.offsets <= Capacity /\ r.extra <= Capacity
  BY <1>1, ArenaAssumption DEF TooLarge
<1>3. /\ RoundUp(r.data) = Promise!Pad(r.data) /\ RoundUp(r.data) \in Nat
      /\ RoundUp(r.data) % Align = 0
  BY <1>1, <1>2, RoundUpExact
<1>4. /\ RoundUp(r.extra) = Promise!Pad(r.extra) /\ RoundUp(r.extra) \in Nat
      /\ RoundUp(r.extra) % Align = 0
  BY <1>1, <1>2, RoundUpExact
<1> DEFINE sum == RoundUp(r.data) + r.offsets + RoundUp(r.extra)
<1>5. (RoundUp(r.data) + r.offsets) % Align = 0 /\ RoundUp(r.data) + r.offsets \in Nat
  BY <1>1, <1>3, SumAligned
<1>6. sum % Align = 0 /\ sum \in Nat
  BY <1>4, <1>5, SumAligned
<1>7. sum <= Capacity
  BY <1>1, <1>3, <1>4, ArenaAssumption DEF TooLarge
<1>8. Align \in 1..Capacity /\ Align % Align = 0
  BY ArenaAssumption
<1>9. Extent(r) = IF sum = 0 THEN Align ELSE sum
  BY DEF Extent
<1>10. Promise!Need(r) = IF sum = 0 THEN Align ELSE sum
  BY <1>3, <1>4 DEF Promise!Need
<1> QED BY <1>3, <1>6, <1>7, <1>8, <1>9, <1>10

\* What the sound table says of a single slot.
LEMMA SlotFacts ==
  ASSUME TypeOK, NEW j \in DOMAIN buffers
  PROVE /\ buffers[j] \in Slots
        /\ buffers[j].address \in Nat /\ buffers[j].extent \in Nat \ {0}
        /\ buffers[j].address < Capacity
        /\ j \in 1..Len(buffers) /\ Len(buffers) \in Nat
        /\ buffers[j].delivered \in BOOLEAN /\ buffers[j].clear \in BOOLEAN
<1>1. buffers \in Seq(Slots) /\ Capacity \in Nat
  BY ArenaAssumption DEF TypeOK
<1>2. buffers[j] \in Slots /\ j \in 1..Len(buffers) /\ Len(buffers) \in Nat
  BY <1>1
<1> QED BY <1>1, <1>2 DEF Slots, Offsets

\* Gaps start at aligned offsets.
LEMMA GapFacts ==
  ASSUME TypeOK, BuffersApart, NEW i \in 1..(Len(buffers) + 1)
  PROVE /\ GapStart(i) \in Nat /\ GapEnd(i) \in Nat /\ Gap(i) \in Int
        /\ GapStart(i) % Align = 0
        /\ Len(buffers) \in Nat /\ DOMAIN buffers = 1..Len(buffers)
<1>1. Len(buffers) \in Nat /\ DOMAIN buffers = 1..Len(buffers)
  BY DEF TypeOK
<1>2. GapStart(i) \in Nat /\ GapStart(i) % Align = 0
  <2>1. CASE i = 1
    BY <2>1, ArenaAssumption DEF GapStart
  <2>2. CASE i # 1
    <3>1. i - 1 \in DOMAIN buffers
      BY <2>2, <1>1
    <3>2. buffers[i - 1].address \in Nat /\ buffers[i - 1].extent \in Nat
      BY <3>1, SlotFacts
    <3>3. buffers[i - 1].address % Align = 0 /\ buffers[i - 1].extent % Align = 0
      BY <3>1 DEF BuffersApart
    <3>4. GapStart(i) = buffers[i - 1].address + buffers[i - 1].extent
      BY <2>2 DEF GapStart
    <3>5. (buffers[i - 1].address + buffers[i - 1].extent) % Align = 0
      BY <3>2, <3>3, SumAligned
    <3> QED BY <3>2, <3>4, <3>5
  <2> QED BY <2>1, <2>2
<1>3. GapEnd(i) \in Nat
  <2>1. CASE i = Len(buffers) + 1
    BY <2>1, ArenaAssumption DEF GapEnd
  <2>2. CASE i # Len(buffers) + 1
    <3>1. i \in DOMAIN buffers
      BY <2>2, <1>1
    <3> QED BY <3>1, <2>2, SlotFacts DEF GapEnd
  <2> QED BY <2>1, <2>2
<1> QED BY <1>1, <1>2, <1>3 DEF Gap

\* If a gap fits there is a best one, and it fits.
LEMMA BestFits ==
  ASSUME TypeOK, BuffersApart, NEW n \in Nat, Fitting(n) # {}
  PROVE BestGap(n) \in 1..(Len(buffers) + 1) /\ Gap(BestGap(n)) >= n
<1>1. Len(buffers) \in Nat
  BY DEF TypeOK
<1>2. \A i \in Fitting(n) : i \in Nat /\ i \in 1..(Len(buffers) + 1) /\ Gap(i) \in Nat
  <2>1. ASSUME NEW i \in Fitting(n)
        PROVE i \in Nat /\ i \in 1..(Len(buffers) + 1) /\ Gap(i) \in Nat
    <3>1. i \in 1..(Len(buffers) + 1) /\ Gap(i) >= n
      BY DEF Fitting
    <3>2. Gap(i) \in Int
      BY <3>1, GapFacts
    <3> QED BY <3>1, <3>2, <1>1
  <2> QED BY <2>1
<1> DEFINE sizes == {Gap(i) : i \in Fitting(n)}
<1>3. PICK g \in sizes : \A h \in sizes : g <= h
  <2>1. sizes \in SUBSET Nat /\ sizes # {}
    BY <1>2
  <2> HIDE DEF sizes
  <2> QED BY <2>1, LeastNatural
<1> DEFINE best == {i \in Fitting(n) : Gap(i) = g}
<1>4. PICK k \in best : \A j \in best : k <= j
  <2>1. best \in SUBSET Nat /\ best # {}
    BY <1>2, <1>3
  <2> HIDE DEF best
  <2> QED BY <2>1, LeastNatural
<1>5. k \in Fitting(n) /\ \A j \in Fitting(n) :
         Gap(k) < Gap(j) \/ (Gap(k) = Gap(j) /\ k <= j)
  <2>1. ASSUME NEW j \in Fitting(n) PROVE Gap(k) < Gap(j) \/ (Gap(k) = Gap(j) /\ k <= j)
    <3>1. g <= Gap(j) /\ Gap(k) = g /\ Gap(j) \in Nat /\ g \in Nat
      BY <1>2, <1>3, <1>4
    <3>2. CASE Gap(j) = g
      BY <3>1, <3>2, <1>4
    <3>3. CASE Gap(j) # g
      BY <3>1, <3>3
    <3> QED BY <3>2, <3>3
  <2> QED BY <2>1, <1>4
<1>6. BestGap(n) \in Fitting(n)
  BY <1>5 DEF BestGap
<1> QED BY <1>6 DEF Fitting

-----------------------------------------------------------------------------
(* The table stays sound.                                                  *)

\* A reserve that succeeds: its place is a gap that holds its extent.
LEMMA Placed ==
  ASSUME TypeOK, BuffersApart, NEW r \in Requests, NEW clear \in 0..2,
         ReserveError(r, clear) = 0
  PROVE LET i == BestGap(Extent(r))
        IN /\ i \in 1..(Len(buffers) + 1)
           /\ GapStart(i) \in Nat /\ GapStart(i) % Align = 0
           /\ Extent(r) \in 1..Capacity /\ Extent(r) % Align = 0
           /\ GapEnd(i) \in Nat /\ GapStart(i) + Extent(r) <= GapEnd(i)
           /\ GapEnd(i) <= Capacity
           /\ Slot(r, GapStart(i), clear) \in Slots
           /\ Extent(r) = Promise!Need(r) /\ RoundUp(r.data) = Promise!Pad(r.data)
           /\ Len(buffers) < Limit
<1> DEFINE i == BestGap(Extent(r))
<1>1. /\ ~TooLarge(r) /\ r.offsets % Align = 0
      /\ Len(buffers) # Limit /\ Fitting(Extent(r)) # {}
  BY DEF ReserveError, EINVAL, ENOMEM
<1>2. /\ Extent(r) \in 1..Capacity /\ Extent(r) % Align = 0
      /\ Extent(r) = Promise!Need(r) /\ RoundUp(r.data) = Promise!Pad(r.data)
  BY <1>1, ExtentExact
<1>3. i \in 1..(Len(buffers) + 1) /\ Gap(i) >= Extent(r)
  BY <1>1, <1>2, BestFits
<1>4. /\ GapStart(i) \in Nat /\ GapEnd(i) \in Nat /\ GapStart(i) % Align = 0
      /\ Len(buffers) \in Nat /\ DOMAIN buffers = 1..Len(buffers)
  BY <1>3, GapFacts
<1>5. GapStart(i) + Extent(r) <= GapEnd(i)
  <2>1. GapEnd(i) - GapStart(i) >= Extent(r) /\ Extent(r) \in Int
    BY <1>2, <1>3, ArenaAssumption DEF Gap
  <2> QED BY <2>1, <1>4
<1>6. GapEnd(i) <= Capacity
  <2>1. CASE i = Len(buffers) + 1
    BY <2>1, ArenaAssumption DEF GapEnd
  <2>2. CASE i # Len(buffers) + 1
    <3>1. i \in DOMAIN buffers
      BY <2>2, <1>3, <1>4
    <3> QED BY <3>1, <2>2, SlotFacts, ArenaAssumption DEF GapEnd
  <2> QED BY <2>1, <2>2
<1>7. GapStart(i) \in Offsets
  BY <1>2, <1>4, <1>5, <1>6, ArenaAssumption DEF Offsets
<1>8. Slot(r, GapStart(i), clear) \in Slots
  BY <1>2, <1>7 DEF Slot, Slots
<1>9. Len(buffers) < Limit
  <2>1. Len(buffers) <= Limit /\ Limit \in Nat
    BY ArenaAssumption DEF BuffersApart
  <2>2. Len(buffers) # Limit /\ Len(buffers) \in Nat
    BY <1>1, <1>4
  <2> QED BY <2>1, <2>2
<1> QED BY <1>2, <1>3, <1>4, <1>5, <1>6, <1>8, <1>9

\* The slots before a gap end before it, the slots behind it start behind it.
LEMMA GapSeparates ==
  ASSUME TypeOK, BuffersApart, NEW i \in 1..(Len(buffers) + 1), NEW j \in DOMAIN buffers
  PROVE /\ j < i => buffers[j].address + buffers[j].extent <= GapStart(i)
        /\ j >= i => GapEnd(i) <= buffers[j].address
<1>1. Len(buffers) \in Nat /\ DOMAIN buffers = 1..Len(buffers)
  BY DEF TypeOK
<1>2. ASSUME j < i PROVE buffers[j].address + buffers[j].extent <= GapStart(i)
  <2>1. i - 1 \in DOMAIN buffers /\ i # 1 /\ j <= i - 1
    BY <1>1, <1>2
  <2>2. GapStart(i) = buffers[i - 1].address + buffers[i - 1].extent
    BY <2>1 DEF GapStart
  <2>3. /\ buffers[i - 1].address \in Nat /\ buffers[i - 1].extent \in Nat
        /\ buffers[j].address \in Nat /\ buffers[j].extent \in Nat
    BY <2>1, SlotFacts
  <2>4. CASE j = i - 1
    BY <2>2, <2>3, <2>4
  <2>5. CASE j < i - 1
    <3>1. buffers[j].address + buffers[j].extent <= buffers[i - 1].address
      BY <2>1, <2>5 DEF BuffersApart
    <3> QED BY <3>1, <2>2, <2>3
  <2> QED BY <2>1, <2>4, <2>5, <1>1
<1>3. ASSUME j >= i PROVE GapEnd(i) <= buffers[j].address
  <2>1. i \in DOMAIN buffers /\ i # Len(buffers) + 1
    BY <1>1, <1>3
  <2>2. GapEnd(i) = buffers[i].address
    BY <2>1 DEF GapEnd
  <2>3. /\ buffers[i].address \in Nat /\ buffers[i].extent \in Nat
        /\ buffers[j].address \in Nat
    BY <2>1, SlotFacts
  <2>4. CASE i = j
    BY <2>2, <2>3, <2>4
  <2>5. CASE i < j
    <3>1. buffers[i].address + buffers[i].extent <= buffers[j].address
      BY <2>1, <2>5 DEF BuffersApart
    <3> QED BY <3>1, <2>2, <2>3
  <2> QED BY <2>4, <2>5, <1>3, <1>1
<1> QED BY <1>2, <1>3

LEMMA ReserveSound ==
  ASSUME TypeOK, BuffersApart, NEW r \in Requests, NEW clear \in 0..2, Reserve(r, clear)
  PROVE TypeOK' /\ BuffersApart'
<1>1. PICK i \in 1..(Len(buffers) + 1), x \in Slots :
        /\ i = BestGap(Extent(r)) /\ x = Slot(r, GapStart(i), clear)
        /\ GapStart(i) \in Nat /\ GapStart(i) % Align = 0
        /\ Extent(r) \in 1..Capacity /\ Extent(r) % Align = 0
        /\ GapEnd(i) \in Nat /\ GapStart(i) + Extent(r) <= GapEnd(i)
        /\ GapEnd(i) <= Capacity /\ Len(buffers) < Limit
  BY Placed DEF Reserve
<1>2. /\ buffers' = Insert(buffers, i, x)
      /\ memory' = Filled(GapStart(i), Extent(r), 0) /\ alive' = alive
  BY <1>1 DEF Reserve
<1>3. x.address = GapStart(i) /\ x.extent = Extent(r)
  BY <1>1 DEF Slot
<1>4. buffers \in Seq(Slots) /\ Len(buffers) \in Nat /\ DOMAIN buffers = 1..Len(buffers)
  BY DEF TypeOK
<1>5. /\ buffers' \in Seq(Slots)
      /\ Len(buffers') = Len(buffers) + 1 /\ DOMAIN buffers' = 1..(Len(buffers) + 1)
      /\ \A j \in 1..(Len(buffers) + 1) :
           buffers'[j] = IF j < i THEN buffers[j] ELSE IF j = i THEN x ELSE buffers[j - 1]
  <2>1. Insert(buffers, i, x) \in Seq(Slots) /\ Len(Insert(buffers, i, x)) = Len(buffers) + 1
    BY <1>4, InsertType
  <2>2. /\ DOMAIN Insert(buffers, i, x) = 1..(Len(buffers) + 1)
        /\ \A j \in 1..(Len(buffers) + 1) : Insert(buffers, i, x)[j] =
             IF j < i THEN buffers[j] ELSE IF j = i THEN x ELSE buffers[j - 1]
    BY DEF Insert
  <2> QED BY <2>1, <2>2, <1>2, Zenon
<1>6. memory' \in [Offsets -> Byte]
  BY <1>2 DEF TypeOK, Filled, Byte
<1>7. TypeOK'
  BY <1>2, <1>5, <1>6 DEF TypeOK
<1>8. ASSUME NEW j \in DOMAIN buffers'
      PROVE /\ buffers'[j].address % Align = 0 /\ buffers'[j].extent % Align = 0
            /\ buffers'[j].address + buffers'[j].extent <= Capacity
  <2>1. CASE j = i
    <3>1. buffers'[j] = x /\ buffers'[j].address = GapStart(i) /\ buffers'[j].extent = Extent(r)
      BY <2>1, <1>3, <1>5
    <3>2. Extent(r) \in Nat /\ Capacity \in Nat
      BY <1>1, ArenaAssumption
    <3>3. GapStart(i) + Extent(r) <= Capacity
      BY <3>2, <1>1
    <3> QED BY <3>1, <3>3, <1>1
  <2>2. CASE j < i
    <3>1. j \in DOMAIN buffers /\ buffers'[j] = buffers[j]
      BY <2>2, <1>1, <1>4, <1>5
    <3> QED BY <3>1 DEF BuffersApart
  <2>3. CASE j > i
    <3>1. j - 1 \in DOMAIN buffers /\ buffers'[j] = buffers[j - 1]
      BY <2>3, <1>1, <1>4, <1>5
    <3> QED BY <3>1 DEF BuffersApart
  <2> QED BY <2>1, <2>2, <2>3, <1>1, <1>5
<1>9. ASSUME NEW j \in DOMAIN buffers', NEW k \in DOMAIN buffers', j < k
      PROVE buffers'[j].address + buffers'[j].extent <= buffers'[k].address
  <2>1. CASE k < i
    <3>1. /\ j \in DOMAIN buffers /\ buffers'[j] = buffers[j]
          /\ k \in DOMAIN buffers /\ buffers'[k] = buffers[k]
      BY <2>1, <1>1, <1>4, <1>5, <1>9
    <3> QED BY <3>1, <1>9 DEF BuffersApart
  <2>2. CASE k = i
    <3>1. j \in DOMAIN buffers /\ buffers'[j] = buffers[j] /\ buffers'[k] = x /\ j < i
      BY <2>2, <1>1, <1>4, <1>5, <1>9
    <3> QED BY <3>1, <1>1, <1>3, GapSeparates
  <2>3. CASE k > i /\ j < i
    <3>1. /\ j \in DOMAIN buffers /\ buffers'[j] = buffers[j]
          /\ k - 1 \in DOMAIN buffers /\ buffers'[k] = buffers[k - 1] /\ j < k - 1
      BY <2>3, <1>1, <1>4, <1>5, <1>9
    <3> QED BY <3>1 DEF BuffersApart
  <2>4. CASE k > i /\ j = i
    <3>1. k - 1 \in DOMAIN buffers /\ buffers'[k] = buffers[k - 1] /\ k - 1 >= i /\ buffers'[j] = x
      BY <2>4, <1>1, <1>4, <1>5, <1>9
    <3>2. GapEnd(i) <= buffers[k - 1].address /\ buffers[k - 1].address \in Nat
      BY <3>1, <1>1, GapSeparates, SlotFacts
    <3>3. Extent(r) \in Nat /\ GapStart(i) + Extent(r) <= GapEnd(i)
      BY <1>1
    <3>4. buffers'[j].address + buffers'[j].extent = GapStart(i) + Extent(r)
      BY <3>1, <1>3
    <3> QED BY <3>1, <3>2, <3>3, <3>4, <1>1
  <2>5. CASE j > i
    <3>1. /\ j - 1 \in DOMAIN buffers /\ buffers'[j] = buffers[j - 1]
          /\ k - 1 \in DOMAIN buffers /\ buffers'[k] = buffers[k - 1] /\ j - 1 < k - 1
      BY <2>5, <1>1, <1>4, <1>5, <1>9
    <3> QED BY <3>1 DEF BuffersApart
  <2> QED BY <2>1, <2>2, <2>3, <2>4, <2>5, <1>1, <1>5, <1>9
<1>10. BuffersApart'
  <2>1. Len(buffers') <= Limit
    BY <1>1, <1>4, <1>5, ArenaAssumption
  <2> QED BY <2>1, <1>8, <1>9 DEF BuffersApart
<1> QED BY <1>7, <1>10

\* The slot found for an address.
LEMMA AtFound ==
  ASSUME TypeOK, NEW a, Known(a)
  PROVE At(a) \in DOMAIN buffers /\ buffers[At(a)].address = a
  BY DEF Known, At

LEMMA PublishSound ==
  ASSUME TypeOK, BuffersApart, NEW a \in Addresses, Publish(a)
  PROVE TypeOK' /\ BuffersApart'
<1>1. Known(a)
  BY DEF Publish, PublishError, EINVAL
<1>2. PICK j \in DOMAIN buffers : j = At(a)
  BY <1>1, AtFound
<1> DEFINE x == [buffers[j] EXCEPT !.delivered = TRUE]
<1>3. buffers' = [buffers EXCEPT ![j] = x] /\ memory' = memory /\ alive' = alive
  BY <1>2 DEF Publish
<1>4. /\ x \in Slots /\ x.address = buffers[j].address /\ x.extent = buffers[j].extent
  <2>1. buffers[j] \in Slots
    BY SlotFacts
  <2> QED BY <2>1 DEF Slots
<1> HIDE DEF x
<1>5. /\ buffers' \in Seq(Slots) /\ Len(buffers') = Len(buffers)
      /\ DOMAIN buffers' = DOMAIN buffers
  BY <1>3, <1>4 DEF TypeOK
<1>6. \A k \in DOMAIN buffers : /\ buffers'[k].address = buffers[k].address
                               /\ buffers'[k].extent = buffers[k].extent
  BY <1>3, <1>4 DEF TypeOK
<1>7. TypeOK'
  BY <1>3, <1>5 DEF TypeOK
<1>8. BuffersApart'
  BY <1>5, <1>6 DEF BuffersApart
<1> QED BY <1>7, <1>8

LEMMA RemoveSound ==
  ASSUME TypeOK, BuffersApart, NEW a \in Addresses, NEW d \in BOOLEAN, Remove(a, d)
  PROVE TypeOK' /\ BuffersApart'
<1>1. Known(a)
  BY DEF Remove, RemoveError, EINVAL
<1>2. PICK j \in DOMAIN buffers : j = At(a)
  BY <1>1, AtFound
<1>3. buffers' = Erase(buffers, j) /\ alive' = alive
  BY <1>2 DEF Remove
<1>4. memory' \in [Offsets -> Byte]
  BY DEF Remove, TypeOK, Filled, Byte
<1>5. buffers \in Seq(Slots) /\ Len(buffers) \in Nat /\ DOMAIN buffers = 1..Len(buffers)
  BY DEF TypeOK
<1>6. /\ buffers' \in Seq(Slots) /\ Len(buffers') = Len(buffers) - 1
      /\ DOMAIN buffers' = 1..(Len(buffers) - 1)
  BY <1>3, <1>5, EraseType
<1>7. \A k \in DOMAIN buffers' : buffers'[k] = IF k < j THEN buffers[k] ELSE buffers[k + 1]
  BY <1>3, <1>6 DEF Erase
<1>8. TypeOK'
  BY <1>3, <1>4, <1>6 DEF TypeOK
<1>9. ASSUME NEW k \in DOMAIN buffers'
      PROVE \E m \in DOMAIN buffers :
              m = (IF k < j THEN k ELSE k + 1) /\ buffers'[k] = buffers[m]
  BY <1>5, <1>6, <1>7
<1>10. ASSUME NEW k \in DOMAIN buffers'
       PROVE /\ buffers'[k].address % Align = 0 /\ buffers'[k].extent % Align = 0
             /\ buffers'[k].address + buffers'[k].extent <= Capacity
  BY <1>9 DEF BuffersApart
<1>11. ASSUME NEW k \in DOMAIN buffers', NEW l \in DOMAIN buffers', k < l
       PROVE buffers'[k].address + buffers'[k].extent <= buffers'[l].address
  <2>1. PICK m \in DOMAIN buffers : m = (IF k < j THEN k ELSE k + 1) /\ buffers'[k] = buffers[m]
    BY <1>9
  <2>2. PICK n \in DOMAIN buffers : n = (IF l < j THEN l ELSE l + 1) /\ buffers'[l] = buffers[n]
    BY <1>9
  <2>3. m < n
    BY <2>1, <2>2, <1>11, <1>5, <1>6
  <2> QED BY <2>1, <2>2, <2>3 DEF BuffersApart
<1>12. Len(buffers') <= Limit
  <2>1. Len(buffers) <= Limit /\ Limit \in Nat
    BY ArenaAssumption DEF BuffersApart
  <2> QED BY <2>1, <1>5, <1>6
<1>13. BuffersApart'
  BY <1>10, <1>11, <1>12 DEF BuffersApart
<1> QED BY <1>8, <1>13

\* An empty table is sound.
LEMMA EmptySound ==
  ASSUME buffers' = <<>>, memory' \in [Offsets -> Byte], alive' \in BOOLEAN
  PROVE TypeOK' /\ BuffersApart'
<1>1. buffers' \in Seq(Slots) /\ Len(buffers') = 0 /\ DOMAIN buffers' = {}
  OBVIOUS
<1>2. Len(buffers') <= Limit
  BY <1>1, ArenaAssumption
<1> QED BY <1>1, <1>2 DEF TypeOK, BuffersApart

LEMMA StepSound == TypeOK /\ BuffersApart /\ [Next]_vars => TypeOK' /\ BuffersApart'
<1> SUFFICES ASSUME TypeOK, BuffersApart, [Next]_vars PROVE TypeOK' /\ BuffersApart'
  OBVIOUS
<1>1. ASSUME UNCHANGED <<alive, buffers, memory>> PROVE TypeOK' /\ BuffersApart'
  BY <1>1 DEF TypeOK, BuffersApart
<1>2. CASE Create
  BY <1>2, EmptySound DEF Create, TypeOK
<1>3. CASE Destroy
  BY <1>3, EmptySound DEF Destroy, TypeOK
<1>4. CASE DestroyFails
  BY <1>4, <1>1 DEF DestroyFails, Fails
<1>5. CASE DiscardAll
  <2>1. memory' \in [Offsets -> Byte]
    BY <1>5 DEF DiscardAll, TypeOK, Byte
  <2> QED BY <2>1, <1>5, EmptySound DEF DiscardAll, TypeOK
<1>6. ASSUME NEW r \in Requests, NEW clear \in 0..2, Reserve(r, clear)
      PROVE TypeOK' /\ BuffersApart'
  BY <1>6, ReserveSound
<1>7. ASSUME NEW r \in Requests, NEW clear \in 0..2, ReserveFails(r, clear)
      PROVE TypeOK' /\ BuffersApart'
  BY <1>7, <1>1 DEF ReserveFails, Fails
<1>8. ASSUME NEW a \in Addresses, NEW w \in Writes, Write(a, w)
      PROVE TypeOK' /\ BuffersApart'
  <2>1. w.byte \in Byte
    BY ArenaAssumption DEF Byte
  <2>2. memory' \in [Offsets -> Byte] /\ UNCHANGED <<alive, buffers>>
    BY <2>1, <1>8 DEF Write, Filled, TypeOK
  <2> QED BY <2>2 DEF TypeOK, BuffersApart
<1>9. ASSUME NEW a \in Addresses, NEW w \in Writes, WriteFails(a, w)
      PROVE TypeOK' /\ BuffersApart'
  BY <1>9, <1>1 DEF WriteFails, Fails
<1>10. ASSUME NEW a \in Addresses, Publish(a) PROVE TypeOK' /\ BuffersApart'
  BY <1>10, PublishSound
<1>11. ASSUME NEW a \in Addresses, PublishFails(a) \/ CancelFails(a) \/ ReleaseFails(a)
       PROVE TypeOK' /\ BuffersApart'
  BY <1>11, <1>1 DEF PublishFails, CancelFails, ReleaseFails, Fails
<1>12. ASSUME NEW a \in Addresses, Cancel(a) \/ Release(a) PROVE TypeOK' /\ BuffersApart'
  BY <1>12, RemoveSound DEF Cancel, Release
<1>13. CASE UNCHANGED vars
  BY <1>13, <1>1 DEF vars
<1> QED
  BY <1>2, <1>3, <1>4, <1>5, <1>6, <1>7, <1>8, <1>9, <1>10, <1>11, <1>12, <1>13 DEF Next

\* The allocator's table is sound in every reachable state: slots apart,
\* aligned, inside the mapping, within the vector's reservation.
THEOREM TableSound == Spec => [](TypeOK /\ BuffersApart)
<1>1. Init => TypeOK /\ BuffersApart
  <2> SUFFICES ASSUME Init PROVE TypeOK /\ BuffersApart
    OBVIOUS
  <2>1. buffers \in Seq(Slots) /\ Len(buffers) = 0 /\ DOMAIN buffers = {}
    BY DEF Init
  <2>2. Len(buffers) <= Limit
    BY <2>1, ArenaAssumption
  <2> QED BY <2>1, <2>2 DEF Init, TypeOK, BuffersApart
<1> QED BY <1>1, StepSound, PTL DEF Spec

-----------------------------------------------------------------------------
(* The arena keeps its promise.                                            *)

\* Each slot is one buffer of the promise, found by its address.
HeldExact ==
  /\ Held = [h \in DOMAIN Held |-> Held[h]]
  /\ DOMAIN Held = {buffers[j].address : j \in DOMAIN buffers}
  /\ \A j \in DOMAIN buffers :
       /\ At(buffers[j].address) = j
       /\ Held[buffers[j].address] =
            [extent |-> buffers[j].extent, delivered |-> buffers[j].delivered,
             bytes |-> Contents(j)]

LEMMA HeldFacts == TypeOK /\ BuffersApart => HeldExact
<1> SUFFICES ASSUME TypeOK, BuffersApart PROVE HeldExact
  OBVIOUS
<1>1. ASSUME NEW j \in DOMAIN buffers PROVE At(buffers[j].address) = j
  <2>1. PICK k \in DOMAIN buffers : k = At(buffers[j].address) /\ buffers[k].address = buffers[j].address
    BY DEF At
  <2>2. /\ buffers[k].address \in Nat /\ buffers[k].extent \in Nat \ {0} /\ k \in 1..Len(buffers)
        /\ buffers[j].address \in Nat /\ buffers[j].extent \in Nat \ {0} /\ j \in 1..Len(buffers)
        /\ Len(buffers) \in Nat
    BY SlotFacts
  <2>3. CASE k < j
    <3>1. buffers[k].address + buffers[k].extent <= buffers[j].address
      BY <2>3 DEF BuffersApart
    <3> QED BY <3>1, <2>1, <2>2
  <2>4. CASE j < k
    <3>1. buffers[j].address + buffers[j].extent <= buffers[k].address
      BY <2>4 DEF BuffersApart
    <3> QED BY <3>1, <2>1, <2>2
  <2> QED BY <2>1, <2>2, <2>3, <2>4
<1>2. DOMAIN Held = {buffers[j].address : j \in DOMAIN buffers}
  BY DEF Held
<1>3. ASSUME NEW j \in DOMAIN buffers
      PROVE Held[buffers[j].address] =
            [extent |-> buffers[j].extent, delivered |-> buffers[j].delivered,
             bytes |-> Contents(j)]
  <2>1. buffers[j].address \in {buffers[k].address : k \in DOMAIN buffers}
    OBVIOUS
  <2> QED BY <2>1, <1>1 DEF Held
<1>4. Held = [h \in DOMAIN Held |-> Held[h]]
  BY DEF Held
<1> QED BY <1>1, <1>2, <1>3, <1>4 DEF HeldExact

LEMMA HeldPrimed == TypeOK' /\ BuffersApart' => HeldExact'
  BY HeldFacts, PTL

\* The bytes of a slot are inside the mapping, and in no other slot.
LEMMA BytesOwn ==
  ASSUME TypeOK, BuffersApart, NEW j \in DOMAIN buffers, NEW q \in 0..(buffers[j].extent - 1)
  PROVE /\ buffers[j].address + q \in Offsets
        /\ \A k \in DOMAIN buffers \ {j} :
             \/ buffers[j].address + q < buffers[k].address
             \/ buffers[j].address + q >= buffers[k].address + buffers[k].extent
<1>1. /\ buffers[j].address \in Nat /\ buffers[j].extent \in Nat \ {0} /\ j \in 1..Len(buffers)
      /\ buffers[j].address + buffers[j].extent <= Capacity /\ q \in Nat /\ q < buffers[j].extent
      /\ Len(buffers) \in Nat
  BY SlotFacts DEF BuffersApart
<1>2. buffers[j].address + q \in Offsets
  <2>1. Capacity \in Nat
    BY ArenaAssumption
  <2> QED BY <1>1, <2>1 DEF Offsets
<1>3. ASSUME NEW k \in DOMAIN buffers \ {j}
      PROVE \/ buffers[j].address + q < buffers[k].address
            \/ buffers[j].address + q >= buffers[k].address + buffers[k].extent
  <2>1. buffers[k].address \in Nat /\ buffers[k].extent \in Nat /\ k \in 1..Len(buffers)
    BY SlotFacts
  <2>2. CASE j < k
    <3>1. buffers[j].address + buffers[j].extent <= buffers[k].address
      BY <2>2 DEF BuffersApart
    <3> QED BY <3>1, <2>1, <1>1
  <2>3. CASE k < j
    <3>1. buffers[k].address + buffers[k].extent <= buffers[j].address
      BY <2>3 DEF BuffersApart
    <3> QED BY <3>1, <2>1, <1>1
  <2> QED BY <2>1, <2>2, <2>3, <1>1
<1> QED BY <1>2, <1>3

LEMMA WriteKeeps ==
  ASSUME TypeOK, BuffersApart, NEW a \in Addresses, NEW w \in Writes, Write(a, w)
  PROVE \E h \in DOMAIN Held : Promise!Write(h, w)
<1>1. /\ Known(a) /\ ~buffers[At(a)].delivered
      /\ ~(w.offset > buffers[At(a)].extent) /\ ~(w.size > buffers[At(a)].extent - w.offset)
  BY DEF Write, WriteError, EINVAL, EPERM
<1>2. PICK j \in DOMAIN buffers : j = At(a) /\ buffers[j].address = a
  BY <1>1, AtFound
<1>3. /\ buffers' = buffers /\ alive' = alive /\ alive
      /\ memory' = Filled(a + w.offset, w.size, w.byte)
  BY DEF Write
<1>4. /\ w.offset \in Nat /\ w.size \in Nat
      /\ a \in Nat /\ buffers[j].extent \in Nat \ {0}
  BY <1>2, SlotFacts, ArenaAssumption
<1>5. w.offset + w.size <= buffers[j].extent /\ ~buffers[j].delivered
  BY <1>1, <1>2, <1>4
<1>6. HeldExact /\ HeldExact'
  <2>1. TypeOK' /\ BuffersApart'
    BY StepSound DEF Next
  <2> QED BY <2>1, HeldFacts, HeldPrimed
<1>7. /\ DOMAIN Held' = DOMAIN Held /\ a \in DOMAIN Held
      /\ DOMAIN Held = {buffers[k].address : k \in DOMAIN buffers}
  BY <1>2, <1>3, <1>6 DEF HeldExact
<1>8. Contents(j)' = Promise!Written(Contents(j), w)
  <2>1. ASSUME NEW q \in 0..(buffers[j].extent - 1)
        PROVE memory'[a + q] =
                IF q >= w.offset /\ q < w.offset + w.size THEN w.byte ELSE memory[a + q]
    <3>1. a + q \in Offsets
      BY <1>2, BytesOwn
    <3> QED BY <3>1, <1>3, <1>4 DEF Filled
  <2> QED BY <2>1, <1>2, <1>3 DEF Contents, Promise!Written
<1>9. ASSUME NEW k \in DOMAIN buffers, k # j PROVE Contents(k)' = Contents(k)
  <2>1. ASSUME NEW q \in 0..(buffers[k].extent - 1)
        PROVE memory'[buffers[k].address + q] = memory[buffers[k].address + q]
    <3>1. /\ buffers[k].address + q \in Offsets /\ buffers[k].address \in Nat /\ q \in Nat
          /\ \/ buffers[k].address + q < buffers[j].address
             \/ buffers[k].address + q >= buffers[j].address + buffers[j].extent
      <4>1. j \in DOMAIN buffers \ {k}
        BY <1>9
      <4> QED BY <4>1, BytesOwn, SlotFacts
    <3>2. ~(/\ buffers[k].address + q >= a + w.offset
            /\ buffers[k].address + q < a + w.offset + w.size)
      BY <3>1, <1>2, <1>4, <1>5
    <3> QED BY <3>1, <3>2, <1>3 DEF Filled
  <2> QED BY <2>1, <1>3 DEF Contents
<1>10. Held' = Promise!With(a, [Held[a] EXCEPT !.bytes = Promise!Written(Held[a].bytes, w)])
  <2> DEFINE new == [Held[a] EXCEPT !.bytes = Promise!Written(Held[a].bytes, w)]
  <2>1. Held[a] = [extent |-> buffers[j].extent, delivered |-> buffers[j].delivered,
                   bytes |-> Contents(j)]
    BY <1>2, <1>6 DEF HeldExact
  <2>2. new = [extent |-> buffers[j].extent, delivered |-> buffers[j].delivered,
               bytes |-> Contents(j)']
    BY <2>1, <1>8
  <2>3. Held'[a] = new
    BY <2>2, <1>2, <1>3, <1>6 DEF HeldExact
  <2>4. ASSUME NEW h \in DOMAIN Held, h # a PROVE Held'[h] = Held[h]
    <3>1. PICK k \in DOMAIN buffers : h = buffers[k].address
      BY <1>7
    <3>2. k # j
      BY <3>1, <2>4, <1>2
    <3>3. Held[h] = [extent |-> buffers[k].extent, delivered |-> buffers[k].delivered,
                     bytes |-> Contents(k)]
      BY <3>1, <1>6 DEF HeldExact
    <3>4. Held'[h] = [extent |-> buffers[k].extent, delivered |-> buffers[k].delivered,
                      bytes |-> Contents(k)']
      BY <3>1, <1>3, <1>6 DEF HeldExact
    <3> QED BY <3>2, <3>3, <3>4, <1>9
  <2> HIDE DEF new
  <2>5. Held' = [h \in DOMAIN Held |-> Held'[h]]
    BY <1>6, <1>7 DEF HeldExact
  <2>6. Promise!With(a, new) = [h \in DOMAIN Held |-> IF h = a THEN new ELSE Held[h]]
    BY <1>7 DEF Promise!With
  <2>7. Held' = Promise!With(a, new)
    BY <2>3, <2>4, <2>5, <2>6, <1>7
  <2> QED BY <2>7 DEF new
<1>11. /\ ~Held[a].delivered /\ w.offset + w.size <= Held[a].extent
  <2>1. Held[a] = [extent |-> buffers[j].extent, delivered |-> buffers[j].delivered,
                   bytes |-> Contents(j)]
    BY <1>2, <1>6 DEF HeldExact
  <2> QED BY <2>1, <1>5
<1>12. ret' = [op |-> "write", code |-> 0, out |-> {}]
  BY DEF Write, Returns
<1> QED BY <1>3, <1>7, <1>10, <1>11, <1>12 DEF Promise!Write, Promise!Returns

LEMMA PublishKeeps ==
  ASSUME TypeOK, BuffersApart, NEW a \in Addresses, Publish(a)
  PROVE \E h \in DOMAIN Held : Promise!Publish(h)
<1>1. Known(a) /\ ~buffers[At(a)].delivered
  BY DEF Publish, PublishError, EINVAL, EPERM
<1>2. PICK j \in DOMAIN buffers : j = At(a) /\ buffers[j].address = a
  BY <1>1, AtFound
<1>3. HeldExact /\ HeldExact'
  BY PublishSound, HeldFacts, HeldPrimed
<1> DEFINE x == [buffers[j] EXCEPT !.delivered = TRUE]
<1>4. buffers' = [buffers EXCEPT ![j] = x] /\ memory' = memory /\ alive' = alive /\ alive
  BY <1>2 DEF Publish
<1>5. /\ x.address = a /\ x.extent = buffers[j].extent /\ x.delivered = TRUE
  <2>1. buffers[j] \in Slots
    BY SlotFacts
  <2> QED BY <2>1, <1>2 DEF Slots
<1> HIDE DEF x
<1>6. DOMAIN buffers' = DOMAIN buffers /\ buffers'[j] = x
  BY <1>4 DEF TypeOK
<1>7. \A k \in DOMAIN buffers \ {j} : buffers'[k] = buffers[k]
  BY <1>4 DEF TypeOK
<1>8. ASSUME NEW k \in DOMAIN buffers
      PROVE /\ buffers'[k].address = buffers[k].address /\ buffers'[k].extent = buffers[k].extent
            /\ Contents(k)' = Contents(k)
  <2>1. buffers'[k].address = buffers[k].address /\ buffers'[k].extent = buffers[k].extent
    BY <1>2, <1>5, <1>6, <1>7
  <2> QED BY <2>1, <1>4 DEF Contents
<1>9. /\ DOMAIN Held' = DOMAIN Held /\ a \in DOMAIN Held
      /\ DOMAIN Held = {buffers[k].address : k \in DOMAIN buffers}
  BY <1>2, <1>3, <1>6, <1>8 DEF HeldExact
<1>10. Held[a] = [extent |-> buffers[j].extent, delivered |-> buffers[j].delivered,
                  bytes |-> Contents(j)]
  BY <1>2, <1>3 DEF HeldExact
<1> DEFINE new == [extent |-> Held[a].extent, delivered |-> TRUE, bytes |-> Held[a].bytes]
<1>11. Held'[a] = new
  <2>1. Held'[a] = [extent |-> x.extent, delivered |-> x.delivered, bytes |-> Contents(j)']
    <3>1. j \in DOMAIN buffers' /\ buffers'[j] = x /\ buffers'[j].address = a
      BY <1>5, <1>6
    <3> QED BY <3>1, <1>3 DEF HeldExact
  <2>2. new = [extent |-> buffers[j].extent, delivered |-> TRUE, bytes |-> Contents(j)]
    BY <1>10
  <2>3. Contents(j)' = Contents(j)
    BY <1>8
  <2> QED BY <2>1, <2>2, <2>3, <1>5
<1>12. ASSUME NEW h \in DOMAIN Held, h # a PROVE Held'[h] = Held[h]
  <2>1. PICK k \in DOMAIN buffers : h = buffers[k].address
    BY <1>9
  <2>2. k # j /\ buffers'[k] = buffers[k] /\ k \in DOMAIN buffers'
    BY <2>1, <1>2, <1>6, <1>7, <1>12
  <2>3. Held[h] = [extent |-> buffers[k].extent, delivered |-> buffers[k].delivered,
                   bytes |-> Contents(k)]
    BY <2>1, <1>3 DEF HeldExact
  <2>4. Held'[h] = [extent |-> buffers[k].extent, delivered |-> buffers[k].delivered,
                    bytes |-> Contents(k)']
    BY <2>1, <2>2, <1>3 DEF HeldExact
  <2> QED BY <2>3, <2>4, <1>8
<1> HIDE DEF new
<1>13. Held' = Promise!With(a, new)
  <2>1. Held' = [h \in DOMAIN Held |-> Held'[h]]
    BY <1>3, <1>9 DEF HeldExact
  <2>2. Promise!With(a, new) = [h \in DOMAIN Held |-> IF h = a THEN new ELSE Held[h]]
    BY <1>9 DEF Promise!With
  <2> QED BY <2>1, <2>2, <1>11, <1>12
<1>14. ~Held[a].delivered
  BY <1>1, <1>2, <1>10
<1>15. ret' = [op |-> "publish", code |-> 0, out |-> {}]
  BY DEF Publish, Returns
<1> QED BY <1>4, <1>9, <1>13, <1>14, <1>15 DEF Promise!Publish, Promise!Returns, new

LEMMA RemoveKeeps ==
  ASSUME TypeOK, BuffersApart, NEW a \in Addresses, NEW d \in BOOLEAN, Remove(a, d)
  PROVE /\ a \in DOMAIN Held /\ Held[a].delivered = d
        /\ Held' = [h \in DOMAIN Held \ {a} |-> Held[h]]
<1>1. Known(a) /\ buffers[At(a)].delivered = d
  BY DEF Remove, RemoveError, EINVAL, EPERM
<1>2. PICK j \in DOMAIN buffers : j = At(a) /\ buffers[j].address = a
  BY <1>1, AtFound
<1>3. HeldExact /\ HeldExact'
  BY RemoveSound, HeldFacts, HeldPrimed
<1>4. buffers \in Seq(Slots) /\ Len(buffers) \in Nat /\ DOMAIN buffers = 1..Len(buffers)
  BY DEF TypeOK
<1>5. buffers' = Erase(buffers, j)
  BY <1>2 DEF Remove
<1>6. /\ DOMAIN buffers' = 1..(Len(buffers) - 1)
      /\ \A k \in DOMAIN buffers' : buffers'[k] = IF k < j THEN buffers[k] ELSE buffers[k + 1]
  <2>1. DOMAIN buffers' = 1..(Len(buffers) - 1)
    BY <1>4, <1>5, EraseType
  <2> QED BY <2>1, <1>5 DEF Erase
<1>7. ASSUME NEW k \in DOMAIN buffers'
      PROVE \E m \in DOMAIN buffers \ {j} : buffers'[k] = buffers[m]
  <2>1. CASE k < j
    BY <2>1, <1>4, <1>6
  <2>2. CASE k >= j
    <3>1. k + 1 \in DOMAIN buffers \ {j} /\ buffers'[k] = buffers[k + 1]
      BY <2>2, <1>4, <1>6
    <3> QED BY <3>1
  <2> QED BY <2>1, <2>2, <1>4, <1>6
<1>8. ASSUME NEW m \in DOMAIN buffers \ {j}
      PROVE \E k \in DOMAIN buffers' : buffers'[k] = buffers[m]
  <2>1. CASE m < j
    BY <2>1, <1>4, <1>6
  <2>2. CASE m > j
    <3>1. m - 1 \in DOMAIN buffers' /\ buffers'[m - 1] = buffers[(m - 1) + 1] /\ (m - 1) + 1 = m
      BY <2>2, <1>4, <1>6
    <3> QED BY <3>1
  <2> QED BY <2>1, <2>2, <1>4
<1>9. \A m \in DOMAIN buffers \ {j} : buffers[m].address # a
  BY <1>2, <1>3 DEF HeldExact
<1>10. /\ DOMAIN Held = {buffers[k].address : k \in DOMAIN buffers}
       /\ DOMAIN Held' = {buffers'[k].address : k \in DOMAIN buffers'}
       /\ Held' = [h \in DOMAIN Held' |-> Held'[h]]
  BY <1>3 DEF HeldExact
<1>11. DOMAIN Held' = DOMAIN Held \ {a}
  BY <1>2, <1>7, <1>8, <1>9, <1>10
<1>12. ASSUME NEW m \in DOMAIN buffers \ {j}, NEW q \in 0..(buffers[m].extent - 1)
       PROVE memory'[buffers[m].address + q] = memory[buffers[m].address + q]
  <2>1. /\ buffers[m].address + q \in Offsets /\ buffers[m].address \in Nat /\ q \in Nat
        /\ \/ buffers[m].address + q < buffers[j].address
           \/ buffers[m].address + q >= buffers[j].address + buffers[j].extent
    <3>1. j \in DOMAIN buffers \ {m} /\ m \in DOMAIN buffers
      OBVIOUS
    <3>2. buffers[m].address \in Nat /\ buffers[m].extent \in Nat
      BY <3>1, SlotFacts
    <3>3. q \in Nat
      BY <3>2
    <3> QED BY <3>1, <3>2, <3>3, BytesOwn
  <2>2. memory' = memory \/ memory' = Filled(a, buffers[j].extent, 0)
    BY <1>2 DEF Remove
  <2>3. ~(/\ buffers[m].address + q >= a
          /\ buffers[m].address + q < a + buffers[j].extent)
    <3>1. a \in Nat /\ buffers[j].extent \in Nat
      BY <1>2, SlotFacts
    <3> QED BY <3>1, <2>1, <1>2
  <2> QED BY <2>1, <2>2, <2>3 DEF Filled
<1>13. ASSUME NEW h \in DOMAIN Held' PROVE Held'[h] = Held[h]
  <2>1. PICK k \in DOMAIN buffers' : h = buffers'[k].address
    BY <1>10
  <2>2. PICK m \in DOMAIN buffers \ {j} : buffers'[k] = buffers[m]
    BY <1>7
  <2>3. Held[h] = [extent |-> buffers[m].extent, delivered |-> buffers[m].delivered,
                   bytes |-> Contents(m)]
    BY <2>1, <2>2, <1>3 DEF HeldExact
  <2>4. Held'[h] = [extent |-> buffers[m].extent, delivered |-> buffers[m].delivered,
                    bytes |-> Contents(k)']
    BY <2>1, <2>2, <1>3 DEF HeldExact
  <2>5. Contents(k)' = Contents(m)
    BY <2>2, <1>12 DEF Contents
  <2> QED BY <2>3, <2>4, <2>5
<1>14. a \in DOMAIN Held /\ Held[a].delivered = d
  <2>1. Held[a] = [extent |-> buffers[j].extent, delivered |-> buffers[j].delivered,
                   bytes |-> Contents(j)]
    BY <1>2, <1>3 DEF HeldExact
  <2> QED BY <2>1, <1>1, <1>2, <1>10
<1>15. Held' = [h \in DOMAIN Held \ {a} |-> Held[h]]
  BY <1>10, <1>11, <1>13
<1> QED BY <1>14, <1>15

\* There are as many buffers as slots.
LEMMA HeldCount ==
  ASSUME TypeOK, BuffersApart
  PROVE Promise!Cardinality(DOMAIN Held) = Len(buffers)
<1>1. HeldExact
  BY HeldFacts
<1>2. Len(buffers) \in Nat /\ DOMAIN buffers = 1..Len(buffers)
  BY DEF TypeOK
<1> DEFINE S == {buffers[j].address : j \in 1..Len(buffers)}
           f == [j \in 1..Len(buffers) |-> buffers[j].address]
<1>3. S = DOMAIN Held
  BY <1>1, <1>2 DEF HeldExact
<1>4. ASSUME NEW j \in 1..Len(buffers), NEW k \in 1..Len(buffers),
             buffers[j].address = buffers[k].address
      PROVE j = k
  <2>1. At(buffers[j].address) = j /\ At(buffers[k].address) = k
    BY <1>1, <1>2 DEF HeldExact
  <2> QED BY <2>1, <1>4
<1>5. f \in Bijection(1..Len(buffers), S)
  BY <1>4 DEF Bijection, Injection, Surjection, IsInjective
<1>6. Cardinality(S) = Len(buffers)
  BY <1>2, <1>5, FS_CountingElements DEF ExistsBijection
<1>7. Promise!Cardinality(S) = Cardinality(S)
  BY Zenon DEF Cardinality, Promise!Cardinality
<1> QED BY <1>3, <1>6, <1>7

LEMMA ReserveKeeps ==
  ASSUME TypeOK, BuffersApart, NEW r \in Requests, NEW clear \in 0..2, Reserve(r, clear)
  PROVE \E a \in 0..(Capacity - 1) : Promise!Reserve(r, a)
<1>1. PICK i \in 1..(Len(buffers) + 1), x \in Slots :
        /\ i = BestGap(Extent(r)) /\ x = Slot(r, GapStart(i), clear)
        /\ GapStart(i) \in Nat
        /\ Extent(r) \in 1..Capacity /\ Extent(r) = Promise!Need(r)
        /\ GapEnd(i) \in Nat /\ GapStart(i) + Extent(r) <= GapEnd(i)
        /\ GapEnd(i) <= Capacity /\ Len(buffers) < Limit
        /\ RoundUp(r.data) = Promise!Pad(r.data)
  BY Placed DEF Reserve
<1> DEFINE a == GapStart(i)
           n == Extent(r)
<1>2. /\ buffers' = Insert(buffers, i, x) /\ alive' = alive /\ alive
      /\ memory' = Filled(a, n, 0)
      /\ ret' = [op |-> "reserve", code |-> 0, out |-> {Descriptor(r, a)}]
  BY <1>1 DEF Reserve
<1>3. x.address = a /\ x.extent = n /\ x.delivered = FALSE
  BY <1>1 DEF Slot
<1>4. a \in Nat /\ n \in Nat \ {0} /\ a + n <= GapEnd(i) /\ a + n <= Capacity /\ a \in 0..(Capacity - 1)
  BY <1>1, ArenaAssumption
<1>5. buffers \in Seq(Slots) /\ Len(buffers) \in Nat /\ DOMAIN buffers = 1..Len(buffers)
  BY DEF TypeOK
<1>6. /\ DOMAIN buffers' = 1..(Len(buffers) + 1)
      /\ \A j \in 1..(Len(buffers) + 1) :
           buffers'[j] = IF j < i THEN buffers[j] ELSE IF j = i THEN x ELSE buffers[j - 1]
  <2>1. /\ DOMAIN Insert(buffers, i, x) = 1..(Len(buffers) + 1)
        /\ \A j \in 1..(Len(buffers) + 1) : Insert(buffers, i, x)[j] =
             IF j < i THEN buffers[j] ELSE IF j = i THEN x ELSE buffers[j - 1]
    BY DEF Insert
  <2> QED BY <2>1, <1>2, Zenon
<1>7. HeldExact /\ HeldExact'
  BY ReserveSound, HeldFacts, HeldPrimed
<1> HIDE DEF a, n
<1>8. ASSUME NEW j \in DOMAIN buffers
      PROVE /\ buffers[j].address \in Nat /\ buffers[j].extent \in Nat \ {0}
            /\ \/ buffers[j].address + buffers[j].extent <= a
               \/ a + n <= buffers[j].address
  <2>1. buffers[j].address \in Nat /\ buffers[j].extent \in Nat \ {0}
    BY SlotFacts
  <2>2. /\ j < i => buffers[j].address + buffers[j].extent <= a
        /\ j >= i => GapEnd(i) <= buffers[j].address
    BY GapSeparates DEF a
  <2> QED BY <2>1, <2>2, <1>1, <1>4, <1>5
<1>9. /\ DOMAIN Held = {buffers[k].address : k \in DOMAIN buffers}
      /\ DOMAIN Held' = {buffers'[k].address : k \in DOMAIN buffers'}
      /\ Held' = [h \in DOMAIN Held' |-> Held'[h]]
  BY <1>7 DEF HeldExact
<1>10. i \in DOMAIN buffers' /\ buffers'[i] = x
  BY <1>5, <1>6
<1>11. ASSUME NEW j \in DOMAIN buffers
       PROVE \E k \in DOMAIN buffers' : k # i /\ buffers'[k] = buffers[j]
  <2>1. CASE j < i
    BY <2>1, <1>5, <1>6
  <2>2. CASE j >= i
    <3>1. j + 1 \in DOMAIN buffers' /\ j + 1 # i /\ buffers'[j + 1] = buffers[(j + 1) - 1] /\ (j + 1) - 1 = j
      BY <2>2, <1>5, <1>6
    <3> QED BY <3>1
  <2> QED BY <2>1, <2>2, <1>5
<1>12. ASSUME NEW k \in DOMAIN buffers', k # i
       PROVE \E j \in DOMAIN buffers : buffers'[k] = buffers[j]
  <2>1. CASE k < i
    BY <2>1, <1>5, <1>6
  <2>2. CASE k > i
    <3>1. k - 1 \in DOMAIN buffers /\ buffers'[k] = buffers[k - 1]
      BY <2>2, <1>5, <1>6
    <3> QED BY <3>1
  <2> QED BY <2>1, <2>2, <1>5, <1>6, <1>12
<1>13. DOMAIN Held' = DOMAIN Held \cup {a}
  BY <1>3, <1>9, <1>10, <1>11, <1>12
<1>14. a \notin DOMAIN Held
  BY <1>4, <1>8, <1>9
<1> DEFINE new == [extent |-> Promise!Need(r), delivered |-> FALSE,
                   bytes |-> [k \in 0..(Promise!Need(r) - 1) |-> 0]]
<1>15. Held'[a] = new
  <2>1. Held'[a] = [extent |-> n, delivered |-> FALSE, bytes |-> Contents(i)']
    BY <1>3, <1>7, <1>10 DEF HeldExact
  <2>2. ASSUME NEW q \in 0..(n - 1) PROVE memory'[a + q] = 0
    <3>1. a + q \in Offsets /\ a + q >= a /\ a + q < a + n
      BY <1>4, ArenaAssumption DEF Offsets
    <3> QED BY <3>1, <1>2 DEF Filled
  <2>3. Contents(i)' = [k \in 0..(n - 1) |-> 0]
    BY <2>2, <1>3, <1>10 DEF Contents
  <2> QED BY <2>1, <2>3, <1>1 DEF n
<1>16. ASSUME NEW j \in DOMAIN buffers, NEW q \in 0..(buffers[j].extent - 1)
       PROVE memory'[buffers[j].address + q] = memory[buffers[j].address + q]
  <2>1. buffers[j].address + q \in Offsets /\ q \in Nat
    BY <1>8, BytesOwn
  <2>2. ~(buffers[j].address + q >= a /\ buffers[j].address + q < a + n)
    BY <2>1, <1>4, <1>8
  <2> QED BY <2>1, <2>2, <1>2 DEF Filled
<1>17. ASSUME NEW h \in DOMAIN Held PROVE Held'[h] = Held[h]
  <2>1. PICK j \in DOMAIN buffers : h = buffers[j].address
    BY <1>9
  <2>2. PICK k \in DOMAIN buffers' : buffers'[k] = buffers[j]
    BY <1>11
  <2>3. Held[h] = [extent |-> buffers[j].extent, delivered |-> buffers[j].delivered,
                   bytes |-> Contents(j)]
    BY <2>1, <1>7 DEF HeldExact
  <2>4. Held'[h] = [extent |-> buffers[j].extent, delivered |-> buffers[j].delivered,
                    bytes |-> Contents(k)']
    BY <2>1, <2>2, <1>7 DEF HeldExact
  <2>5. Contents(k)' = Contents(j)
    BY <2>2, <1>16 DEF Contents
  <2> QED BY <2>3, <2>4, <2>5
<1> HIDE DEF new
<1>18. Held' = Promise!With(a, new)
  <2>1. Promise!With(a, new) = [h \in DOMAIN Held \cup {a} |-> IF h = a THEN new ELSE Held[h]]
    BY DEF Promise!With
  <2> QED BY <2>1, <1>9, <1>13, <1>14, <1>15, <1>17
<1>19. Promise!IsFree(a, Promise!Need(r))
  <2>1. ASSUME NEW h \in DOMAIN Held PROVE a + n <= h \/ h + Held[h].extent <= a
    <3>1. PICK j \in DOMAIN buffers : h = buffers[j].address
      BY <1>9
    <3>2. Held[h] = [extent |-> buffers[j].extent, delivered |-> buffers[j].delivered,
                     bytes |-> Contents(j)]
      BY <3>1, <1>7 DEF HeldExact
    <3> QED BY <3>1, <3>2, <1>8
  <2>2. n = Promise!Need(r)
    BY <1>1 DEF n
  <2> QED BY <2>1, <2>2, <1>4 DEF Promise!IsFree
<1>20. Promise!Room(r)
  <2>1. Promise!Cardinality(DOMAIN Held) < Limit
    BY <1>1, HeldCount
  <2>2. \E b \in 0..(Capacity - 1) : Promise!IsFree(b, Promise!Need(r))
    BY <1>4, <1>19
  <2> QED BY <2>1, <2>2, Zenon DEF Promise!Room
<1>21. Descriptor(r, a) = Promise!Buffer(r, a)
  BY <1>1 DEF Descriptor, Promise!Buffer
<1>22. Promise!Reserve(r, a)
  BY <1>2, <1>18, <1>19, <1>20, <1>21 DEF Promise!Reserve, new
<1> QED BY <1>4, <1>22

\* In unbounded arithmetic a size never shrinks when it is padded.
LEMMA PadGrows ==
  ASSUME NEW n \in Nat
  PROVE Promise!Pad(n) \in Nat /\ Promise!Pad(n) >= n
<1>1. n + Align - 1 \in Nat /\ Align \in Nat
  BY ArenaAssumption
<1>2. /\ Promise!Pad(n) \in Nat /\ n + Align - 1 < Promise!Pad(n) + Align
  BY <1>1, RoundDown DEF Promise!Pad
<1> QED BY <1>1, <1>2

\* A request that is too large needs more than the capacity.
LEMMA TooLargeNeeds ==
  ASSUME NEW r \in Requests, TooLarge(r)
  PROVE Promise!Need(r) \in Nat /\ Promise!Need(r) > Capacity
<1>1. /\ r.data \in Nat /\ r.offsets \in Nat /\ r.extra \in Nat
      /\ Capacity \in Nat \ {0} /\ Align \in Nat \ {0}
  BY ArenaAssumption
<1>2. /\ Promise!Pad(r.data) \in Nat /\ Promise!Pad(r.data) >= r.data
      /\ Promise!Pad(r.extra) \in Nat /\ Promise!Pad(r.extra) >= r.extra
  BY <1>1, PadGrows
<1> DEFINE sum == Promise!Pad(r.data) + r.offsets + Promise!Pad(r.extra)
<1>3. sum > Capacity
  <2>1. CASE r.data > Capacity \/ r.offsets > Capacity \/ r.extra > Capacity
    BY <2>1, <1>1, <1>2
  <2>2. CASE r.data <= Capacity /\ r.offsets <= Capacity /\ r.extra <= Capacity
    <3>1. RoundUp(r.data) = Promise!Pad(r.data) /\ RoundUp(r.extra) = Promise!Pad(r.extra)
      BY <2>2, <1>1, RoundUpExact
    <3> QED BY <3>1, <2>2, <1>1, <1>2 DEF TooLarge
  <2> QED BY <2>1, <2>2, <1>1
<1>4. Promise!Need(r) = IF sum = 0 THEN Align ELSE sum
  BY DEF Promise!Need
<1> QED BY <1>1, <1>2, <1>3, <1>4

\* A free range lies in a gap.
LEMMA FreeInGap ==
  ASSUME TypeOK, BuffersApart, NEW a \in Nat, NEW n \in Nat, Promise!IsFree(a, n)
  PROVE Fitting(n) # {}
<1>1. HeldExact
  BY HeldFacts
<1>2. Len(buffers) \in Nat /\ DOMAIN buffers = 1..Len(buffers)
  BY DEF TypeOK
<1>3. ASSUME NEW j \in DOMAIN buffers
      PROVE /\ buffers[j].address \in Nat /\ buffers[j].extent \in Nat
            /\ a + n <= buffers[j].address \/ buffers[j].address + buffers[j].extent <= a
  <2>1. Held[buffers[j].address] =
          [extent |-> buffers[j].extent, delivered |-> buffers[j].delivered, bytes |-> Contents(j)]
    BY <1>1 DEF HeldExact
  <2>2. buffers[j].address \in DOMAIN Held
    BY <1>1 DEF HeldExact
  <2>3. a + n <= buffers[j].address \/ buffers[j].address + Held[buffers[j].address].extent <= a
    BY <2>2 DEF Promise!IsFree
  <2> QED BY <2>1, <2>3, SlotFacts
\* The first slot behind the range, or the end.
<1> DEFINE behind == {j \in 1..(Len(buffers) + 1) :
                        j = Len(buffers) + 1 \/ a + n <= buffers[j].address}
<1>4. PICK i \in behind : \A j \in behind : i <= j
  <2>1. Len(buffers) + 1 \in behind
    BY <1>2
  <2>2. behind \in SUBSET Nat
    BY <1>2
  <2> HIDE DEF behind
  <2> QED BY <2>1, <2>2, LeastNatural
<1>5. a + n <= GapEnd(i)
  <2>1. CASE i = Len(buffers) + 1
    BY <2>1 DEF GapEnd, Promise!IsFree
  <2>2. CASE i # Len(buffers) + 1
    BY <2>2, <1>4 DEF GapEnd
  <2> QED BY <2>1, <2>2
<1>6. GapStart(i) <= a
  <2>1. CASE i = 1
    BY <2>1 DEF GapStart
  <2>2. CASE i # 1
    <3>1. i - 1 \in DOMAIN buffers /\ i - 1 \notin behind
      BY <2>2, <1>2, <1>4
    <3>2. ~(a + n <= buffers[i - 1].address)
      BY <3>1, <1>2
    <3>3. buffers[i - 1].address + buffers[i - 1].extent <= a
      BY <3>1, <3>2, <1>3
    <3> QED BY <3>3, <2>2 DEF GapStart
  <2> QED BY <2>1, <2>2
<1>7. i \in 1..(Len(buffers) + 1) /\ GapStart(i) \in Nat /\ GapEnd(i) \in Nat
  BY <1>4, GapFacts
<1>8. Gap(i) >= n
  BY <1>5, <1>6, <1>7 DEF Gap
<1> QED BY <1>7, <1>8 DEF Fitting

LEMMA HonestState == TypeOK /\ BuffersApart => RefusesHonestly
<1> SUFFICES ASSUME TypeOK, BuffersApart, NEW r \in Requests, NEW clear \in {0, 1},
                    ReserveError(r, clear) = ENOMEM
             PROVE ~Promise!Room(r)
  BY DEF RefusesHonestly
<1>1. /\ r.offsets % Align = 0
      /\ TooLarge(r) \/ Len(buffers) = Limit \/ Fitting(Extent(r)) = {}
  BY DEF ReserveError, EINVAL, ENOMEM
<1>2. CASE Len(buffers) = Limit
  <2>1. Promise!Cardinality(DOMAIN Held) = Limit /\ Limit \in Nat
    BY <1>2, HeldCount, ArenaAssumption
  <2> QED BY <2>1 DEF Promise!Room
<1>3. CASE TooLarge(r)
  <2>1. ASSUME NEW a \in 0..(Capacity - 1), Promise!IsFree(a, Promise!Need(r)) PROVE FALSE
    <3>1. a + Promise!Need(r) <= Capacity
      BY <2>1 DEF Promise!IsFree
    <3> QED BY <3>1, <1>3, TooLargeNeeds, ArenaAssumption
  <2> QED BY <2>1 DEF Promise!Room
<1>4. CASE ~TooLarge(r) /\ Fitting(Extent(r)) = {}
  <2>1. Extent(r) = Promise!Need(r) /\ Extent(r) \in Nat
    BY <1>1, <1>4, ExtentExact
  <2>2. ASSUME NEW a \in 0..(Capacity - 1), Promise!IsFree(a, Promise!Need(r)) PROVE FALSE
    <3>1. a \in Nat /\ Promise!IsFree(a, Extent(r))
      BY <2>1, <2>2
    <3> QED BY <3>1, <2>1, <1>4, FreeInGap
  <2> QED BY <2>2 DEF Promise!Room
<1> QED BY <1>1, <1>2, <1>3, <1>4

\* Every step of the arena is a step of the promise or leaves it alone.
LEMMA StepKeeps ==
  ASSUME TypeOK, BuffersApart, [Next]_vars
  PROVE [Promise!Next]_(Promise!avars)
<1>1. ASSUME buffers' = buffers, memory' = memory PROVE Held' = Held
  BY <1>1 DEF Held, At, Contents
<1>2. buffers = <<>> => Held = [h \in {} |-> {}] /\ DOMAIN Held = {}
  BY DEF Held
<1>3. buffers' = <<>> => Held' = [h \in {} |-> {}]
  BY DEF Held
<1>4. CASE Create
  <2>1. Held' = [h \in {} |-> {}]
    BY <1>4, <1>3 DEF Create
  <2> QED BY <2>1, <1>4 DEF Create, Returns, Promise!Create, Promise!Returns, Promise!Next
<1>5. CASE Destroy
  <2>1. Held' = Held /\ DOMAIN Held = {}
    BY <1>5, <1>1, <1>2 DEF Destroy
  <2> QED BY <2>1, <1>5 DEF Destroy, Returns, Promise!Destroy, Promise!Returns, Promise!Next
<1>6. CASE DestroyFails
  <2>1. Held' = Held
    BY <1>6, <1>1 DEF DestroyFails, Fails
  <2>2. DOMAIN Held # {}
    <3>1. buffers \in Seq(Slots) /\ buffers # <<>>
      BY <1>6 DEF DestroyFails, TypeOK
    <3>2. 1 \in DOMAIN buffers
      BY <3>1
    <3> QED BY <3>2 DEF Held
  <2> QED BY <2>1, <2>2, <1>6
        DEF DestroyFails, Fails, Returns, EBUSY, Promise!Destroy, Promise!Returns, Promise!Next
<1>7. CASE DiscardAll
  <2>1. Held' = [h \in {} |-> {}]
    BY <1>7, <1>3 DEF DiscardAll
  <2> QED BY <2>1, <1>7 DEF DiscardAll, Returns, Promise!DiscardAll, Promise!Returns, Promise!Next
<1>8. ASSUME NEW r \in Requests, NEW clear \in 0..2, Reserve(r, clear)
      PROVE Promise!Next
  BY <1>8, ReserveKeeps DEF Promise!Next
<1>9. ASSUME NEW op \in {"reserve", "write", "publish", "cancel", "release"},
             NEW code \in {EPERM, EINVAL}, alive, Fails(op, code)
      PROVE Promise!Next
  <2>1. Held' = Held /\ alive' = alive /\ Promise!Returns(op, code)
    BY <1>9, <1>1 DEF Fails, Returns, Promise!Returns
  <2>2. Promise!Refuse
    BY <2>1, <1>9 DEF EPERM, EINVAL, Promise!Refuse
  <2> QED BY <2>2 DEF Promise!Next
<1>10. ASSUME NEW r \in Requests, NEW clear \in 0..2, ReserveFails(r, clear)
       PROVE Promise!Next
  <2>1. /\ alive /\ Fails("reserve", ReserveError(r, clear)) /\ ReserveError(r, clear) # 0
    BY <1>10 DEF ReserveFails
  <2>2. CASE ReserveError(r, clear) = EINVAL
    BY <2>1, <2>2, <1>9
  <2>3. CASE ReserveError(r, clear) = ENOMEM
    <3>1. clear \in {0, 1}
      BY <2>3 DEF ReserveError, EINVAL, ENOMEM
    <3>2. ~Promise!Room(r)
      BY <3>1, <2>3, HonestState DEF RefusesHonestly
    <3>3. Held' = Held /\ alive' = alive
      BY <2>1, <1>1 DEF Fails
    <3>4. ret' = [op |-> "reserve", code |-> -12, out |-> {}]
      BY <2>1, <2>3 DEF Fails, Returns, ENOMEM
    <3>5. Promise!NoMemory(r)
      BY <3>2, <3>3, <3>4, <2>1 DEF Promise!NoMemory, Promise!Returns
    <3> QED BY <3>5 DEF Promise!Next
  <2> QED BY <2>1, <2>2, <2>3 DEF ReserveError
<1>11. ASSUME NEW a \in Addresses, NEW w \in Writes, Write(a, w)
       PROVE Promise!Next
  BY <1>11, WriteKeeps DEF Promise!Next
<1>12. ASSUME NEW a \in Addresses, NEW w \in Writes, WriteFails(a, w)
       PROVE Promise!Next
  <2>1. WriteError(a, w) \in {EPERM, EINVAL}
    BY <1>12 DEF WriteFails, WriteError
  <2> QED BY <2>1, <1>12, <1>9 DEF WriteFails
<1>13. ASSUME NEW a \in Addresses, Publish(a)
       PROVE Promise!Next
  BY <1>13, PublishKeeps DEF Promise!Next
<1>14. ASSUME NEW a \in Addresses, PublishFails(a)
       PROVE Promise!Next
  <2>1. PublishError(a) \in {EPERM, EINVAL}
    BY <1>14 DEF PublishFails, PublishError
  <2> QED BY <2>1, <1>14, <1>9 DEF PublishFails
<1>15. ASSUME NEW a \in Addresses, NEW d \in BOOLEAN, alive, Remove(a, d),
              Returns(IF d THEN "release" ELSE "cancel", 0)
       PROVE Promise!Next
  <2>1. /\ a \in DOMAIN Held /\ Held[a].delivered = d
        /\ Held' = [h \in DOMAIN Held \ {a} |-> Held[h]]
    BY <1>15, RemoveKeeps
  <2>2. alive' = alive
    BY <1>15 DEF Remove
  <2>3. Promise!Free(a)
    BY <2>1, <2>2, <1>15 DEF Returns, Promise!Free, Promise!Returns
  <2> QED BY <2>1, <2>3 DEF Promise!Next
<1>16. ASSUME NEW a \in Addresses, Cancel(a) \/ Release(a)
       PROVE Promise!Next
  BY <1>16, <1>15 DEF Cancel, Release
<1>17. ASSUME NEW a \in Addresses, CancelFails(a)
       PROVE Promise!Next
  <2>1. RemoveError(a, FALSE) \in {EPERM, EINVAL}
    BY <1>17 DEF CancelFails, RemoveError
  <2> QED BY <2>1, <1>17, <1>9 DEF CancelFails
<1>18. ASSUME NEW a \in Addresses, ReleaseFails(a)
       PROVE Promise!Next
  <2>1. RemoveError(a, TRUE) \in {EPERM, EINVAL}
    BY <1>18 DEF ReleaseFails, RemoveError
  <2> QED BY <2>1, <1>18, <1>9 DEF ReleaseFails
<1>19. CASE UNCHANGED vars
  <2>1. Held' = Held /\ alive' = alive /\ ret' = ret
    BY <1>19, <1>1 DEF vars
  <2> QED BY <2>1 DEF Promise!avars
<1> QED
  BY <1>4, <1>5, <1>6, <1>7, <1>8, <1>10, <1>11, <1>12, <1>13, <1>14, <1>16, <1>17, <1>18, <1>19
  DEF Next

\* ENOMEM is never returned while a record and a fitting range are free.
THEOREM HonestRefusals == Spec => []RefusesHonestly
  BY TableSound, HonestState, PTL

\* The arena implements the promise of binder_arena.h.
THEOREM ArenaKeepsPromise == Spec => KeepsPromise
<1>1. Init => Promise!Init
  <2> SUFFICES ASSUME Init PROVE Promise!Init
    OBVIOUS
  <2>1. Held = [h \in {} |-> {}]
    BY DEF Init, Held
  <2> QED BY <2>1 DEF Init, Promise!Init
<1>2. TypeOK /\ BuffersApart /\ [Next]_vars => [Promise!Next]_(Promise!avars)
  BY StepKeeps
<1> QED BY <1>1, <1>2, TableSound, PTL DEF Spec, KeepsPromise, Promise!Spec
=============================================================================
