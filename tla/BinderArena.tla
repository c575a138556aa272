---------------------------- MODULE BinderArena ----------------------------
(* The allocator of Binder receive buffers (binder_arena.cpp).  Every call   *)
(* holds the arena's mutex, so a call is an action.  Addresses are offsets   *)
(* from the guest base: create's checks keep base + offset below 2^64.  The  *)
(* slots keep what the arena reads again; the sections go to the caller.     *)
EXTENDS Vectors, FiniteSets

CONSTANTS Align,      \* 8
          Capacity,   \* bytes of the mapping
          Limit,      \* buffers at a time
          Word,       \* 2^64: the arithmetic of uint64_t
          Requests,   \* section sizes asked for: [data, offsets, extra]
          Writes,     \* [offset, size, byte]
          Addresses   \* the addresses callers name, of buffers or not

\* What create requires of its arguments, and what uint64_t holds.
ASSUME ArenaAssumption ==
  /\ Align \in Nat \ {0} /\ Word \in Nat
  /\ Capacity \in Nat \ {0} /\ Capacity % Align = 0 /\ 2 * Capacity < Word
  /\ Word % Align = 0
  /\ Limit \in Nat \ {0}
  /\ Requests \subseteq [data : 0..(Word - 1), offsets : 0..(Word - 1), extra : 0..(Word - 1)]
  /\ Writes \subseteq [offset : 0..(Word - 1), size : 0..(Word - 1), byte : {0, 1}]
  /\ Addresses \subseteq Nat

Byte == {0, 1}
EPERM == -1
ENOMEM == -12
EBUSY == -16
EINVAL == -22

VARIABLES alive,    \* the arena exists
          buffers,  \* the slots in order of address: [address, extent, delivered, clear]
          memory,   \* the bytes of the mapping
          ret       \* what the last call returned: [op, code, out]

vars == <<alive, buffers, memory, ret>>

Offsets == 0..(Capacity - 1)
Slots == [address : Offsets, extent : 1..Capacity, delivered : BOOLEAN, clear : BOOLEAN]

Returns(op, code) == ret' = [op |-> op, code |-> code, out |-> {}]

\* A call that fails changes nothing.
Fails(op, code) == Returns(op, code) /\ UNCHANGED <<alive, buffers, memory>>

\* memset and memcpy of n bytes from offset o on.
Filled(o, n, byte) ==
  [k \in Offsets |-> IF k >= o /\ k < o + n THEN byte ELSE memory[k]]
-----------------------------------------------------------------------------
\* (n + 7) & ~7 on uint64_t.
RoundUp(n) == (((n + Align - 1) % Word) \div Align) * Align

\* A faulty TooLarge: it trusts the round-up of any size.
TooLargePadded(r) ==
  \/ RoundUp(r.data) > Capacity
  \/ r.offsets > Capacity - RoundUp(r.data)
  \/ RoundUp(r.extra) > Capacity - (RoundUp(r.data) + r.offsets)

\* The sizes do not fit the capacity; each is checked before it is padded,
\* and each sum before it is formed.
TooLarge(r) ==
  \/ r.data > Capacity \/ r.offsets > Capacity \/ r.extra > Capacity
  \/ RoundUp(r.data) > Capacity
  \/ r.offsets > Capacity - RoundUp(r.data)
  \/ RoundUp(r.extra) > Capacity - (RoundUp(r.data) + r.offsets)

\* The extent of a request that is not too large.
Extent(r) ==
  LET sum == RoundUp(r.data) + r.offsets + RoundUp(r.extra)
  IN IF sum = 0 THEN Align ELSE sum

\* The gap before the i-th slot, or after the last one.
GapStart(i) == IF i = 1 THEN 0 ELSE buffers[i - 1].address + buffers[i - 1].extent
GapEnd(i) == IF i = Len(buffers) + 1 THEN Capacity ELSE buffers[i].address
Gap(i) == GapEnd(i) - GapStart(i)

\* The gaps that hold n bytes.
Fitting(n) == {i \in 1..(Len(buffers) + 1) : Gap(i) >= n}

\* The smallest of them, the lowest of these.
BestGap(n) ==
  CHOOSE i \in Fitting(n) : \A j \in Fitting(n) :
    Gap(i) < Gap(j) \/ (Gap(i) = Gap(j) /\ i <= j)

\* The error of a reserve, 0 for none.
ReserveError(r, clear) ==
  IF r.offsets % Align # 0 \/ clear > 1 THEN EINVAL
  ELSE IF TooLarge(r) \/ Len(buffers) = Limit \/ Fitting(Extent(r)) = {} THEN ENOMEM
  ELSE 0

\* The slot and the descriptor of request r at address a.
Slot(r, a, clear) ==
  [address |-> a, extent |-> Extent(r), delivered |-> FALSE, clear |-> clear # 0]
Descriptor(r, a) ==
  [address |-> a, extent |-> Extent(r),
   data_size |-> r.data,
   offsets_address |-> a + RoundUp(r.data), offsets_size |-> r.offsets,
   extra_address |-> a + RoundUp(r.data) + r.offsets, extra_size |-> r.extra]

Reserve(r, clear) ==
  LET i == BestGap(Extent(r))
  IN /\ alive /\ ReserveError(r, clear) = 0
     /\ buffers' = Insert(buffers, i, Slot(r, GapStart(i), clear))
     /\ memory' = Filled(GapStart(i), Extent(r), 0)
     /\ ret' = [op |-> "reserve", code |-> 0, out |-> {Descriptor(r, GapStart(i))}]
     /\ alive' = alive

ReserveFails(r, clear) ==
  /\ alive /\ ReserveError(r, clear) # 0
  /\ Fails("reserve", ReserveError(r, clear))
-----------------------------------------------------------------------------
\* The slot of address a, if there is one.
Known(a) == \E i \in DOMAIN buffers : buffers[i].address = a
At(a) == CHOOSE i \in DOMAIN buffers : buffers[i].address = a

WriteError(a, w) ==
  IF ~Known(a) THEN EINVAL
  ELSE IF buffers[At(a)].delivered THEN EPERM
  ELSE IF w.offset > buffers[At(a)].extent \/ w.size > buffers[At(a)].extent - w.offset
       THEN EINVAL
  ELSE 0

Write(a, w) ==
  /\ alive /\ WriteError(a, w) = 0
  /\ memory' = Filled(a + w.offset, w.size, w.byte)
  /\ Returns("write", 0)
  /\ UNCHANGED <<alive, buffers>>

WriteFails(a, w) ==
  /\ alive /\ WriteError(a, w) # 0 /\ Fails("write", WriteError(a, w))

PublishError(a) ==
  IF ~Known(a) THEN EINVAL ELSE IF buffers[At(a)].delivered THEN EPERM ELSE 0

Publish(a) ==
  /\ alive /\ PublishError(a) = 0
  /\ buffers' = [buffers EXCEPT ![At(a)] = [@ EXCEPT !.delivered = TRUE]]
  /\ Returns("publish", 0)
  /\ UNCHANGED <<alive, memory>>

PublishFails(a) == alive /\ PublishError(a) # 0 /\ Fails("publish", PublishError(a))

\* remove_buffer, for cancel (delivered = FALSE) and release (TRUE).
RemoveError(a, delivered) ==
  IF ~Known(a) THEN EINVAL
  ELSE IF buffers[At(a)].delivered # delivered THEN EPERM ELSE 0

Remove(a, delivered) ==
  /\ RemoveError(a, delivered) = 0
  /\ memory' = IF buffers[At(a)].clear THEN Filled(a, buffers[At(a)].extent, 0) ELSE memory
  /\ buffers' = Erase(buffers, At(a))
  /\ alive' = alive

Cancel(a) == alive /\ Remove(a, FALSE) /\ Returns("cancel", 0)
Release(a) == alive /\ Remove(a, TRUE) /\ Returns("release", 0)

CancelFails(a) ==
  /\ alive /\ RemoveError(a, FALSE) # 0 /\ Fails("cancel", RemoveError(a, FALSE))
ReleaseFails(a) ==
  /\ alive /\ RemoveError(a, TRUE) # 0 /\ Fails("release", RemoveError(a, TRUE))
-----------------------------------------------------------------------------
\* The bytes of the i-th slot.
Span(i) == buffers[i].address..(buffers[i].address + buffers[i].extent - 1)

Create ==
  /\ ~alive /\ alive' = TRUE /\ buffers' = <<>>
  /\ Returns("create", 0) /\ memory' = memory

Destroy ==
  /\ alive /\ buffers = <<>> /\ alive' = FALSE
  /\ Returns("destroy", 0) /\ UNCHANGED <<buffers, memory>>

DestroyFails == alive /\ buffers # <<>> /\ Fails("destroy", EBUSY)

DiscardAll ==
  /\ alive
  /\ memory' = [k \in Offsets |->
                  IF \E i \in DOMAIN buffers : k \in Span(i) THEN 0 ELSE memory[k]]
  /\ buffers' = <<>>
  /\ Returns("discard", 0) /\ alive' = alive

\* The storage is the owner's and may hold anything.
Init ==
  /\ alive = FALSE /\ buffers = <<>>
  /\ memory \in [Offsets -> Byte]
  /\ ret = [op |-> "none", code |-> 0, out |-> {}]

Next ==
  \/ Create \/ Destroy \/ DestroyFails \/ DiscardAll
  \/ \E r \in Requests, clear \in 0..2 : Reserve(r, clear) \/ ReserveFails(r, clear)
  \/ \E a \in Addresses :
       \/ \E w \in Writes : Write(a, w) \/ WriteFails(a, w)
       \/ Publish(a) \/ PublishFails(a)
       \/ Cancel(a) \/ CancelFails(a)
       \/ Release(a) \/ ReleaseFails(a)

Spec == Init /\ [][Next]_vars
-----------------------------------------------------------------------------
(* The promise of binder_arena.h, with each slot as a buffer of its own.     *)
Contents(i) == [k \in 0..(buffers[i].extent - 1) |-> memory[buffers[i].address + k]]

Held ==
  [a \in {buffers[i].address : i \in DOMAIN buffers} |->
     [extent |-> buffers[At(a)].extent, delivered |-> buffers[At(a)].delivered,
      bytes |-> Contents(At(a))]]

Promise == INSTANCE ReceiveBuffers WITH held <- Held

\* The arena keeps the promise of binder_arena.h: buffers that are large
\* enough for their sections, zero when reserved, with bytes no other call
\* changes, and given up only by the call that fits their state.
KeepsPromise == Promise!Spec

\* The allocator's table is sound: slots in order of address, aligned, apart,
\* inside the mapping, no more than the limit the vector was reserved for.
BuffersApart ==
  /\ Len(buffers) <= Limit
  /\ \A i \in DOMAIN buffers :
       /\ buffers[i].address % Align = 0 /\ buffers[i].extent % Align = 0
       /\ buffers[i].address + buffers[i].extent <= Capacity
  /\ \A i, j \in DOMAIN buffers :
       i < j => buffers[i].address + buffers[i].extent <= buffers[j].address

\* ENOMEM is returned only when the records are used up or no range of the
\* mapping, at whatever offset, is free for the padded request.
RefusesHonestly ==
  \A r \in Requests, clear \in {0, 1} :
    ReserveError(r, clear) = ENOMEM => ~Promise!Room(r)

\* Types: a table of slots over the bytes of the mapping.
TypeOK ==
  /\ alive \in BOOLEAN
  /\ buffers \in Seq(Slots)
  /\ memory \in [Offsets -> Byte]
=============================================================================
