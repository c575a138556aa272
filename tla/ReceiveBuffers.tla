--------------------------- MODULE ReceiveBuffers ---------------------------
(* What a Binder receive arena promises the device (binder_arena.h): every   *)
(* buffer has bytes of its own, zero when it is reserved, written only       *)
(* through it and only until it is delivered; it is large enough for the     *)
(* three sections asked for; it goes only by cancel before its delivery, by  *)
(* release after it, or with the arena.  Where a buffer is, is left open.    *)
EXTENDS Integers, FiniteSets

CONSTANTS Align,      \* the alignment of buffers and sections
          Capacity,   \* bytes of the mapping
          Limit,      \* buffers at a time
          Requests,   \* section sizes asked for: [data, offsets, extra]
          Writes      \* writes within a buffer: [offset, size, byte]

VARIABLES alive,  \* the arena exists
          held,   \* the buffers by address: [extent, delivered, bytes]
          ret     \* what the last call returned: [op, code, out]

avars == <<alive, held, ret>>

\* n rounded up to the alignment, in unbounded arithmetic.
Pad(n) == ((n + Align - 1) \div Align) * Align

\* The bytes a request takes: its padded sections, at least one unit.
Need(r) ==
  LET sum == Pad(r.data) + r.offsets + Pad(r.extra)
  IN IF sum = 0 THEN Align ELSE sum

\* The buffer of request r at address a: the sections one after the other.
Buffer(r, a) ==
  [address |-> a, extent |-> Need(r),
   data_size |-> r.data,
   offsets_address |-> a + Pad(r.data), offsets_size |-> r.offsets,
   extra_address |-> a + Pad(r.data) + r.offsets, extra_size |-> r.extra]

\* n bytes from a on are inside the mapping and in no buffer.
IsFree(a, n) ==
  /\ a + n <= Capacity
  /\ \A h \in DOMAIN held : a + n <= h \/ h + held[h].extent <= a

\* There is a place and a record for r.
Room(r) ==
  /\ Cardinality(DOMAIN held) < Limit
  /\ \E a \in 0..(Capacity - 1) : IsFree(a, Need(r))

\* The buffers with b at address h.
With(h, b) == [g \in DOMAIN held \cup {h} |-> IF g = h THEN b ELSE held[g]]

\* The bytes of a buffer after a write.
Written(bytes, w) ==
  [k \in DOMAIN bytes |->
     IF k >= w.offset /\ k < w.offset + w.size THEN w.byte ELSE bytes[k]]

Returns(op, code) == ret' = [op |-> op, code |-> code, out |-> {}]
-----------------------------------------------------------------------------
Init == /\ alive = FALSE
        /\ held = [h \in {} |-> {}]
        /\ ret = [op |-> "none", code |-> 0, out |-> {}]

Create == /\ ~alive /\ alive' = TRUE /\ held' = [h \in {} |-> {}] /\ Returns("create", 0)

Destroy ==
  /\ alive
  /\ \/ DOMAIN held = {} /\ alive' = FALSE /\ Returns("destroy", 0)
     \/ DOMAIN held # {} /\ alive' = alive /\ Returns("destroy", -16)
  /\ held' = held

\* A new buffer, somewhere, all zero.
Reserve(r, a) ==
  /\ alive
  /\ ret' = [op |-> "reserve", code |-> 0, out |-> {Buffer(r, a)}]
  /\ Room(r) /\ IsFree(a, Need(r))
  /\ held' = With(a, [extent |-> Need(r), delivered |-> FALSE,
                       bytes |-> [k \in 0..(Need(r) - 1) |-> 0]])
  /\ alive' = alive

\* ENOMEM only without room.
NoMemory(r) ==
  /\ alive /\ Returns("reserve", -12) /\ ~Room(r) /\ UNCHANGED <<alive, held>>

\* A write changes the bytes of its buffer and nothing else.
Write(h, w) ==
  /\ alive /\ Returns("write", 0)
  /\ ~held[h].delivered /\ w.offset + w.size <= held[h].extent
  /\ held' = With(h, [held[h] EXCEPT !.bytes = Written(@, w)])
  /\ alive' = alive

Publish(h) ==
  /\ alive /\ Returns("publish", 0)
  /\ ~held[h].delivered
  /\ held' = With(h, [extent |-> held[h].extent, delivered |-> TRUE,
                       bytes |-> held[h].bytes])
  /\ alive' = alive

\* Cancel takes a buffer that was not delivered, release one that was.
Free(h) ==
  /\ alive /\ Returns(IF held[h].delivered THEN "release" ELSE "cancel", 0)
  /\ held' = [g \in DOMAIN held \ {h} |-> held[g]]
  /\ alive' = alive

DiscardAll ==
  /\ alive /\ held' = [h \in {} |-> {}] /\ Returns("discard", 0) /\ alive' = alive

\* EINVAL and EPERM leave everything alone.
Refuse ==
  /\ alive
  /\ \E op \in {"reserve", "write", "publish", "cancel", "release"}, code \in {-1, -22} :
       Returns(op, code)
  /\ UNCHANGED <<alive, held>>

Next ==
  \/ Create \/ Destroy \/ DiscardAll \/ Refuse
  \/ \E r \in Requests : NoMemory(r) \/ \E a \in 0..(Capacity - 1) : Reserve(r, a)
  \/ \E h \in DOMAIN held : Publish(h) \/ Free(h) \/ \E w \in Writes : Write(h, w)

Spec == Init /\ [][Next]_avars
=============================================================================
