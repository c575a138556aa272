--------------------------- MODULE MCBinderArena ---------------------------
(* A mapping of three units of two bytes, 4-bit arithmetic: section sizes at *)
(* and beyond every limit, up to the largest a word holds.                   *)
EXTENDS BinderArena

MCRequests ==
  {[data |-> d[1], offsets |-> d[2], extra |-> d[3]] : d \in
     {<<0, 0, 0>>, <<1, 0, 0>>, <<3, 0, 0>>, <<0, 2, 1>>, <<1, 2, 1>>,
      <<0, 1, 0>>, <<3, 2, 1>>, <<15, 0, 0>>, <<0, 14, 2>>, <<1, 0, 15>>}}

MCWrites ==
  {[offset |-> w[1], size |-> w[2], byte |-> 1] : w \in
     {<<0, 3>>, <<1, 1>>, <<2, 0>>, <<15, 1>>}}

\* The storage is all zero or all dirt when the first arena is created.
MCInit == Init /\ \A k \in Offsets : memory[k] = memory[0]
MCSpec == MCInit /\ [][Next]_vars
=============================================================================
