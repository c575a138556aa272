------------------------------ MODULE Vectors ------------------------------
(* The operations of std::vector that the code uses on its queues and      *)
(* tables, as sequences.                                                   *)
EXTENDS Integers, Sequences

\* std::vector::erase: s without its i-th entry.
Erase(s, i) == [j \in 1..(Len(s) - 1) |-> IF j < i THEN s[j] ELSE s[j + 1]]

\* std::vector::insert: s with x before its i-th entry.
Insert(s, i, x) ==
  [j \in 1..(Len(s) + 1) |->
     IF j < i THEN s[j] ELSE IF j = i THEN x ELSE s[j - 1]]

\* s without its entries in I: the loop that erases them, front to back.
EraseAll(s, I) ==
  LET rest[n \in 0..Len(s)] ==
        IF n = 0 THEN <<>>
        ELSE IF n \in I THEN rest[n - 1] ELSE Append(rest[n - 1], s[n])
  IN rest[Len(s)]

\* The values in s.
Members(s) == {s[i] : i \in DOMAIN s}

\* std::find: a position where x is.
IndexIn(s, x) == CHOOSE i \in DOMAIN s : s[i] = x

\* No value is in s twice.
IsDistinct(s) == \A i, j \in DOMAIN s : s[i] = s[j] => i = j
=============================================================================
