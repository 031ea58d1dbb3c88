------------------------------- MODULE FatEntry -------------------------------
(* The 12-bit entries of a FAT, packed three half bytes each: fat_next_cluster and
   fat_set of kernel/fat.c.  Shifts and masks only ever move half bytes, so a byte is
   a pair of digits.  An entry spans two bytes, of which it shares one with its
   neighbour, and the two may lie in different sectors.                           *)
EXTENDS Integers

CONSTANTS Base,            \* the values of a half byte: 16
          SectorBytes      \* 512

ASSUME FatEntryAssumption == Base \in Nat /\ Base > 1 /\ SectorBytes \in Nat /\ SectorBytes > 1

Digit == 0..(Base - 1)
Byte  == [lo : Digit, hi : Digit]
Value == 0..(Base * Base * Base - 1)

Odd(c)    == c % 2 = 1
Offset(c) == c + c \div 2
Straddles(c) == Offset(c) % SectorBytes = SectorBytes - 1

\* The half bytes of a value.
Low(v)  == v % Base
Mid(v)  == (v \div Base) % Base
High(v) == (v \div Base) \div Base
Joined(l, m, h) == l + Base * (m + Base * h)

\* fat_next_cluster on a table F of bytes.
Get(F, c) ==
  LET a == F[Offset(c)]
      b == F[Offset(c) + 1]
  IN  IF Odd(c) THEN Joined(a.hi, b.lo, b.hi) ELSE Joined(a.lo, a.hi, b.lo)

\* fat_set: the two bytes it patches.
Unmasked(F, c, v) ==                                  \* mutant: the neighbour's half too
  [F EXCEPT ![Offset(c)] =
     IF Odd(c) THEN [lo |-> 0, hi |-> Low(v)] ELSE [lo |-> Low(v), hi |-> Mid(v)]]
PutFirst(F, c, v) ==
  [F EXCEPT ![Offset(c)] =
     IF Odd(c) THEN [@ EXCEPT !.hi = Low(v)] ELSE [lo |-> Low(v), hi |-> Mid(v)]]
PutSecond(F, c, v) ==
  [F EXCEPT ![Offset(c) + 1] =
     IF Odd(c) THEN [lo |-> Mid(v), hi |-> High(v)] ELSE [@ EXCEPT !.lo = High(v)]]
==============================================================================
