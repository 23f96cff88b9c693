------------------------------ MODULE Striping ------------------------------
(***************************************************************************)
(* How a flat file is cut into stripes (src/go/redisfs/store.go).  Byte b  *)
(* of a file is byte b % StripeSize of stripe b \div StripeSize.  Offsets  *)
(* and lengths are natural numbers, for which Go's / and % are \div and %: *)
(* MemFile panics on a negative offset before it reaches the store.        *)
(***************************************************************************)
EXTENDS Integers

CONSTANTS StripeSize,
          InitialCap    \* entries stripeLayout makes room for: 100 in the code
ASSUME StripeSizeAssumption == StripeSize \in Nat \ {0}
ASSUME SliceAssumption == InitialCap \in Nat \ {0}

Least(a, b)    == IF a <= b THEN a ELSE b
Greatest(a, b) == IF a <= b THEN b ELSE a

\* a bug: the length of a piece forgets where in the stripe it starts
Piece_long(off, len, pos) ==
  [id |-> (off + pos) \div StripeSize, off |-> (off + pos) % StripeSize, pos |-> pos,
   len |-> Least(len - pos, StripeSize)]

(***************************************************************************)
(* The part of a transfer of len bytes at offset off that starts at byte   *)
(* pos of the caller's buffer: the stripe, the offset inside the stripe    *)
(* and the number of bytes, which end with the stripe or with the buffer.  *)
(***************************************************************************)
Piece(off, len, pos) ==
  LET at == (off + pos) % StripeSize
  IN  [id |-> (off + pos) \div StripeSize, off |-> at, pos |-> pos,
       len |-> Least(len - pos, StripeSize - at)]

\* a bug: one stripe too many when a transfer ends with a stripe
Layout_over(off, len) ==
  IF len = 0 THEN {}
  ELSE { Piece(off, len, Greatest(id * StripeSize - off, 0)) :
           id \in (off \div StripeSize)..((off + len) \div StripeSize) }

(***************************************************************************)
(* One piece for every stripe a transfer touches.  This is what the loop   *)
(* of stripeLayout returns as long as the slice it makes is long enough;   *)
(* beyond that it returns zero-valued entries as well (StripeLayout), each *)
(* of which gets a goroutine like the others: WriteAt's adds stripe 0 to   *)
(* its set and stores nothing, ReadAt's counts all of stripe 0.            *)
(***************************************************************************)
Layout(off, len) ==
  IF len = 0 THEN {}
  ELSE { Piece(off, len, Greatest(id * StripeSize - off, 0)) :
           id \in (off \div StripeSize)..((off + len - 1) \div StripeSize) }

Stripes(off, len) ==
  IF len = 0 THEN 0 ELSE (off + len - 1) \div StripeSize - off \div StripeSize + 1
\* The transfer fits the first slice: no zero-valued entries.
OneSlice(off, len) == Stripes(off, len) <= InitialCap

\* a bug: a file that fills its last stripe has an empty one after it
LastStripeInfo_next(size) == [id |-> size \div StripeSize, len |-> size % StripeSize]

(***************************************************************************)
(* Last stripe of a file of size bytes: <<-1, StripeSize>> when empty.     *)
(***************************************************************************)
LastStripeInfo(size) ==
  IF size % StripeSize = 0
    THEN [id |-> (size \div StripeSize) - 1, len |-> StripeSize]
    ELSE [id |-> size \div StripeSize, len |-> size % StripeSize]
=============================================================================
