---------------------------- MODULE StripeLayout ----------------------------
(***************************************************************************)
(* The loop of stripeLayout (src/go/redisfs/store.go:68), one iteration    *)
(* per step, with the growth of its result slice: the loop does not leave  *)
(* that to append but replaces a full slice by one of LENGTH 2*cap, whose  *)
(* second half is zero-valued entries that later stripes are put after.    *)
(***************************************************************************)
EXTENDS Striping, Sequences, FiniteSets

CONSTANTS MaxOff, MaxLen    \* bounds of the transfers considered
ASSUME LayoutAssumption == MaxOff \in Nat /\ MaxLen \in Nat

VARIABLES start, total,     \* the arguments: off, len(data)
          done, slice,      \* the loop's state: pos, stripes
          cap               \* cap(stripes)
loopVars == <<start, total, done, slice, cap>>

ZeroPiece == [id |-> 0, off |-> 0, pos |-> 0, len |-> 0]

LoopInit == /\ start \in 0..MaxOff /\ total \in 0..MaxLen
            /\ done = 0 /\ slice = <<>> /\ cap = InitialCap

\* append within the capacity
Add == /\ done < total /\ Len(slice) < cap
       /\ slice' = Append(slice, Piece(start, total, done))
       /\ done' = done + Piece(start, total, done).len
       /\ UNCHANGED <<start, total, cap>>

\* make of length 2*cap, copy, then an append that reallocates: Go's runtime
\* doubles a slice of fewer than 256 entries
Grow == [k \in 1..(2 * cap) |-> IF k <= Len(slice) THEN slice[k] ELSE ZeroPiece]
AddGrown == /\ done < total /\ Len(slice) >= cap
            /\ slice' = Append(Grow, Piece(start, total, done))
            /\ cap' = 4 * cap
            /\ done' = done + Piece(start, total, done).len
            /\ UNCHANGED <<start, total>>

Loop == Add \/ AddGrown
LoopSpec == LoopInit /\ [][Loop]_loopVars

-----------------------------------------------------------------------------
Real == {k \in 1..Len(slice) : slice[k].len > 0}
Has(k, b) == slice[k].pos <= b /\ b < slice[k].pos + slice[k].len

LoopTypeOK == /\ start \in 0..MaxOff /\ total \in 0..MaxLen /\ done \in 0..total
              /\ cap \in Nat \ {0} /\ Len(slice) <= cap
              /\ slice \in Seq([id : Nat, off : Nat, pos : Nat, len : Nat])

\* Every byte of the buffer handled so far is in exactly one non-empty entry,
\* which puts it at the file's offset it has and inside one stripe: no
\* goroutine transfers a byte twice, and none is left out or misplaced.
EachByteOnce ==
  /\ \A b \in 0..(done - 1) : \E k \in Real : Has(k, b)
  /\ \A b \in 0..(done - 1) : \A j, k \in Real : Has(j, b) /\ Has(k, b) => j = k
  /\ \A k \in Real : /\ slice[k].id * StripeSize + slice[k].off = start + slice[k].pos
                     /\ slice[k].off + slice[k].len <= StripeSize

\* The non-empty entries of the finished loop are the closed form the store's
\* model uses, and they are all there is exactly when the transfer has no more
\* stripes than make was asked for: 100 in stripeLayout.
IsLayout == done = total =>
  /\ {slice[k] : k \in Real} = Layout(start, total)
  /\ Real = 1..Len(slice) <=> OneSlice(start, total)
=============================================================================
