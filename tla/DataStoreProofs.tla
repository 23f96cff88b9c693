--------------------------- MODULE DataStoreProofs ---------------------------
(***************************************************************************)
(* Safety of the store for any number of processes, instances and stripes, *)
(* any calls and any interleaving of their goroutines, crashes included;   *)
(* then of writers that share a file (DisjointWriters, whose segments      *)
(* nothing before that part uses), and of a file one process has for       *)
(* itself, up to the flat file that it sees (FlatFile).                    *)
(***************************************************************************)
EXTENDS DisjointWriters, StripeLayout, FiniteSetTheorems, WellFoundedInduction, TLAPS

-----------------------------------------------------------------------------
(* The layout of a transfer: the pieces of the loop of stripeLayout *)

\* Euclidean division by the stripe size (divmod, store.go:35).
LEMMA DivMod ==
  ASSUME NEW n \in Nat
  PROVE  /\ n \div StripeSize \in Nat
         /\ n % StripeSize \in 0..(StripeSize - 1)
         /\ n = (n \div StripeSize) * StripeSize + (n % StripeSize)
  BY StripeSizeAssumption

Entry == [id : Nat, off : Nat, pos : Nat, len : Nat]

\* A piece is not empty, stays inside the buffer and inside its stripe, and is
\* the bytes of the file it should be.
LEMMA PieceFacts ==
  ASSUME NEW o \in Nat, NEW l \in Nat, NEW b \in Nat, b < l,
         NEW p, p = Piece(o, l, b)
  PROVE  /\ p \in Entry
         /\ p.pos = b /\ p.len \in Nat /\ p.len > 0 /\ b + p.len <= l
         /\ p.off + p.len <= StripeSize
         /\ p.id * StripeSize + p.off = o + b
<1>1. /\ (o + b) \div StripeSize \in Nat
      /\ (o + b) % StripeSize \in 0..(StripeSize - 1)
      /\ o + b = ((o + b) \div StripeSize) * StripeSize + ((o + b) % StripeSize)
  <2>1. o + b \in Nat
    OBVIOUS
  <2> QED
    BY <2>1, DivMod
<1> DEFINE at == (o + b) % StripeSize
           n  == Least(l - b, StripeSize - at)
<1>2. n \in Nat /\ n > 0 /\ b + n <= l /\ at + n <= StripeSize
  BY <1>1, StripeSizeAssumption DEF Least
<1>3. p = [id |-> (o + b) \div StripeSize, off |-> at, pos |-> b, len |-> n]
  BY DEF Piece
<1> HIDE DEF n
<1> QED
  BY <1>1, <1>2, <1>3 DEF Entry

\* Stripes are in the order of the bytes they hold.
LEMMA StripeOrder ==
  ASSUME NEW a \in Int, NEW b \in Int
  PROVE  /\ a * StripeSize \in Int
         /\ a < b => a * StripeSize + StripeSize <= b * StripeSize
         /\ a <= b => a * StripeSize <= b * StripeSize
  BY StripeSizeAssumption

\* A byte of the file has one place.
LEMMA OnePlace ==
  ASSUME NEW n \in Nat, NEW i \in Int, NEW r \in Nat, r < StripeSize, n = i * StripeSize + r
  PROVE  n \div StripeSize = i /\ n % StripeSize = r
<1> DEFINE a == n \div StripeSize
           m == n % StripeSize
<1>1. a \in Int /\ m \in Nat /\ m < StripeSize /\ n = a * StripeSize + m /\ StripeSize \in Nat
  BY DivMod, StripeSizeAssumption
<1> HIDE DEF a, m
<1>2. /\ a * StripeSize \in Int /\ i * StripeSize \in Int
      /\ a < i => a * StripeSize + StripeSize <= i * StripeSize
      /\ i < a => i * StripeSize + StripeSize <= a * StripeSize
  BY <1>1, StripeOrder
<1>3. PICK x, y : x = a * StripeSize /\ y = i * StripeSize
  OBVIOUS
<1>4. ~(a < i) /\ ~(i < a)
  BY <1>1, <1>2, <1>3
<1>5. a = i /\ m = r
  BY <1>1, <1>2, <1>3, <1>4
<1> QED
  BY <1>5 DEF a, m

\* Layout (stripeLayout, store.go:68): a transfer that ends at or before the end
\* of stripe m touches none after m, and its pieces are those of the loop.
LEMMA LayoutFacts ==
  ASSUME NEW o \in Nat, NEW l \in Nat, NEW m \in Nat, o + l <= (m + 1) * StripeSize,
         NEW t \in Layout(o, l)
  PROVE  /\ t \in Entry /\ t.len > 0 /\ t.id <= m
         /\ t.off + t.len <= StripeSize /\ t.pos + t.len <= l
         /\ t.id * StripeSize + t.off = o + t.pos
<1>1. l > 0
  BY DEF Layout
<1>2. PICK id \in (o \div StripeSize)..((o + l - 1) \div StripeSize) :
           t = Piece(o, l, Greatest(id * StripeSize - o, 0))
  BY <1>1 DEF Layout
<1> DEFINE b == Greatest(id * StripeSize - o, 0)
<1>3. /\ o \div StripeSize \in Nat /\ (o + l - 1) \div StripeSize \in Nat
      /\ ((o + l - 1) \div StripeSize) * StripeSize <= o + l - 1
  <2> DEFINE e == o + l - 1
  <2>1. e \in Nat
    BY <1>1
  <2> HIDE DEF e
  <2>2. /\ e \div StripeSize \in Nat /\ e % StripeSize \in Nat
        /\ e = (e \div StripeSize) * StripeSize + (e % StripeSize)
    BY <2>1, DivMod, StripeSizeAssumption
  <2>3. (e \div StripeSize) * StripeSize \in Int
    BY <2>2, StripeOrder
  <2>4. (e \div StripeSize) * StripeSize <= e
    BY <2>1, <2>2, <2>3
  <2>5. o \div StripeSize \in Nat
    BY DivMod
  <2> QED
    BY <2>2, <2>4, <2>5 DEF e
<1>4. id \in Nat /\ id * StripeSize \in Nat /\ id * StripeSize <= o + l - 1
  <2>1. id \in Nat /\ id <= (o + l - 1) \div StripeSize
    BY <1>3
  <2>2. id * StripeSize <= ((o + l - 1) \div StripeSize) * StripeSize
    BY <2>1, <1>3, StripeOrder
  <2>3. id * StripeSize \in Nat
    BY <2>1, StripeSizeAssumption
  <2>4. ((o + l - 1) \div StripeSize) * StripeSize \in Int
    BY <1>3, StripeOrder
  <2> QED
    BY <2>1, <2>2, <2>3, <2>4, <1>3
<1>5. b \in Nat /\ b < l
  BY <1>1, <1>4 DEF Greatest
<1> HIDE DEF b
<1>6. /\ t \in Entry /\ t.pos = b /\ t.len \in Nat /\ t.len > 0 /\ b + t.len <= l
      /\ t.off + t.len <= StripeSize /\ t.id * StripeSize + t.off = o + b
  <2>1. t = Piece(o, l, b)
    BY <1>2 DEF b
  <2> QED
    BY <1>5, <2>1, PieceFacts
<1>7. t.id <= m
  <2>1. t.id \in Nat /\ t.off \in Nat
    BY <1>6 DEF Entry
  <2>2. t.id * StripeSize < (m + 1) * StripeSize
    BY <2>1, <1>5, <1>6, StripeSizeAssumption
  <2>3. ~(m + 1 <= t.id)
    BY <2>1, <2>2, StripeOrder
  <2> QED
    BY <2>1, <2>3
<1> QED
  BY <1>5, <1>6, <1>7

\* lastStripeInfo (store.go:244): the last byte of a file of size bytes is the
\* byte len - 1 of stripe id; an empty file has stripe -1, full.
LEMMA LastStripeFacts ==
  ASSUME NEW size \in Nat, NEW r, r = LastStripeInfo(size)
  PROVE  /\ r.id \in Int /\ r.id >= -1 /\ r.len \in 1..StripeSize
         /\ r.id * StripeSize + r.len = size
         /\ size > 0 => r.id >= 0
         /\ r.len < StripeSize => r.id >= 0
  BY DivMod, StripeSizeAssumption DEF LastStripeInfo
-----------------------------------------------------------------------------

\* Entries lie before pos: the next piece starts after all of them.
Behind == \A k \in Real : slice[k].pos + slice[k].len <= done
LoopInv == LoopTypeOK /\ Behind /\ EachByteOnce
\* The entries with something to transfer.
Pieces == {slice[k] : k \in Real}

\* The piece an iteration appends starts where the last one has ended.
LEMMA NextPiece ==
  ASSUME start \in Nat, total \in Nat, done \in Nat, done < total, NEW p, p = Piece(start, total, done)
  PROVE  /\ p \in Entry
         /\ p.pos = done /\ p.len \in Nat /\ p.len > 0 /\ done + p.len <= total
         /\ p.off + p.len <= StripeSize
         /\ p.id * StripeSize + p.off = start + done
  BY PieceFacts

\* An iteration that appends the next piece to the entries there are, followed
\* by any number of zero entries, keeps the invariant.
LEMMA IterationKeepsInv ==
  ASSUME LoopInv, done < total, cap' \in Nat \ {0}, UNCHANGED <<start, total>>,
         NEW grown \in Seq(Entry), Len(slice) <= Len(grown), Len(grown) < cap',
         \A k \in 1..Len(grown) :
           grown[k] = IF k <= Len(slice) THEN slice[k] ELSE ZeroPiece,
         slice' = Append(grown, Piece(start, total, done)),
         done' = done + Piece(start, total, done).len
  PROVE  /\ LoopInv' /\ Pieces' = Pieces \cup {Piece(start, total, done)}
         /\ Real' = Real \cup {Len(grown) + 1} /\ Len(slice') = Len(grown) + 1
<1> DEFINE p == Piece(start, total, done)
           n == Len(grown) + 1
<1>1. start \in Nat /\ total \in Nat /\ done \in Nat /\ slice \in Seq(Entry)
  BY LayoutAssumption DEF LoopInv, LoopTypeOK, Entry
<1>a. p = Piece(start, total, done)
  OBVIOUS
<1> HIDE DEF p
<1>2. /\ p \in Entry /\ p.pos = done /\ p.len \in Nat /\ p.len > 0 /\ done + p.len <= total
      /\ p.off + p.len <= StripeSize
      /\ p.id * StripeSize + p.off = start + done
  BY <1>1, <1>a, NextPiece
<1>3. /\ slice' \in Seq(Entry) /\ Len(slice') = n /\ slice'[n] = p
      /\ \A k \in 1..Len(grown) : slice'[k] = grown[k]
  BY <1>1, <1>2, <1>a
<1>4. done' = done + p.len /\ done' \in 0..total /\ done' \in Nat
  BY <1>1, <1>2, <1>a
<1>b. Len(slice) \in Nat /\ Len(grown) \in Nat /\ n \in Nat /\ Len(slice) < n
  BY <1>1
<1>c. \A k \in 1..Len(slice) : k \in 1..Len(grown) /\ slice'[k] = slice[k]
  BY <1>b, <1>3
<1>d. \A k \in (Len(slice) + 1)..Len(grown) : slice'[k].len = 0
  <2> SUFFICES ASSUME NEW k \in (Len(slice) + 1)..Len(grown) PROVE slice'[k].len = 0
    OBVIOUS
  <2>1. k \in 1..Len(grown) /\ ~(k <= Len(slice))
    BY <1>b
  <2>2. slice'[k] = ZeroPiece
    BY <2>1, <1>3
  <2> QED
    BY <2>2 DEF ZeroPiece
<1>e. \A k : k \in Real' <=> k \in 1..n /\ slice'[k].len > 0
  BY <1>3 DEF Real
<1>f. n \in Real' /\ n \notin Real
  <2>1. n \in 1..n
    BY <1>b
  <2>2. slice'[n].len > 0
    BY <1>2, <1>3
  <2>3. n \notin 1..Len(slice)
    BY <1>b
  <2> QED
    BY <2>1, <2>2, <2>3, <1>e DEF Real
<1>g. \A k \in Real : k \in Real' /\ slice'[k] = slice[k]
  <2> SUFFICES ASSUME NEW k \in Real PROVE k \in Real' /\ slice'[k] = slice[k]
    OBVIOUS
  <2>1. k \in 1..Len(slice) /\ slice[k].len > 0
    BY DEF Real
  <2>2. k \in 1..n
    BY <2>1, <1>b
  <2> QED
    BY <2>1, <2>2, <1>c, <1>e
<1>h. \A k \in Real' : k = n \/ k \in Real
  <2> SUFFICES ASSUME NEW k \in Real', k # n PROVE k \in Real
    OBVIOUS
  <2>1. k \in 1..n /\ slice'[k].len > 0
    BY <1>e
  <2>2. k \in 1..Len(grown)
    BY <2>1, <1>b
  <2>3. k \notin (Len(slice) + 1)..Len(grown)
    <3> SUFFICES ASSUME k \in (Len(slice) + 1)..Len(grown) PROVE FALSE
      OBVIOUS
    <3>1. slice'[k].len = 0
      BY <1>d
    <3> QED
      BY <3>1, <2>1
  <2>4. k \in 1..Len(slice)
    BY <2>2, <2>3, <1>b
  <2> QED
    BY <2>1, <2>4, <1>c DEF Real
<1>5. Real' = Real \cup {n} /\ n \notin Real /\ \A k \in Real : slice'[k] = slice[k]
  BY <1>f, <1>g, <1>h
<1>6. LoopTypeOK'
  BY <1>3, <1>4 DEF LoopInv, LoopTypeOK, Entry
<1>7. \A k \in Real : slice[k].pos \in Nat /\ slice[k].len \in Nat
  <2>1. \A k \in Real : slice[k] \in Entry
    BY <1>1 DEF Real
  <2> QED
    BY <2>1 DEF Entry
<1>8. Behind'
  <2> SUFFICES ASSUME NEW k \in Real' PROVE slice'[k].pos + slice'[k].len <= done'
    BY DEF Behind
  <2>1. CASE k = n
    BY <2>1, <1>2, <1>3, <1>4
  <2>2. CASE k \in Real
    <3>1. slice[k].pos + slice[k].len <= done
      BY <2>2 DEF LoopInv, Behind
    <3>2. slice'[k] = slice[k]
      BY <2>2, <1>5
    <3>3. done <= done'
      BY <1>1, <1>2, <1>4
    <3> QED
      BY <2>2, <3>1, <3>2, <3>3, <1>1, <1>4, <1>7
  <2> QED
    BY <2>1, <2>2, <1>5
<1>9. EachByteOnce'
  <2>1. ASSUME NEW b \in 0..(done' - 1) PROVE \E k \in Real' : Has(k, b)'
    <3>1. CASE b < done
      <4>1. b \in 0..(done - 1)
        BY <3>1, <1>1, <1>2, <1>4
      <4>2. PICK k \in Real : Has(k, b)
        BY <4>1 DEF LoopInv, EachByteOnce
      <4> QED
        <5>1. k \in Real' /\ slice'[k] = slice[k]
          BY <4>2, <1>5
        <5> QED
          BY <4>2, <5>1 DEF Has
    <3>2. CASE b >= done
      <4>1. n \in Real' /\ slice'[n].pos = done /\ slice'[n].len = p.len
        BY <1>2, <1>3, <1>5
      <4>2. b < done + p.len
        BY <1>1, <1>2, <1>4
      <4>3. Has(n, b)'
        BY <3>2, <4>1, <4>2 DEF Has
      <4> QED
        BY <4>1, <4>3
    <3> QED
      BY <3>1, <3>2, <1>1, <1>2, <1>4
  <2>2. ASSUME NEW b \in 0..(done' - 1), NEW j \in Real', NEW k \in Real',
               Has(j, b)', Has(k, b)'
        PROVE  j = k
    <3>1. \A i \in Real : Has(i, b)' <=> Has(i, b)
      BY <1>5 DEF Has
    <3>2. ASSUME NEW i \in Real, Has(i, b) PROVE b < done
      <4>1. slice[i].pos + slice[i].len <= done
        BY DEF LoopInv, Behind
      <4>2. b \in Int /\ slice[i].pos \in Nat /\ slice[i].len \in Nat
        BY <1>4, <1>7
      <4> QED
        BY <1>1, <3>2, <4>1, <4>2 DEF Has
    <3>3. Has(n, b)' => b >= done
      BY <1>1, <1>2, <1>3 DEF Has
    <3>4. CASE j = n \/ k = n
      BY <3>1, <3>2, <3>3, <3>4, <2>2, <1>1, <1>2, <1>4, <1>5
    <3>5. CASE j \in Real /\ k \in Real
      <4>1. b \in 0..(done - 1)
        BY <3>1, <3>2, <3>5, <2>2, <1>1, <1>2, <1>4
      <4> QED
        BY <4>1, <3>1, <3>5, <2>2 DEF LoopInv, EachByteOnce
    <3> QED
      BY <3>4, <3>5, <1>5
  <2>3. ASSUME NEW k \in Real'
        PROVE  /\ slice'[k].id * StripeSize + slice'[k].off = start' + slice'[k].pos
               /\ slice'[k].off + slice'[k].len <= StripeSize
    <3>1. CASE k = n
      BY <3>1, <1>2, <1>3
    <3>2. CASE k \in Real
      BY <3>2, <1>5 DEF LoopInv, EachByteOnce
    <3> QED
      BY <3>1, <3>2, <1>5
  <2> QED
    BY <2>1, <2>2, <2>3 DEF EachByteOnce
<1>10. Pieces' = Pieces \cup {p}
  <2>1. Pieces' = {slice'[k] : k \in Real \cup {n}}
    BY <1>5 DEF Pieces
  <2>2. slice'[n] = p /\ \A k \in Real : slice'[k] = slice[k]
    BY <1>3, <1>5
  <2> HIDE DEF n
  <2> QED
    BY <2>1, <2>2 DEF Pieces
<1> QED
  BY <1>3, <1>5, <1>6, <1>8, <1>9, <1>10, <1>a DEF LoopInv

\* The loop has covered nothing at first.
LEMMA LoopStarts == LoopInit => LoopInv
  BY LayoutAssumption, SliceAssumption DEF LoopInit, LoopInv, LoopTypeOK, Behind, EachByteOnce, Real

\* Both kinds of iteration add one piece, and keep the invariant.
LEMMA Iterations ==
  ASSUME LoopInv, Loop
  PROVE  /\ LoopInv' /\ Pieces' = Pieces \cup {Piece(start, total, done)}
         /\ done < total /\ done' = done + Piece(start, total, done).len /\ UNCHANGED <<start, total>>
         /\ Add => Real' = Real \cup {Len(slice) + 1} /\ Len(slice') = Len(slice) + 1
         /\ AddGrown => Real' = Real \cup {2 * cap + 1} /\ Len(slice') = 2 * cap + 1
<1>1. slice \in Seq(Entry) /\ cap \in Nat \ {0}
  BY DEF LoopInv, LoopTypeOK, Entry
<1>2. CASE Add
  <2>1. \A k \in 1..Len(slice) :
          slice[k] = IF k <= Len(slice) THEN slice[k] ELSE ZeroPiece
    BY <1>1
  <2>2. ~AddGrown
    <3>1. Len(slice) < cap
      BY <1>2 DEF Add
    <3>2. Len(slice) \in Nat /\ cap \in Nat
      BY <1>1
    <3> QED
      BY <3>1, <3>2 DEF AddGrown
  <2>3. /\ done < total /\ cap' \in Nat \ {0} /\ Len(slice) < cap'
        /\ UNCHANGED <<start, total>>
        /\ slice' = Append(slice, Piece(start, total, done))
        /\ done' = done + Piece(start, total, done).len
    BY <1>1, <1>2 DEF Add
  <2>4. Len(slice) <= Len(slice)
    BY <1>1
  <2> QED
    BY <1>1, <2>1, <2>2, <2>3, <2>4, IterationKeepsInv
<1>3. CASE AddGrown
  <2>1. /\ Len(slice) \in Nat
        /\ \A k \in 1..Len(slice) : slice[k] \in Entry
    BY <1>1
  <2>2. ZeroPiece \in Entry
    BY DEF ZeroPiece, Entry
  <2>3. /\ Grow \in Seq(Entry) /\ Len(Grow) = 2 * cap
        /\ \A k \in 1..Len(Grow) :
             Grow[k] = IF k <= Len(slice) THEN slice[k] ELSE ZeroPiece
    BY <1>1, <2>1, <2>2 DEF Grow
  <2>4. Len(slice) <= Len(Grow)
    BY <1>1, <2>1, <2>3 DEF LoopInv, LoopTypeOK
  <2>5. /\ done < total /\ cap' \in Nat \ {0} /\ Len(Grow) < cap'
        /\ UNCHANGED <<start, total>>
        /\ slice' = Append(Grow, Piece(start, total, done))
        /\ done' = done + Piece(start, total, done).len
    BY <1>1, <1>3, <2>3 DEF AddGrown
  <2>6. ~Add
    <3>1. Len(slice) >= cap /\ Len(slice) \in Nat /\ cap \in Nat
      BY <1>1, <1>3 DEF AddGrown
    <3> QED
      BY <3>1 DEF Add
  <2> QED
    BY <2>3, <2>4, <2>5, <2>6, IterationKeepsInv
<1> QED
  BY <1>2, <1>3 DEF Loop

\* Each step of the loop keeps the invariant.
LEMMA LoopKeeps == LoopInv /\ [Loop]_loopVars => LoopInv'
<1> SUFFICES ASSUME LoopInv, UNCHANGED loopVars PROVE LoopInv'
  BY Iterations
<1> QED
  BY DEF loopVars, LoopInv, LoopTypeOK, Behind, EachByteOnce, Real, Has

\* stripeLayout (store.go:68): every byte of the buffer goes to one piece, at its
\* offset of the file, whatever the sizes and however often the slice grows.
THEOREM LayoutIsPartition == LoopSpec => []EachByteOnce
<1>1. LoopInv => EachByteOnce
  BY DEF LoopInv
<1> QED
  BY LoopStarts, LoopKeeps, <1>1, PTL DEF LoopSpec

-----------------------------------------------------------------------------
(***************************************************************************)
(* The closed form of the result: after the stripe e the loop is at the    *)
(* end of that stripe or of the buffer, and has the piece of every stripe  *)
(* from the first to e.  The slice has no zero entry as long as it is the  *)
(* first one, and then the entries are as many as the stripes.             *)
(***************************************************************************)
First  == start \div StripeSize
Cut(i) == Piece(start, total, Greatest(i * StripeSize - start, 0))
After(e) == /\ done > 0 /\ done > e * StripeSize - start
            /\ done = Least(total, (e + 1) * StripeSize - start)
            /\ Pieces = {Cut(i) : i \in First..e}
Counted(n) == /\ cap >= InitialCap
              /\ cap = InitialCap => Len(slice) = n /\ Real = 1..Len(slice)
              /\ cap > InitialCap => n > InitialCap /\ Real # 1..Len(slice)
LayoutInv ==
  LoopInv /\ \/ done = 0 /\ Pieces = {} /\ Counted(0)
             \/ \E e \in Nat : e >= First /\ After(e) /\ Counted(e - First + 1)

\* A piece that starts a stripe or the transfer ends with that stripe or the buffer.
LEMMA CutFacts ==
  ASSUME start \in Nat, total \in Nat, done \in Nat, done < total, NEW i \in Nat,
         done = Greatest(i * StripeSize - start, 0), start < (i + 1) * StripeSize,
         NEW b, b = done + Piece(start, total, done).len
  PROVE  /\ b > 0 /\ b > i * StripeSize - start
         /\ b = Least(total, (i + 1) * StripeSize - start)
         /\ Piece(start, total, done) = Cut(i)
<1> DEFINE r == start + done - i * StripeSize
           x == i * StripeSize
<1>1. /\ StripeSize \in Nat /\ StripeSize > 0 /\ x \in Nat /\ x \in Int
      /\ (i + 1) * StripeSize = x + StripeSize
  BY StripeSizeAssumption
<1>2. start + done \in Nat /\ r = start + done - x
  OBVIOUS
<1>3. done = Greatest(x - start, 0) /\ start < x + StripeSize
  BY <1>1
<1> HIDE DEF x, r
<1>4. r \in Nat /\ r < StripeSize
  BY <1>1, <1>2, <1>3 DEF Greatest
<1>5. start + done = x + r
  BY <1>1, <1>2, <1>4
<1>6. (start + done) % StripeSize = r
  BY <1>2, <1>4, <1>5, OnePlace DEF x
<1>7. b = done + Least(total - done, StripeSize - r)
  BY <1>6 DEF Piece
<1>8. b > 0 /\ b > x - start /\ b = Least(total, x + StripeSize - start)
  BY <1>1, <1>3, <1>4, <1>5, <1>7 DEF Greatest, Least
<1> QED
  BY <1>1, <1>8 DEF Cut, x

\* Zero entries come with the first growth, which the stripe after InitialCap
\* others makes, and they stay.
LEMMA CountKeeps ==
  ASSUME LoopInv, Loop, NEW n \in Nat, Counted(n)
  PROVE  Counted(n + 1)'
<1>1. /\ Len(slice) \in Nat /\ cap \in Nat /\ cap > 0 /\ Len(slice) <= cap
      /\ InitialCap \in Nat /\ InitialCap > 0 /\ cap >= InitialCap
      /\ Real \subseteq 1..Len(slice)
  <2>1. slice \in Seq(Entry) /\ cap \in Nat \ {0} /\ Len(slice) <= cap
    BY DEF LoopInv, LoopTypeOK, Entry
  <2>2. Len(slice) \in Nat
    BY <2>1
  <2>3. cap >= InitialCap
    BY DEF Counted
  <2>4. Real \subseteq 1..Len(slice)
    BY DEF Real
  <2> QED
    BY <2>1, <2>2, <2>3, <2>4, SliceAssumption
<1>2. CASE Add
  <2>1. cap' = cap /\ Real' = Real \cup {Len(slice) + 1} /\ Len(slice') = Len(slice) + 1
    BY <1>2, Iterations DEF Add
  <2>2. CASE cap = InitialCap
    <3>1. Len(slice) = n /\ Real = 1..Len(slice)
      BY <2>2 DEF Counted
    <3>2. Real' = 1..(Len(slice) + 1)
      BY <1>1, <2>1, <3>1
    <3> QED
      BY <1>1, <2>1, <2>2, <3>1, <3>2 DEF Counted
  <2>3. CASE cap > InitialCap
    <3>1. n > InitialCap /\ Real # 1..Len(slice)
      BY <2>3 DEF Counted
    <3>2. PICK k \in 1..Len(slice) : k \notin Real
      BY <1>1, <3>1
    <3>3. k \in 1..(Len(slice) + 1) /\ k \notin Real \cup {Len(slice) + 1}
      BY <1>1, <3>2
    <3>4. Real' # 1..Len(slice')
      BY <2>1, <3>3
    <3> QED
      BY <1>1, <2>1, <2>3, <3>1, <3>4 DEF Counted
  <2> QED
    BY <1>1, <2>2, <2>3
<1>3. CASE AddGrown
  <2>1. /\ cap' = 4 * cap /\ Len(slice) >= cap
        /\ Real' = Real \cup {2 * cap + 1} /\ Len(slice') = 2 * cap + 1
    BY <1>3, Iterations DEF AddGrown
  <2>2. n + 1 > InitialCap
    BY <1>1, <2>1 DEF Counted
  <2>3. Len(slice) + 1 \in 1..(2 * cap + 1) /\ Len(slice) + 1 \notin Real \cup {2 * cap + 1}
    BY <1>1
  <2>4. Real' # 1..Len(slice')
    BY <2>1, <2>3
  <2>5. cap' > InitialCap
    BY <1>1, <2>1
  <2> QED
    BY <1>1, <2>1, <2>2, <2>4, <2>5 DEF Counted
<1> QED
  BY <1>2, <1>3 DEF Loop

\* An iteration adds the piece of the next stripe.
LEMMA IterationCuts ==
  ASSUME LayoutInv, Loop
  PROVE  LayoutInv'
<1>1. /\ LoopInv /\ LoopInv' /\ Pieces' = Pieces \cup {Piece(start, total, done)} /\ UNCHANGED <<start, total>>
      /\ done < total /\ done' = done + Piece(start, total, done).len
  BY Iterations DEF LayoutInv
<1>2. start \in Nat /\ total \in Nat /\ done \in Nat /\ StripeSize \in Nat /\ StripeSize > 0
  BY <1>1, LayoutAssumption, StripeSizeAssumption DEF LoopInv, LoopTypeOK
<1>3. /\ First \in Nat /\ start % StripeSize \in 0..(StripeSize - 1)
      /\ start = First * StripeSize + (start % StripeSize)
  BY <1>2, DivMod DEF First
<1>4. ASSUME NEW i \in Nat, i >= First, done = Greatest(i * StripeSize - start, 0),
             start < (i + 1) * StripeSize, Pieces = {Cut(j) : j \in First..(i - 1)},
             Counted(i - First)
      PROVE  LayoutInv'
  <2>1. /\ done' > 0 /\ done' > i * StripeSize - start
        /\ done' = Least(total, (i + 1) * StripeSize - start)
        /\ Piece(start, total, done) = Cut(i)
    BY <1>1, <1>2, <1>4, CutFacts
  <2>2. First..i = (First..(i - 1)) \cup {i}
    BY <1>3, <1>4
  <2>3. Pieces' = {Cut(j) : j \in First..i}
    BY <1>1, <1>4, <2>1, <2>2
  <2>4. First' = First /\ \A j : Cut(j)' = Cut(j)
    BY <1>1 DEF First, Cut
  <2>5. After(i)'
    BY <1>1, <2>1, <2>3, <2>4 DEF After
  <2>6. PICK n \in Nat : n = i - First
    BY <1>3, <1>4
  <2>7. Counted(n + 1)'
    BY <1>1, <1>4, <2>6, CountKeeps
  <2>8. n + 1 = i - First' + 1
    BY <2>4, <2>6
  <2>9. Counted(i - First + 1)'
    BY <2>7, <2>8
  <2> QED
    BY <1>1, <1>4, <2>4, <2>5, <2>9 DEF LayoutInv
<1>5. CASE done = 0 /\ Pieces = {} /\ Counted(0)
  <2> DEFINE x == First * StripeSize
  <2>1. x \in Int /\ (First + 1) * StripeSize = x + StripeSize
    BY <1>2, <1>3
  <2>2. start = x + (start % StripeSize)
    BY <1>3
  <2> HIDE DEF x
  <2>3. start < x + StripeSize /\ done = Greatest(x - start, 0)
    BY <1>2, <1>3, <1>5, <2>1, <2>2 DEF Greatest
  <2>4. First..(First - 1) = {} /\ First - First = 0
    BY <1>3
  <2> QED
    BY <1>3, <1>4, <1>5, <2>1, <2>3, <2>4 DEF x
<1>6. ASSUME NEW e \in Nat, e >= First, After(e), Counted(e - First + 1) PROVE LayoutInv'
  <2> DEFINE x == (e + 1) * StripeSize
  <2>1. x \in Int /\ (e + 1 + 1) * StripeSize = x + StripeSize
    BY <1>2
  <2>2. done = Least(total, x - start) /\ done > 0 /\ Pieces = {Cut(j) : j \in First..e}
    BY <1>6 DEF After
  <2> HIDE DEF x
  <2>3. done = x - start /\ done = Greatest(x - start, 0) /\ start < x + StripeSize
    BY <1>1, <1>2, <2>1, <2>2 DEF Least, Greatest
  <2>4. e + 1 \in Nat /\ e + 1 >= First /\ (e + 1) - 1 = e /\ e - First + 1 = (e + 1) - First
    BY <1>3, <1>6
  <2> QED
    BY <1>4, <1>6, <2>1, <2>2, <2>3, <2>4 DEF x
<1> QED
  BY <1>5, <1>6 DEF LayoutInv

\* When the loop ends, e is the stripe of the last byte.
LEMMA EndIsLayout == LayoutInv => IsLayout
<1> SUFFICES ASSUME LayoutInv, done = total
             PROVE  /\ Pieces = Layout(start, total)
                    /\ Real = 1..Len(slice) <=> OneSlice(start, total)
  BY DEF IsLayout, Pieces
<1>1. start \in Nat /\ total \in Nat /\ StripeSize \in Nat /\ StripeSize > 0
  BY LayoutAssumption, StripeSizeAssumption DEF LayoutInv, LoopInv, LoopTypeOK
<1>a. /\ Len(slice) <= cap /\ Len(slice) \in Nat /\ cap \in Nat
      /\ InitialCap \in Nat /\ InitialCap > 0
  BY SliceAssumption DEF LayoutInv, LoopInv, LoopTypeOK
<1>b. ASSUME NEW n \in Nat, Counted(n), Stripes(start, total) = n
      PROVE  Real = 1..Len(slice) <=> OneSlice(start, total)
  BY <1>a, <1>b DEF Counted, OneSlice
<1>2. CASE done = 0 /\ Pieces = {} /\ Counted(0)
  <2>1. Stripes(start, total) = 0
    BY <1>2 DEF Stripes
  <2> QED
    BY <1>2, <1>b, <2>1 DEF Layout
<1>3. ASSUME NEW e \in Nat, e >= First, After(e), Counted(e - First + 1)
      PROVE  /\ Pieces = Layout(start, total)
             /\ Real = 1..Len(slice) <=> OneSlice(start, total)
  <2> DEFINE x == e * StripeSize
             r == start + total - 1 - x
  <2>1. x \in Int /\ (e + 1) * StripeSize = x + StripeSize
    BY <1>1
  <2>2. total > 0 /\ total > x - start /\ total = Least(total, (e + 1) * StripeSize - start)
    BY <1>3 DEF After
  <2> HIDE DEF x
  <2>3. r \in Nat /\ r < StripeSize /\ start + total - 1 = x + r /\ start + total - 1 \in Nat
    BY <1>1, <2>1, <2>2 DEF Least
  <2> HIDE DEF r
  <2>4. (start + total - 1) \div StripeSize = e
    BY <2>3, OnePlace DEF x
  <2>5. total # 0
    BY <1>1, <2>2
  <2>6. Pieces = Layout(start, total)
    BY <1>3, <2>4, <2>5 DEF After, Layout, Cut, First
  <2>7. Stripes(start, total) = e - First + 1
    BY <2>4, <2>5 DEF Stripes, First
  <2>8. e - First + 1 \in Nat
    <3>1. First \in Nat
      BY <1>1, DivMod DEF First
    <3> QED
      BY <1>3, <3>1
  <2> QED
    BY <1>3, <1>b, <2>6, <2>7, <2>8
<1> QED
  BY <1>2, <1>3 DEF LayoutInv

\* stripeLayout (store.go:68): what the loop returns for a transfer is the closed
\* form with which the store's model starts its goroutines, and nothing else as
\* long as the transfer has at most InitialCap stripes (100 in the code); beyond,
\* there always are zero-valued entries too.
THEOREM LoopIsLayout == LoopSpec => []IsLayout
<1>1. LoopInit => LayoutInv
  <2> SUFFICES ASSUME LoopInit PROVE LayoutInv
    OBVIOUS
  <2>1. Real = {} /\ done = 0 /\ Len(slice) = 0 /\ cap = InitialCap
    BY DEF LoopInit, Real
  <2>2. Counted(0)
    BY <2>1, SliceAssumption DEF Counted
  <2> QED
    BY <2>1, <2>2, LoopStarts DEF LayoutInv, Pieces
<1>2. LayoutInv /\ [Loop]_loopVars => LayoutInv'
  <2> SUFFICES ASSUME LayoutInv, UNCHANGED loopVars PROVE LayoutInv'
    BY IterationCuts
  <2>1. LoopInv'
    BY LoopKeeps DEF LayoutInv
  <2>2. UNCHANGED <<start, total, done, slice, cap>>
    BY DEF loopVars
  <2>3. Pieces' = Pieces /\ Real' = Real /\ First' = First /\ \A j : Cut(j)' = Cut(j)
    BY <2>2 DEF Pieces, Real, First, Cut
  <2>4. \A e : (After(e) => After(e)') /\ (Counted(e) => Counted(e)')
    BY <2>2, <2>3 DEF After, Counted
  <2> QED
    BY <2>1, <2>2, <2>3, <2>4 DEF LayoutInv
<1> QED
  BY <1>1, <1>2, EndIsLayout, PTL DEF LoopSpec

-----------------------------------------------------------------------------
(* The store *)

\* Goroutines stay inside their stripe, and only a trim is ever given stripe -1.
Fits == \A p \in Proc : \A t \in call[p].todo :
          t.off + t.len <= StripeSize /\ (t.kind # "trim" => t.id >= 0)
Inv == TypeOK /\ Fits /\ RegisteredIsStored

\* What a set of goroutines must be for a process to start it.
Good(tasks) == /\ tasks \subseteq Tasks
               /\ \A t \in tasks : t.off + t.len <= StripeSize /\ (t.kind # "trim" => t.id >= 0)

\* The bound on sizes is a natural number of whole stripes.
LEMMA MaxSizeFacts ==
  MaxSize \in Nat /\ \A id \in Ids : id * StripeSize + StripeSize <= MaxSize
<1>1. MaxStripe \in Nat
  BY StoreAssumption
<1>2. MaxSize \in Nat
  BY <1>1, StripeSizeAssumption DEF MaxSize
<1>3. ASSUME NEW id \in Ids PROVE id * StripeSize + StripeSize <= MaxSize
  <2>1. id \in Int /\ MaxStripe + 1 \in Int /\ id < MaxStripe + 1
    BY <1>1 DEF Ids
  <2> QED
    BY <2>1, StripeOrder DEF MaxSize
<1> QED
  BY <1>2, <1>3

\* stripeLayout gives a transfer inside the bounds goroutines that fit.
LEMMA TransferIsGood ==
  ASSUME NEW kind \in {"write", "read"}, NEW o \in Nat, NEW l \in Nat,
         o + l <= MaxSize, NEW v \in Byte
  PROVE  Good(Transfer(kind, o, l, v))
<1> SUFFICES ASSUME NEW t \in Layout(o, l)
             PROVE  LET k == Task(kind, t.id, t.off, t.pos, t.len, v)
                    IN  k \in Tasks /\ k.off + k.len <= StripeSize /\ k.id >= 0
  BY DEF Good, Transfer
<1>1. MaxStripe \in Nat
  BY StoreAssumption
<1>2. /\ t \in Entry /\ t.len > 0 /\ t.id <= MaxStripe
      /\ t.off + t.len <= StripeSize /\ t.pos + t.len <= l
  BY <1>1, LayoutFacts DEF MaxSize
<1>3. /\ t.id \in Ids /\ t.id >= 0 /\ t.off \in 0..(StripeSize - 1)
      /\ t.len \in 0..StripeSize /\ t.pos \in 0..MaxSize
  BY <1>1, <1>2, MaxSizeFacts, StripeSizeAssumption DEF Entry, Ids
<1> QED
  BY <1>2, <1>3 DEF Task, Tasks

\* Remove and Resize remove stripes whose ids exist.
LEMMA RemovalIsGood ==
  ASSUME NEW ids \in SUBSET Ids, \A id \in ids : id >= 0
  PROVE  Good(RemoveTasks(ids))
<1>1. MaxSize \in Nat /\ 0 \in 0..(StripeSize - 1) /\ 0 \in 0..StripeSize /\ Zero \in Byte
  BY MaxSizeFacts, StripeSizeAssumption, StoreAssumption
<1>2. \A id \in ids : LET k == Task("remove", id, 0, 0, 0, Zero)
                      IN  k \in Tasks /\ k.off = 0 /\ k.len = 0 /\ k.id >= 0
  BY <1>1 DEF Task, Tasks
<1> QED
  BY <1>1, <1>2, StripeSizeAssumption DEF Good, RemoveTasks

\* The byte with which Resize extends a stripe lies inside it.
LEMMA ZeroByteIsGood ==
  ASSUME NEW id \in Ids, id >= 0, NEW o \in 0..(StripeSize - 1)
  PROVE  Good({ZeroByte(id, o)})
<1>1. MaxSize \in Nat /\ 1 \in 0..StripeSize /\ Zero \in Byte
  BY MaxSizeFacts, StripeSizeAssumption, StoreAssumption
<1> QED
  BY <1>1, StripeSizeAssumption DEF ZeroByte, Task, Tasks, Good

\* Resize never hands a negative stripe to a write or a removal.
LEMMA ResizeIsGood ==
  ASSUME NEW cur \in 0..MaxSize, NEW new \in 0..MaxSize
  PROVE  Good(ResizeTasks(cur, new))
<1> DEFINE c == LastStripeInfo(cur)
           w == LastStripeInfo(new)
<1>0. MaxSize \in Nat /\ MaxStripe \in Nat /\ cur \in Nat /\ new \in Nat
  BY MaxSizeFacts, StoreAssumption
<1>1. /\ c.id \in Int /\ c.id >= -1 /\ c.len \in 1..StripeSize
      /\ c.id * StripeSize + c.len = cur /\ (c.len < StripeSize => c.id >= 0)
  BY <1>0, LastStripeFacts
<1>2. /\ w.id \in Int /\ w.id >= -1 /\ w.len \in 1..StripeSize
      /\ w.id * StripeSize + w.len = new /\ (new > 0 => w.id >= 0)
  BY <1>0, LastStripeFacts
<1> HIDE DEF c, w
<1>3. ASSUME NEW id \in Int, NEW len \in 1..StripeSize, id >= -1,
             id * StripeSize + len <= MaxSize
      PROVE  id \in Ids
  <2>1. MaxStripe + 1 <= id => (MaxStripe + 1) * StripeSize <= id * StripeSize
    BY <1>0, StripeOrder
  <2>2. id * StripeSize \in Int /\ StripeSize \in Nat
    BY StripeOrder, StripeSizeAssumption
  <2>3. ~(MaxStripe + 1 <= id)
    BY <1>0, <1>3, <2>1, <2>2 DEF MaxSize
  <2> QED
    BY <1>0, <1>3, <2>3 DEF Ids
<1>4. c.id \in Ids /\ w.id \in Ids
  BY <1>0, <1>1, <1>2, <1>3
<1>5. \A a, b \in Ids : (a + 1)..b \subseteq Ids /\ (a + 1)..(b - 1) \subseteq Ids
  BY <1>0 DEF Ids
<1>6. \A S, T : Good(S) /\ Good(T) => Good(S \cup T)
  BY DEF Good
<1>7. Good({})
  BY DEF Good
<1>8. CASE new < cur
  <2>1. Good(RemoveTasks((w.id + 1)..c.id))
    <3>1. (w.id + 1)..c.id \in SUBSET Ids
      BY <1>4, <1>5
    <3>2. \A id \in (w.id + 1)..c.id : id >= 0
      BY <1>1, <1>2
    <3> HIDE DEF RemoveTasks
    <3> QED
      BY <3>1, <3>2, RemovalIsGood
  <2>2. Good({Task("trim", w.id, 0, 0, w.len, Zero)})
    BY <1>0, <1>2, <1>4, StripeSizeAssumption, StoreAssumption DEF Good, Task, Tasks
  <2>3. ResizeTasks(cur, new) =
          RemoveTasks((w.id + 1)..c.id) \cup {Task("trim", w.id, 0, 0, w.len, Zero)}
    BY <1>8 DEF ResizeTasks, c, w
  <2> QED
    BY <2>1, <2>2, <2>3, <1>6
<1>9. CASE new > cur
  <2> DEFINE mid  == {ZeroByte(id, StripeSize - 1) : id \in (c.id + 1)..(w.id - 1)}
             end  == {ZeroByte(w.id, w.len - 1)}
             fill == IF c.len < StripeSize THEN {ZeroByte(c.id, StripeSize - c.len - 1)} ELSE {}
  <2>1. Good(mid)
    <3>1. \A id \in (c.id + 1)..(w.id - 1) : Good({ZeroByte(id, StripeSize - 1)})
      BY <1>1, <1>2, <1>4, <1>5, ZeroByteIsGood, StripeSizeAssumption
    <3> QED
      BY <3>1 DEF Good
  <2>2. Good(end)
    BY <1>0, <1>2, <1>4, <1>9, ZeroByteIsGood, StripeSizeAssumption
  <2>3. Good(fill)
    BY <1>1, <1>4, <1>7, ZeroByteIsGood, StripeSizeAssumption
  <2>4. ResizeTasks(cur, new) = (mid \cup end) \cup fill
    BY <1>0, <1>9 DEF ResizeTasks, c, w
  <2> HIDE DEF mid, end, fill
  <2> QED
    BY <2>1, <2>2, <2>3, <2>4, <1>6
<1>10. CASE new = cur
  BY <1>0, <1>10, <1>7 DEF ResizeTasks
<1> QED
  BY <1>0, <1>8, <1>9, <1>10

\* SETRANGE inside a stripe and GETRANGE keep a value within the stripe size.
LEMMA RangesFit ==
  ASSUME NEW s \in Seq(Byte), Len(s) <= StripeSize, NEW o \in Nat, NEW l \in Nat,
         o + l <= StripeSize, NEW v \in Byte
  PROVE  /\ SetRange(s, o, l, v) \in Seq(Byte) /\ Len(SetRange(s, o, l, v)) <= StripeSize
         /\ GetRange(s, o, l) \in Seq(Byte) /\ Len(GetRange(s, o, l)) <= Len(s)
<1> DEFINE n == IF o + l > Len(s) THEN o + l ELSE Len(s)
           e == IF o + l > Len(s) THEN Len(s) ELSE o + l
<1>1. n \in Nat /\ n <= StripeSize /\ e \in Nat /\ e <= Len(s) /\ Zero \in Byte
  BY StoreAssumption
<1>2. SetRange(s, o, l, v) =
        [k \in 1..n |-> IF o < k /\ k <= o + l THEN v ELSE IF k <= Len(s) THEN s[k] ELSE Zero]
  BY DEF SetRange
<1>3. \A k \in 1..n : k <= Len(s) => s[k] \in Byte
  OBVIOUS
<1>4. GetRange(s, o, l) = SubSeq(s, o + 1, e)
  BY DEF GetRange
<1> HIDE DEF n, e
<1>5. SetRange(s, o, l, v) \in Seq(Byte) /\ Len(SetRange(s, o, l, v)) = n
  BY <1>1, <1>2, <1>3
<1>6. GetRange(s, o, l) \in Seq(Byte) /\ Len(GetRange(s, o, l)) <= Len(s)
  BY <1>1, <1>4
<1> QED
  BY <1>1, <1>5, <1>6

\* A process that moves to another point of its call, or starts or ends one.
LEMMA CallChange ==
  ASSUME TypeOK, Fits, NEW p \in Proc, NEW c \in Calls, Good(c.todo),
         call' = [call EXCEPT ![p] = c]
  PROVE  call' \in [Proc -> Calls] /\ Fits'
  BY DEF TypeOK, Fits, Good

\* A process between two calls.
LEMMA IdleIsCall == Idle \in Calls /\ Good(Idle.todo)
<1>1. MaxSize \in Nat /\ Zero \in Byte /\ -1 \in Ids
  BY MaxSizeFacts, StoreAssumption DEF Ids
<1> QED
  BY <1>1 DEF Idle, Calls, Good

\* The last of a set of stripes: its maximum, which exists as Ids is bounded.
LEMMA LastFacts ==
  ASSUME NEW S \in SUBSET Ids
  PROVE  /\ Last(S) \in Ids /\ Last(S) \in S \cup {-1}
         /\ \A id \in S : id <= Last(S)
<1> DEFINE U == {n \in Nat : \A id \in S : id <= n - 1}
<1>1. MaxStripe + 1 \in U
  BY StoreAssumption DEF Ids
<1>2. PICK n \in U : \A k \in U : <<k, n>> \notin OpToRel(<, Nat)
  <2>1. U \subseteq Nat /\ U # {}
    BY <1>1
  <2> QED
    BY <2>1, WFMin, NatLessThanWellFounded, Zenon
<1>3. \A k \in U : ~(k < n)
  BY <1>2 DEF OpToRel
<1>4. \E m \in S \cup {-1} : \A id \in S : id <= m
  <2>1. CASE n = 0
    BY <2>1
  <2>2. CASE n > 0
    <3>1. n - 1 \notin U /\ n - 1 \in Nat
      BY <1>3, <2>2
    <3>2. PICK id \in S : ~(id <= n - 2)
      BY <3>1
    <3>3. id = n - 1
      BY <3>2, <2>2, StoreAssumption DEF Ids
    <3> QED
      BY <3>3
  <2> QED
    BY <2>1, <2>2
<1>5. Last(S) \in S \cup {-1} /\ \A id \in S : id <= Last(S)
  BY <1>4 DEF Last
<1>6. -1 \in Ids
  BY StoreAssumption DEF Ids
<1> QED
  BY <1>5, <1>6

-----------------------------------------------------------------------------
\* One lemma for each kind of step.  The steps that touch no stripe:
LEMMA LocalStep ==
  ASSUME Inv, NEW p \in Proc, NEW c \in Calls, Good(c.todo),
         call' = [call EXCEPT ![p] = c], UNCHANGED redis
  PROVE  Inv'
<1>1. call' \in [Proc -> Calls] /\ Fits'
  BY CallChange DEF Inv
<1> QED
  BY <1>1 DEF Inv, TypeOK, RegisteredIsStored, redis

\* The start of a call computes the goroutines it will run.
LEMMA CallSteps ==
  ASSUME Inv, NEW p \in Proc, Call(p)
  PROVE  Inv'
<1>0. /\ MaxSize \in Nat /\ Zero \in Byte /\ -1 \in Ids /\ 0 \in 0..MaxSize
      /\ Instance \in SUBSET Instance
  BY MaxSizeFacts, StoreAssumption DEF Ids
<1>1. ASSUME NEW off \in 0..MaxSize, NEW len \in 0..(MaxSize - off), CallRead(p, off, len)
      PROVE  Inv'
  <2> DEFINE c == [Idle EXCEPT !.op = "read", !.phase = "stripes", !.off = off, !.len = len,
                               !.todo = Transfer("read", off, len, Zero),
                               !.buf = [k \in 1..len |-> NoByte]]
  <2>1. Good(Transfer("read", off, len, Zero))
    BY <1>0, TransferIsGood
  <2>2. [k \in 1..len |-> NoByte] \in Seq(Byte \cup {NoByte})
    BY <1>0
  <2>a. Transfer("read", off, len, Zero) \in SUBSET Tasks /\ off \in 0..MaxSize /\ len \in 0..MaxSize
    BY <1>0, <2>1 DEF Good
  <2>b. c \in Calls
    BY <1>0, <2>2, <2>a DEF Idle, Calls
  <2>3. c \in Calls /\ Good(c.todo)
    BY <2>1, <2>b DEF Idle
  <2>4. call' = [call EXCEPT ![p] = c] /\ UNCHANGED redis
    BY <1>1 DEF CallRead, Begin
  <2> HIDE DEF c
  <2> QED
    BY <2>3, <2>4, LocalStep
<1>2. ASSUME NEW off \in 0..MaxSize, NEW len \in 0..(MaxSize - off), NEW v \in Byte,
             CallWrite(p, off, len, v)
      PROVE  Inv'
  <2> DEFINE c == [Idle EXCEPT !.op = "write", !.phase = "stripes", !.off = off, !.len = len,
                               !.val = v, !.todo = Transfer("write", off, len, v)]
  <2>1. Good(Transfer("write", off, len, v))
    BY <1>0, TransferIsGood
  <2>a. Transfer("write", off, len, v) \in SUBSET Tasks /\ off \in 0..MaxSize /\ len \in 0..MaxSize
    BY <1>0, <2>1 DEF Good
  <2>b. c \in Calls
    BY <1>0, <2>a, IdleIsCall DEF Calls
  <2>2. c \in Calls /\ Good(c.todo)
    BY <2>1, <2>b DEF Idle
  <2>3. call' = [call EXCEPT ![p] = c] /\ UNCHANGED redis
    BY <1>2 DEF CallWrite, Begin
  <2> HIDE DEF c
  <2> QED
    BY <2>2, <2>3, LocalStep
<1>3. ASSUME NEW op \in {"size", "remove", "resize"}, NEW len \in 0..MaxSize,
             CallSearching(p, op, len)
      PROVE  Inv'
  <2> DEFINE c == [Idle EXCEPT !.op = op, !.phase = "search", !.len = len, !.asked = Instance]
  <2>a. c \in Calls
    BY <1>0, IdleIsCall DEF Calls
  <2>1. c \in Calls /\ Good(c.todo)
    BY <2>a DEF Idle, Good
  <2>2. call' = [call EXCEPT ![p] = c] /\ UNCHANGED redis
    BY <1>3 DEF CallSearching, Begin
  <2> HIDE DEF c
  <2> QED
    BY <2>1, <2>2, LocalStep
<1> QED
  BY <1>0, <1>1, <1>2, <1>3 DEF Call, CallResize, CallGetSize, CallRemove

\* The steps of searchLastStripe and GetSize, and what they start.
LEMMA SearchSteps ==
  ASSUME Inv, NEW p \in Proc,
         \/ \E i \in Instance : SearchInstance(p, i)
         \/ SizeOfNone(p) \/ Strlen(p) \/ StartRemoving(p)
  PROVE  Inv'
<1>0. call \in [Proc -> Calls] /\ call[p] \in Calls /\ Good(call[p].todo)
  BY DEF Inv, TypeOK, Fits, Good, Calls
<1>1. ASSUME NEW i \in Instance, SearchInstance(p, i) PROVE Inv'
  <2> DEFINE c == [call[p] EXCEPT !.asked = @ \ {i}, !.last = Last(reg[i] \cup {call[p].last})]
  <2>1. reg[i] \cup {call[p].last} \in SUBSET Ids
    BY <1>0 DEF Inv, TypeOK, Calls
  <2>2. c \in Calls /\ c.todo = call[p].todo
    BY <1>0, <2>1, LastFacts DEF Calls
  <2>3. call' = [call EXCEPT ![p] = c] /\ UNCHANGED redis
    BY <1>0, <1>1 DEF SearchInstance
  <2> HIDE DEF c
  <2> QED
    BY <1>0, <2>2, <2>3, LocalStep
<1>2. ASSUME NEW size \in 0..MaxSize, Sized(p, size), UNCHANGED redis PROVE Inv'
  <2> DEFINE todo == IF call[p].op = "resize" THEN ResizeTasks(size, call[p].len) ELSE {}
             c == [call[p] EXCEPT !.phase = "stripes",
                                  !.n = IF call[p].op = "size" THEN size ELSE 0, !.todo = todo]
  <2>1. Good(todo)
    BY <1>0, ResizeIsGood DEF Good, Calls
  <2>2. call' = [call EXCEPT ![p] = c]
    BY <1>0, <1>2 DEF Sized
  <2> HIDE DEF todo
  <2>a. todo \in SUBSET Tasks /\ (IF call[p].op = "size" THEN size ELSE 0) \in Nat
    BY <2>1, MaxSizeFacts DEF Good
  <2>3. c \in Calls /\ c.todo = todo
    BY <1>0, <2>a DEF Calls
  <2> HIDE DEF c
  <2> QED
    BY <1>2, <2>1, <2>2, <2>3, LocalStep
<1>3. CASE SizeOfNone(p)
  BY <1>2, <1>3, MaxSizeFacts DEF SizeOfNone
<1>4. CASE Strlen(p)
  <2> DEFINE l == call[p].last
             m == Len(stripe[l])
  <2>1. l \in Ids /\ l \in Nat /\ m \in Nat /\ m <= StripeSize
    BY <1>0, <1>4, StoreAssumption DEF Strlen, Calls, Inv, TypeOK, Ids
  <2> HIDE DEF l, m
  <2>2. l * StripeSize \in Nat /\ l * StripeSize + StripeSize <= MaxSize /\ MaxSize \in Nat
    BY <2>1, MaxSizeFacts, StripeSizeAssumption
  <2>3. l * StripeSize + m \in 0..MaxSize
    BY <2>1, <2>2, StripeSizeAssumption
  <2> QED
    BY <1>2, <1>4, <2>3 DEF Strlen, l, m
<1>5. CASE StartRemoving(p)
  <2> DEFINE todo == RemoveTasks(0..call[p].last)
             c == [call[p] EXCEPT !.phase = "stripes", !.todo = todo]
  <2>1. 0..call[p].last \in SUBSET Ids /\ \A id \in 0..call[p].last : id >= 0
    BY <1>0, StoreAssumption DEF Calls, Ids
  <2>2. Good(todo)
    BY <2>1, RemovalIsGood
  <2>3. call' = [call EXCEPT ![p] = c] /\ UNCHANGED redis
    BY <1>0, <1>5 DEF StartRemoving
  <2> HIDE DEF todo
  <2>4. c \in Calls /\ c.todo = todo
    BY <1>0, <2>2 DEF Calls, Good
  <2> HIDE DEF c
  <2> QED
    BY <2>2, <2>3, <2>4, LocalStep
<1> QED
  BY <1>1, <1>3, <1>4, <1>5

\* The steps of the goroutines on the stripes.
LEMMA StripeSteps ==
  ASSUME Inv, NEW p \in Proc, NEW t \in call[p].todo,
         WriteStripe(p, t) \/ ReadStripe(p, t) \/ RemoveStripe(p, t) \/ TrimStripe(p, t)
  PROVE  Inv'
<1>0. call \in [Proc -> Calls] /\ call[p] \in Calls /\ Good(call[p].todo)
  BY DEF Inv, TypeOK, Fits, Good, Calls
<1>1. /\ t \in Tasks /\ t.id \in Ids /\ t.off \in Nat /\ t.len \in Nat /\ t.val \in Byte
      /\ t.off + t.len <= StripeSize /\ (t.kind # "trim" => t.id >= 0)
  BY <1>0 DEF Good, Tasks
<1>2. /\ stripe \in [Ids -> Seq(Byte)] /\ reg \in [Instance -> SUBSET Ids] /\ stored \subseteq Ids
      /\ \A id \in Ids : Len(stripe[id]) <= StripeSize
      /\ Home[t.id] \in Instance
  BY <1>1, StoreAssumption DEF Inv, TypeOK
<1>3. ASSUME Done(p, t) PROVE call' \in [Proc -> Calls] /\ Fits'
  <2> DEFINE c == [call[p] EXCEPT !.todo = @ \ {t}]
  <2>1. call' = [call EXCEPT ![p] = c]
    BY <1>0, <1>3 DEF Done
  <2>2. c \in Calls /\ c.todo = call[p].todo \ {t}
    BY <1>0 DEF Calls
  <2>3. Good(call[p].todo \ {t})
    BY <1>0 DEF Good
  <2> HIDE DEF c
  <2> QED
    BY <2>1, <2>2, <2>3, CallChange DEF Inv
<1>4. ASSUME NEW s \in Seq(Byte), Len(s) <= StripeSize, stripe' = [stripe EXCEPT ![t.id] = s]
      PROVE  stripe' \in [Ids -> Seq(Byte)] /\ \A id \in Ids : Len(stripe'[id]) <= StripeSize
  BY <1>1, <1>2, <1>4
<1>5. CASE WriteStripe(p, t)
  <2>1. call' \in [Proc -> Calls] /\ Fits'
    BY <1>3, <1>5 DEF WriteStripe
  <2>2. /\ [k \in 1..t.len |-> t.val] \in Seq(Byte)
        /\ Len([k \in 1..t.len |-> t.val]) <= StripeSize
    <3>1. t.len \in Nat /\ t.len <= StripeSize /\ t.val \in Byte
      BY <1>1, StripeSizeAssumption
    <3> QED
      BY <3>1
  <2>3. stripe' \in [Ids -> Seq(Byte)] /\ \A id \in Ids : Len(stripe'[id]) <= StripeSize
    BY <1>1, <1>2, <1>4, <1>5, <2>2, RangesFit DEF WriteStripe
  <2>4. reg' \in [Instance -> SUBSET Ids] /\ stored' \subseteq Ids
    BY <1>1, <1>2, <1>5 DEF WriteStripe
  <2>5. t.id >= 0
    BY <1>1, <1>5 DEF WriteStripe, Doing
  <2>6. RegisteredIsStored'
    BY <1>1, <1>2, <1>5, <2>5 DEF WriteStripe, RegisteredIsStored, Inv
  <2> QED
    BY <2>1, <2>3, <2>4, <2>6 DEF Inv, TypeOK
<1>6. CASE ReadStripe(p, t)
  <2> DEFINE got == GetRange(stripe[t.id], t.off, t.len)
             buf == [k \in DOMAIN call[p].buf |->
                       IF t.pos < k /\ k <= t.pos + Len(got) THEN got[k - t.pos] ELSE call[p].buf[k]]
             c == [call[p] EXCEPT !.todo = @ \ {t}, !.n = @ + Len(got), !.buf = buf]
  <2>1. got \in Seq(Byte)
    BY <1>1, <1>2, RangesFit
  <2>2. call[p].buf \in Seq(Byte \cup {NoByte}) /\ t.pos \in Nat
    BY <1>0, <1>1, MaxSizeFacts DEF Calls, Tasks
  <2>3. call' = [call EXCEPT ![p] = c] /\ UNCHANGED redis
    BY <1>0, <1>6 DEF ReadStripe
  <2> HIDE DEF got
  <2>4. buf \in Seq(Byte \cup {NoByte}) /\ Len(got) \in Nat
    BY <2>1, <2>2
  <2> HIDE DEF buf
  <2>5. c \in Calls /\ c.todo = call[p].todo \ {t}
    <3>1. call[p].n + Len(got) \in Nat /\ call[p].todo \ {t} \in SUBSET Tasks
      BY <1>0, <2>4 DEF Calls
    <3> QED
      BY <1>0, <2>4, <3>1 DEF Calls
  <2>6. Good(call[p].todo \ {t})
    BY <1>0 DEF Good
  <2> HIDE DEF c
  <2> QED
    BY <2>3, <2>5, <2>6, LocalStep
<1>7. CASE RemoveStripe(p, t)
  <2>1. call' \in [Proc -> Calls] /\ Fits'
    BY <1>3, <1>7 DEF RemoveStripe
  <2>2. <<>> \in Seq(Byte) /\ Len(<<>>) <= StripeSize
    BY StripeSizeAssumption
  <2>3. stripe' \in [Ids -> Seq(Byte)] /\ \A id \in Ids : Len(stripe'[id]) <= StripeSize
    BY <1>4, <1>7, <2>2 DEF RemoveStripe
  <2>4. reg' \in [Instance -> SUBSET Ids] /\ stored' \subseteq Ids
    BY <1>1, <1>2, <1>7 DEF RemoveStripe
  <2>5. RegisteredIsStored'
    BY <1>1, <1>2, <1>7 DEF RemoveStripe, RegisteredIsStored, Inv
  <2> QED
    BY <2>1, <2>3, <2>4, <2>5 DEF Inv, TypeOK
<1>8. CASE TrimStripe(p, t)
  <2>1. call' \in [Proc -> Calls] /\ Fits'
    BY <1>3, <1>8 DEF TrimStripe
  <2>2. /\ GetRange(stripe[t.id], 0, t.len) \in Seq(Byte)
        /\ Len(GetRange(stripe[t.id], 0, t.len)) <= StripeSize
    <3>a. stripe[t.id] \in Seq(Byte) /\ Len(stripe[t.id]) <= StripeSize
      BY <1>1, <1>2
    <3>1. stripe[t.id] \in Seq(Byte) /\ Len(stripe[t.id]) <= StripeSize /\ 0 + t.len <= StripeSize
      BY <1>1, <3>a, StripeSizeAssumption
    <3>2. Len(GetRange(stripe[t.id], 0, t.len)) <= Len(stripe[t.id])
          /\ GetRange(stripe[t.id], 0, t.len) \in Seq(Byte)
      BY <1>1, <3>1, RangesFit
    <3> QED
      BY <3>1, <3>2, StripeSizeAssumption
  <2>3. stripe' \in [Ids -> Seq(Byte)] /\ \A id \in Ids : Len(stripe'[id]) <= StripeSize
    BY <1>4, <1>8, <2>2 DEF TrimStripe
  <2>4. reg' \in [Instance -> SUBSET Ids] /\ stored' \subseteq Ids
    BY <1>1, <1>2, <1>8 DEF TrimStripe
  <2>5. RegisteredIsStored'
    BY <1>8 DEF TrimStripe, RegisteredIsStored, Inv
  <2> QED
    BY <2>1, <2>3, <2>4, <2>5 DEF Inv, TypeOK
<1> QED
  BY <1>5, <1>6, <1>7, <1>8

\* The end of a call, or of its process.
LEMMA EndSteps ==
  ASSUME Inv, NEW p \in Proc, Return(p) \/ Crash(p)
  PROVE  Inv'
  BY IdleIsCall, LocalStep DEF Return, Crash

\* At first the store is empty.
LEMMA InitInv == Init => Inv
<1> SUFFICES ASSUME Init PROVE Inv
  OBVIOUS
<1>1. TypeOK
  BY IdleIsCall, StripeSizeAssumption DEF Init, TypeOK
<1> QED
  BY <1>1 DEF Init, Inv, Fits, Idle, RegisteredIsStored

\* Every step of every process keeps the invariant.
LEMMA NextInv == Inv /\ [Next]_vars => Inv'
<1> SUFFICES ASSUME Inv, [Next]_vars PROVE Inv'
  OBVIOUS
<1>1. CASE UNCHANGED vars
  BY <1>1 DEF vars, Inv, TypeOK, Fits, RegisteredIsStored
<1>2. ASSUME NEW p \in Proc, Call(p) PROVE Inv'
  BY <1>2, CallSteps
<1>3. ASSUME NEW p \in Proc, Step(p) PROVE Inv'
  BY <1>3, SearchSteps, StripeSteps, EndSteps DEF Step
<1>4. ASSUME NEW p \in Proc, Crash(p) PROVE Inv'
  BY <1>4, EndSteps
<1> QED
  BY <1>1, <1>2, <1>3, <1>4 DEF Next

\* The store's types: a stripe never outgrows the stripe size, whatever writes,
\* resizes and trims of the same stripe interleave.
THEOREM TypeCorrect == Spec => []TypeOK
<1>1. Inv => TypeOK
  BY DEF Inv
<1> QED
  BY InitInv, NextInv, <1>1, PTL DEF Spec

\* An instance's set holds only stripes that instance stores (writeStripe,
\* removeStripe: one transaction each), with any calls of any processes under
\* way and any of them cut short, transfers having at most InitialCap stripes
\* (100): a longer write that does not begin at stripe 0 breaks it (store.go:78).
THEOREM SetsAreSound == Spec => []RegisteredIsStored
<1>1. Inv => RegisteredIsStored
  BY DEF Inv
<1> QED
  BY InitInv, NextInv, <1>1, PTL DEF Spec

-----------------------------------------------------------------------------
(***************************************************************************)
(* GetSize against concurrent writers.  Some stripe that was the last when *)
(* the call began is in the file for good, and is found on its instance.   *)
(***************************************************************************)
End(id) == id * StripeSize + Len(stripe[id])
Reached(p, id) == \/ id = -1 /\ Len(before[p]) = 0
                  \/ id \in Registered /\ id >= 0 /\ Len(before[p]) <= End(id)

Calm(p) == /\ call[p].op \in {"idle", "write", "read", "size"}
           /\ \A t \in call[p].todo : t.kind \in {"write", "read"}
           /\ call[p].op = "size" => call[p].todo = {}
Searching(p) == call[p].op = "size" /\ call[p].phase = "search" =>
                  /\ call[p].last \in Registered \cup {-1}
                  /\ \E id \in Ids : /\ Reached(p, id)
                                     /\ Home[id] \in call[p].asked \/ id <= call[p].last
Bracketed(p) == call[p].op = "size" /\ call[p].phase = "stripes" =>
                  Len(before[p]) <= call[p].n /\ call[p].n <= Size
SizeInv == /\ Inv /\ before = [p \in Proc |-> before[p]]
           /\ \A p \in Proc : /\ Calm(p) /\ Searching(p) /\ Bracketed(p)
                             /\ Len(before[p]) \in Nat

\* The sets name stripes within the bound.
LEMMA RegisteredIds == TypeOK => Registered \in SUBSET Ids
  BY DEF TypeOK, Registered

\* Size is the end of the last stripe, and no stripe ends after it.
LEMMA SizeFacts ==
  ASSUME TypeOK
  PROVE  /\ Size \in Nat
         /\ \A id \in Registered : id >= 0 => End(id) \in Nat /\ End(id) <= Size
         /\ \/ Last(Registered) = -1 /\ Size = 0
            \/ /\ Last(Registered) \in Registered /\ Last(Registered) >= 0
               /\ Size = End(Last(Registered))
<1> DEFINE L == Last(Registered)
<1>1. /\ Registered \in SUBSET Ids /\ L \in Ids /\ L \in Registered \cup {-1}
      /\ \A id \in Registered : id <= L
  BY RegisteredIds, LastFacts
<1>2. /\ MaxStripe \in Nat /\ StripeSize \in Nat
      /\ \A id \in Ids : Len(stripe[id]) \in Nat /\ Len(stripe[id]) <= StripeSize
  BY StoreAssumption, StripeSizeAssumption DEF TypeOK
<1>3. ASSUME NEW id \in Ids, id >= 0 PROVE End(id) \in Nat
  <2>1. id \in Nat /\ id * StripeSize \in Nat
    BY <1>2, <1>3, StripeSizeAssumption DEF Ids
  <2>2. Len(stripe[id]) \in Nat
    BY <1>2
  <2> QED
    BY <2>1, <2>2 DEF End
<1>4. Size = IF L < 0 THEN 0 ELSE End(L)
  BY DEF Size, End
<1> HIDE DEF L
<1>5. Size \in Nat
  BY <1>1, <1>2, <1>3, <1>4 DEF Ids
<1>6. ASSUME NEW id \in Registered, id >= 0 PROVE End(id) \in Nat /\ End(id) <= Size
  <2>1. id \in Ids /\ id <= L /\ L >= 0 /\ id \in Int /\ L \in Int
    BY <1>1, <1>2, <1>6 DEF Ids
  <2>2. End(id) \in Nat /\ Size = End(L)
    BY <1>3, <1>4, <1>6, <2>1
  <2>3. CASE id = L
    BY <2>2, <2>3
  <2>4. CASE id < L
    <3>1. id * StripeSize + StripeSize <= L * StripeSize
      BY <2>1, <2>4, StripeOrder
    <3>2. id * StripeSize \in Int /\ L * StripeSize \in Int
      BY <2>1, StripeOrder
    <3>3. /\ Len(stripe[id]) \in Nat /\ Len(stripe[id]) <= StripeSize
          /\ Len(stripe[L]) \in Nat /\ StripeSize \in Nat
      BY <1>1, <1>2, <2>1
    <3> QED
      BY <2>2, <3>1, <3>2, <3>3 DEF End
  <2> QED
    BY <2>1, <2>3, <2>4
<1>7. L = -1 \/ (L \in Registered /\ L >= 0)
  BY <1>1, <1>2 DEF Ids
<1> QED
  BY <1>4, <1>5, <1>6, <1>7 DEF L

\* When no set and no stripe shrinks, neither does the file.
LEMMA SizeGrows ==
  ASSUME TypeOK, TypeOK', \A i \in Instance : reg[i] \subseteq reg'[i],
         \A id \in Ids : Len(stripe[id]) <= Len(stripe'[id])
  PROVE  /\ Registered \subseteq Registered' /\ Size <= Size'
         /\ \A id \in Registered : id >= 0 => End(id) <= End(id)'
<1>1. Registered \subseteq Registered'
  BY DEF Registered
<1>2. ASSUME NEW id \in Registered, id >= 0 PROVE End(id) <= End(id)'
  <2>1. id \in Ids /\ id \in Int
    BY RegisteredIds, StoreAssumption DEF Ids
  <2>2. Len(stripe[id]) \in Nat /\ Len(stripe'[id]) \in Nat /\ Len(stripe[id]) <= Len(stripe'[id])
    BY <2>1 DEF TypeOK
  <2>3. id * StripeSize \in Int
    BY <2>1, StripeOrder
  <2> QED
    BY <2>2, <2>3 DEF End
<1>3. Size' \in Nat /\ Size \in Nat
      /\ \A id \in Registered' : id >= 0 => End(id)' \in Nat /\ End(id)' <= Size'
  <2>1. (Size \in Nat /\ \A id \in Registered : id >= 0 => End(id) \in Nat /\ End(id) <= Size)'
    BY SizeFacts, PTL
  <2> QED
    BY <2>1, SizeFacts
<1>4. Size <= Size'
  <2>1. CASE Size = 0
    BY <1>3, <2>1
  <2>2. CASE Last(Registered) \in Registered /\ Last(Registered) >= 0 /\ Size = End(Last(Registered))
    BY <1>1, <1>2, <1>3, <2>2
  <2> QED
    BY <2>1, <2>2, SizeFacts
<1> QED
  BY <1>1, <1>2, <1>4

\* A process is not disturbed by what happens while its own search stands still.
LEMMA OthersKeep ==
  ASSUME Inv, Registered \subseteq Registered', Size <= Size', Size \in Nat, Size' \in Nat,
         \A id \in Registered : id >= 0 => End(id) <= End(id)',
         \A id \in Registered : id >= 0 => End(id) \in Nat,
         \A id \in Registered' : id >= 0 => End(id)' \in Nat,
         NEW q \in Proc, Searching(q), Bracketed(q), Len(before[q]) \in Nat,
         before'[q] = before[q], call'[q].op = call[q].op, call'[q].phase = call[q].phase,
         call'[q].op = "size" =>
           call'[q].n = call[q].n /\ call'[q].last = call[q].last /\ call'[q].asked = call[q].asked
  PROVE  Searching(q)' /\ Bracketed(q)' /\ Len(before'[q]) \in Nat
<1>1. call[q].n \in Nat
  BY DEF Inv, TypeOK, Calls
<1>2. ASSUME NEW id \in Ids, Reached(q, id) PROVE Reached(q, id)'
  <2>1. CASE id = -1
    BY <1>2, <2>1 DEF Reached
  <2>2. CASE id \in Registered /\ id >= 0
    BY <1>2, <2>2 DEF Reached
  <2> QED
    BY <1>2, <2>1, <2>2 DEF Reached
<1>3. Searching(q)'
  BY <1>2 DEF Searching
<1>4. Bracketed(q)'
  BY <1>1 DEF Bracketed
<1> QED
  BY <1>3, <1>4

\* A step of p that touches no stripe leaves the others as they are.
LEMMA LocalKeepsOthers ==
  ASSUME SizeInv, NEW p \in Proc, UNCHANGED redis, NEW c \in Calls, NEW b,
         call' = [call EXCEPT ![p] = c], before' = [before EXCEPT ![p] = b],
         NEW q \in Proc, q # p
  PROVE  Calm(q)' /\ Searching(q)' /\ Bracketed(q)' /\ Len(before'[q]) \in Nat
<1>1. call'[q] = call[q] /\ before'[q] = before[q]
  BY DEF SizeInv, Inv, TypeOK
<1>2. Registered' = Registered /\ Size' = Size /\ \A id : End(id)' = End(id)
  BY DEF redis, Registered, Size, End
<1> QED
  BY <1>1, <1>2 DEF SizeInv, Calm, Searching, Bracketed, Reached

\* ... and it is enough to look at what p itself becomes.
LEMMA LocalSizeStep ==
  ASSUME SizeInv, Inv', NEW p \in Proc, UNCHANGED redis, NEW c \in Calls, NEW b,
         call' = [call EXCEPT ![p] = c], before' = [before EXCEPT ![p] = b],
         Calm(p)', Searching(p)', Bracketed(p)', Len(b) \in Nat
  PROVE  SizeInv'
<1>1. before' = [q \in Proc |-> before'[q]] /\ before'[p] = b
  BY DEF SizeInv
<1>2. ASSUME NEW q \in Proc
      PROVE  Calm(q)' /\ Searching(q)' /\ Bracketed(q)' /\ Len(before'[q]) \in Nat
  <2>1. CASE q = p
    BY <1>1, <2>1
  <2>2. CASE q # p
    BY <2>2, LocalKeepsOthers
  <2> QED
    BY <2>1, <2>2
<1> QED
  BY <1>1, <1>2 DEF SizeInv

OnlyGrowing == Ops \subseteq {"write", "sparse", "read", "size", "crash"}

\* A call that starts changes no size, and remembers the one there is.
LEMMA CallKeepsSize ==
  ASSUME OnlyGrowing, SizeInv, Inv', NEW p \in Proc, Call(p)
  PROVE  SizeInv'
<1>0. /\ Inv /\ call \in [Proc -> Calls] /\ before = [q \in Proc |-> before[q]]
      /\ Len(Contents) = Size /\ Size \in Nat
  <2>1. Inv /\ call \in [Proc -> Calls] /\ before = [q \in Proc |-> before[q]] /\ Size \in Nat
    BY SizeFacts DEF SizeInv, Inv, TypeOK
  <2> QED
    BY <2>1 DEF Contents
<1>1. ASSUME NEW c, Begin(p, c), c.op \in {"read", "write"},
             \A t \in c.todo : t.kind \in {"write", "read"}
      PROVE  SizeInv'
  <2>1. call' = [call EXCEPT ![p] = c] /\ before' = [before EXCEPT ![p] = Contents] /\ UNCHANGED redis
    BY <1>1 DEF Begin
  <2>2. call'[p] = c /\ c \in Calls
    BY <1>0, <2>1 DEF Inv, TypeOK
  <2>3. Calm(p)' /\ Searching(p)' /\ Bracketed(p)'
    BY <1>1, <2>2 DEF Calm, Searching, Bracketed
  <2> QED
    BY <1>0, <2>1, <2>2, <2>3, LocalSizeStep
<1>2. ASSUME NEW off \in 0..MaxSize, NEW len \in 0..(MaxSize - off), CallRead(p, off, len)
      PROVE  SizeInv'
  <2>1. \A t \in Transfer("read", off, len, Zero) : t.kind = "read"
    BY DEF Transfer, Task
  <2> QED
    BY <1>1, <1>2, <2>1 DEF CallRead, Idle
<1>3. ASSUME NEW off \in 0..MaxSize, NEW len \in 0..(MaxSize - off), NEW v \in Byte,
             CallWrite(p, off, len, v)
      PROVE  SizeInv'
  <2>1. \A t \in Transfer("write", off, len, v) : t.kind = "write"
    BY DEF Transfer, Task
  <2> QED
    BY <1>1, <1>3, <2>1 DEF CallWrite, Idle
<1>4. CASE CallGetSize(p)
  <2> DEFINE c == [Idle EXCEPT !.op = "size", !.phase = "search", !.len = 0, !.asked = Instance]
  <2>1. call' = [call EXCEPT ![p] = c] /\ before' = [before EXCEPT ![p] = Contents] /\ UNCHANGED redis
    BY <1>4 DEF CallGetSize, CallSearching, Begin
  <2>2. /\ c.op = "size" /\ c.phase = "search" /\ c.todo = {} /\ c.last = -1
        /\ c.asked = Instance
    BY DEF Idle
  <2> HIDE DEF c
  <2>3. call'[p] = c /\ c \in Calls /\ before'[p] = Contents
    BY <1>0, <2>1 DEF Inv, TypeOK
  <2>4. Registered' = Registered /\ \A id : End(id)' = End(id)
    BY <2>1 DEF redis, Registered, End
  <2>5. PICK id \in Ids : \/ id = -1 /\ Size = 0
                          \/ id \in Registered /\ id >= 0 /\ Size = End(id)
    BY <1>0, SizeFacts, RegisteredIds, LastFacts DEF Inv
  <2>6. Home[id] \in Instance
    BY StoreAssumption
  <2>7. Reached(p, id)'
    BY <1>0, <2>3, <2>4, <2>5 DEF Reached
  <2>8. Calm(p)' /\ Searching(p)' /\ Bracketed(p)'
    BY <2>2, <2>3, <2>6, <2>7 DEF Calm, Searching, Bracketed
  <2> QED
    BY <1>0, <2>1, <2>3, <2>8, LocalSizeStep
<1>5. ~CallRemove(p) /\ ~\E new \in 0..MaxSize : CallResize(p, new)
  BY DEF CallRemove, CallResize, OnlyGrowing
<1> QED
  BY <1>2, <1>3, <1>4, <1>5 DEF Call

\* The instances' answers bracket the last stripe of the file.
LEMMA SearchKeepsSize ==
  ASSUME SizeInv, Inv', NEW p \in Proc,
         \/ \E i \in Instance : SearchInstance(p, i)
         \/ SizeOfNone(p) \/ Strlen(p) \/ StartRemoving(p)
  PROVE  SizeInv'
<1>0. /\ Inv /\ call \in [Proc -> Calls] /\ call[p] \in Calls /\ before = [q \in Proc |-> before[q]]
      /\ Calm(p) /\ Searching(p) /\ Bracketed(p) /\ Len(before[p]) \in Nat
      /\ Registered \in SUBSET Ids /\ call[p].last \in Int
  <2>1. Inv /\ TypeOK /\ call \in [Proc -> Calls] /\ call[p] \in Calls
    BY DEF SizeInv, Inv, TypeOK
  <2>2. call[p].last \in Int
    BY <2>1, StoreAssumption DEF Calls, Ids
  <2> QED
    BY <2>1, <2>2, RegisteredIds DEF SizeInv
<1>1. /\ UNCHANGED <<redis, before>> /\ call' = [call EXCEPT ![p] = call'[p]] /\ call'[p] \in Calls
      /\ before' = [before EXCEPT ![p] = before[p]]
  <2>1. UNCHANGED <<redis, before>>
    BY DEF SearchInstance, SizeOfNone, Strlen, StartRemoving
  <2>2. call' = [call EXCEPT ![p] = call'[p]]
    BY <1>0 DEF SearchInstance, SizeOfNone, Strlen, StartRemoving, Sized
  <2>3. call'[p] \in Calls
    BY DEF Inv, TypeOK
  <2> QED
    BY <1>0, <2>1, <2>2, <2>3
<1>2. /\ Registered' = Registered /\ Size' = Size /\ \A id : End(id)' = End(id)
      /\ before'[p] = before[p]
  BY <1>1 DEF redis, Registered, Size, End
<1>3. SUFFICES Calm(p)' /\ Searching(p)' /\ Bracketed(p)'
  <2> DEFINE c == call'[p]
  <2> HIDE DEF c
  <2> QED
    BY <1>0, <1>1, LocalSizeStep DEF c
<1>4. ASSUME NEW i \in Instance, SearchInstance(p, i)
      PROVE  Calm(p)' /\ Searching(p)' /\ Bracketed(p)'
  <2> DEFINE S == reg[i] \cup {call[p].last}
  <2>1. /\ call'[p].op = call[p].op /\ call'[p].phase = "search" /\ call[p].phase = "search"
        /\ call'[p].todo = call[p].todo /\ call'[p].asked = call[p].asked \ {i}
        /\ call'[p].last = Last(S)
    BY <1>0, <1>4 DEF SearchInstance, Calls
  <2>2. S \in SUBSET Ids /\ reg[i] \subseteq Registered
    BY <1>0 DEF Inv, TypeOK, Calls, Registered
  <2>3. Last(S) \in Ids /\ Last(S) \in S \cup {-1} /\ \A id \in S : id <= Last(S)
    BY <2>2, LastFacts
  <2> HIDE DEF S
  <2>4. Calm(p)' /\ Bracketed(p)'
    BY <1>0, <2>1 DEF Calm, Bracketed
  <2>5. ASSUME call[p].op = "size" PROVE Searching(p)'
    <3>1. Last(S) \in Registered \cup {-1}
      BY <1>0, <2>1, <2>2, <2>3, <2>5 DEF Searching, S
    <3>2. PICK id \in Ids : Reached(p, id) /\ (Home[id] \in call[p].asked \/ id <= call[p].last)
      BY <1>0, <2>1, <2>5 DEF Searching
    <3>3. Reached(p, id)'
      BY <1>2, <3>2 DEF Reached
    <3>4. CASE id <= call[p].last
      <4>1. id <= Last(S)
        <5>1. call[p].last <= Last(S)
          <6>1. call[p].last \in S
            BY DEF S
          <6> QED
            BY <2>3, <6>1
        <5>2. id \in Int /\ Last(S) \in Int
          BY <2>3, StoreAssumption DEF Ids
        <5> QED
          BY <1>0, <3>4, <5>1, <5>2
      <4> QED
        BY <2>1, <3>1, <3>3, <4>1, <1>2 DEF Searching
    <3>5. CASE Home[id] \in call[p].asked /\ Home[id] # i
      BY <2>1, <3>1, <3>3, <3>5, <1>2 DEF Searching
    <3>6. CASE Home[id] = i
      <4>1. id <= Last(S)
        <5>1. CASE id = -1
          BY <2>3, <5>1, StoreAssumption DEF Ids
        <5>2. CASE id \in Registered
          <6>1. id \in reg[i]
            BY <1>0, <3>6, <5>2 DEF Registered, Inv, RegisteredIsStored
          <6>2. id \in S
            BY <6>1 DEF S
          <6> QED
            BY <2>3, <6>2
        <5> QED
          BY <3>2, <5>1, <5>2 DEF Reached
      <4> QED
        BY <2>1, <3>1, <3>3, <4>1, <1>2 DEF Searching
    <3> QED
      BY <3>2, <3>4, <3>5, <3>6
  <2> QED
    BY <2>1, <2>4, <2>5 DEF Searching
<1>5. ASSUME NEW size \in Nat, Sized(p, size),
             call[p].op = "size" => Len(before[p]) <= size /\ size <= Size
      PROVE  Calm(p)' /\ Searching(p)' /\ Bracketed(p)'
  <2>1. /\ call'[p].op = call[p].op /\ call'[p].phase = "stripes" /\ call'[p].todo = {}
        /\ call[p].op = "size" => call'[p].n = size
    BY <1>0, <1>5 DEF Sized, Calls, Calm
  <2> QED
    BY <1>0, <1>2, <1>5, <2>1 DEF Calm, Searching, Bracketed
<1>6. ASSUME call[p].op = "size", call[p].phase = "search", call[p].asked = {}
      PROVE  \E id \in Ids : Reached(p, id) /\ id <= call[p].last
  BY <1>0, <1>6 DEF Searching
<1>7. CASE SizeOfNone(p)
  <2>1. Sized(p, 0) /\ call[p].last < 0 /\ call[p].phase = "search" /\ call[p].asked = {}
    BY <1>7 DEF SizeOfNone, Searched
  <2>2. ASSUME call[p].op = "size" PROVE Len(before[p]) <= 0 /\ 0 <= Size
    <3>1. PICK id \in Ids : Reached(p, id) /\ id <= call[p].last
      BY <1>6, <2>1, <2>2
    <3>2. id = -1
      BY <1>0, <2>1, <3>1, StoreAssumption DEF Ids
    <3> QED
      BY <1>0, <3>1, <3>2, SizeFacts DEF Reached, Inv
  <2> QED
    BY <1>5, <2>1, <2>2
<1>8. CASE Strlen(p)
  <2> DEFINE l == call[p].last
  <2>1. /\ Sized(p, l * StripeSize + Len(stripe[l])) /\ l >= 0
        /\ call[p].phase = "search" /\ call[p].asked = {} /\ l \in Ids
    BY <1>0, <1>8 DEF Strlen, Searched, Calls
  <2>2. l \in Nat /\ StripeSize \in Nat
    BY <2>1, StoreAssumption, StripeSizeAssumption DEF Ids
  <2> HIDE DEF l
  <2>3. /\ Len(stripe[l]) \in Nat /\ l * StripeSize \in Nat
    BY <1>0, <2>1, <2>2 DEF Inv, TypeOK
  <2>4. End(l) \in Nat /\ Sized(p, End(l))
    BY <2>1, <2>3 DEF End
  <2>5. ASSUME call[p].op = "size" PROVE Len(before[p]) <= End(l) /\ End(l) <= Size
    <3>1. PICK id \in Ids : Reached(p, id) /\ id <= l
      BY <1>6, <2>1, <2>5 DEF l
    <3>2. l \in Registered
      BY <1>0, <2>1, <2>2, <2>5 DEF Searching, l
    <3>3. End(l) <= Size
      BY <1>0, <2>2, <3>2, SizeFacts DEF Inv
    <3>4. CASE id = -1 \/ id = l
      <4>1. Len(before[p]) = 0 \/ Len(before[p]) <= End(l)
        BY <2>2, <3>1, <3>4 DEF Reached
      <4> QED
        BY <1>0, <2>4, <3>3, <4>1
    <3>5. CASE id >= 0 /\ id < l
      <4>1. id \in Int /\ id * StripeSize \in Int
        BY <2>2, StripeOrder, StoreAssumption DEF Ids
      <4>2. id * StripeSize + StripeSize <= l * StripeSize
        BY <2>2, <3>5, <4>1, StripeOrder
      <4>3. Len(stripe[id]) \in Nat /\ Len(stripe[id]) <= StripeSize
        BY <1>0 DEF Inv, TypeOK
      <4>4. End(id) <= End(l)
        <5> DEFINE x == id * StripeSize
                   y == l * StripeSize
                   a == Len(stripe[id])
                   b == Len(stripe[l])
        <5>1. x \in Int /\ y \in Nat /\ a \in Nat /\ b \in Nat /\ a <= StripeSize /\ x + StripeSize <= y
          BY <2>2, <2>3, <4>1, <4>2, <4>3
        <5>2. End(id) = x + a /\ End(l) = y + b
          BY DEF End
        <5> HIDE DEF x, y, a, b
        <5> QED
          BY <2>2, <5>1, <5>2
      <4>5. Len(before[p]) <= End(id) /\ End(id) \in Int
        BY <3>1, <3>5, <4>1, <4>3 DEF Reached, End
      <4> QED
        BY <1>0, <2>4, <3>3, <4>4, <4>5
    <3> QED
      BY <1>0, <2>2, <3>1, <3>3, <3>4, <3>5, StoreAssumption DEF Ids
  <2> QED
    BY <1>5, <2>4, <2>5
<1>9. ~StartRemoving(p)
  BY <1>0 DEF StartRemoving, Calm
<1> QED
  BY <1>4, <1>7, <1>8, <1>9

\* SETRANGE never shortens a value.
LEMMA SetRangeGrows ==
  ASSUME NEW s \in Seq(Byte), NEW o \in Nat, NEW l \in Nat, NEW v
  PROVE  Len(s) <= Len(SetRange(s, o, l, v))
<1> DEFINE n == IF o + l > Len(s) THEN o + l ELSE Len(s)
<1>1. n \in Nat /\ Len(s) <= n
  OBVIOUS
<1>2. Len(SetRange(s, o, l, v)) = n
  BY <1>1 DEF SetRange
<1> QED
  BY <1>1, <1>2

\* A stripe that is written or read leaves every search what it has found.
LEMMA StripeKeepsSize ==
  ASSUME SizeInv, Inv', NEW p \in Proc, NEW t \in call[p].todo,
         WriteStripe(p, t) \/ ReadStripe(p, t) \/ RemoveStripe(p, t) \/ TrimStripe(p, t)
  PROVE  SizeInv'
<1>0. /\ Inv /\ TypeOK /\ call \in [Proc -> Calls] /\ call[p] \in Calls /\ Calm(p)
      /\ before = [q \in Proc |-> before[q]] /\ UNCHANGED before
      /\ t.kind \in {"write", "read"} /\ call[p].op # "size"
  BY DEF SizeInv, Inv, TypeOK, Calm, WriteStripe, ReadStripe, RemoveStripe, TrimStripe, Doing
<1>1. /\ \A i \in Instance : reg[i] \subseteq reg'[i]
      /\ \A id \in Ids : Len(stripe[id]) <= Len(stripe'[id])
  <2>1. CASE ReadStripe(p, t)
    BY <1>0, <2>1 DEF ReadStripe, redis, TypeOK
  <2>2. CASE WriteStripe(p, t)
    <3>1. \A i \in Instance : reg[i] \subseteq reg'[i]
      BY <1>0, <2>2 DEF WriteStripe, TypeOK
    <3>2. /\ t.id \in Ids /\ t.off \in Nat /\ t.len \in Nat /\ stripe[t.id] \in Seq(Byte)
          /\ Len(stripe[t.id]) <= StripeSize /\ StripeSize \in Nat
      BY <1>0, StripeSizeAssumption DEF Calls, Tasks, TypeOK
    <3>3. Len(stripe[t.id]) <= Len(stripe'[t.id])
      <4>1. CASE t.off = 0 /\ t.len = StripeSize
        <5>1. stripe'[t.id] = [k \in 1..t.len |-> t.val]
          BY <1>0, <2>2, <3>2, <4>1 DEF WriteStripe, TypeOK
        <5> QED
          BY <3>2, <4>1, <5>1
      <4>2. CASE ~(t.off = 0 /\ t.len = StripeSize)
        <5>1. stripe'[t.id] = SetRange(stripe[t.id], t.off, t.len, t.val)
          BY <1>0, <2>2, <3>2, <4>2 DEF WriteStripe, TypeOK
        <5> QED
          BY <3>2, <5>1, SetRangeGrows
      <4> QED
        BY <4>1, <4>2
    <3>4. ASSUME NEW id \in Ids, id # t.id PROVE Len(stripe[id]) <= Len(stripe'[id])
      <4>1. stripe'[id] = stripe[id] /\ Len(stripe[id]) \in Nat
        BY <1>0, <2>2, <3>4 DEF WriteStripe, TypeOK
      <4> QED
        BY <4>1
    <3> QED
      BY <3>1, <3>3, <3>4
  <2> QED
    BY <1>0, <2>1, <2>2 DEF RemoveStripe, TrimStripe, Doing
<1>2. TypeOK'
  BY DEF Inv
<1>3. /\ Registered \subseteq Registered' /\ Size <= Size'
      /\ \A id \in Registered : id >= 0 => End(id) <= End(id)'
  BY <1>0, <1>1, <1>2, SizeGrows
<1>4. Size \in Nat /\ \A id \in Registered : id >= 0 => End(id) \in Nat
  BY <1>0, SizeFacts
<1>5. Size' \in Nat /\ \A id \in Registered' : id >= 0 => End(id)' \in Nat
  <2>1. (Size \in Nat /\ \A id \in Registered : id >= 0 => End(id) \in Nat /\ End(id) <= Size)'
    BY <1>2, SizeFacts, PTL
  <2> QED
    BY <2>1
<1>6. ASSUME NEW q \in Proc
      PROVE  /\ call'[q].op = call[q].op /\ call'[q].phase = call[q].phase
             /\ call'[q].op = "size" => call'[q] = call[q]
             /\ call'[q].todo \subseteq call[q].todo
  <2>1. CASE q # p
    BY <1>0, <2>1 DEF WriteStripe, ReadStripe, RemoveStripe, TrimStripe, Done
  <2>2. CASE q = p
    <3>1. CASE Done(p, t)
      BY <1>0, <2>2, <3>1 DEF Done, Calls
    <3>2. CASE ReadStripe(p, t)
      BY <1>0, <2>2, <3>2 DEF ReadStripe, Calls
    <3> QED
      BY <3>1, <3>2 DEF WriteStripe, RemoveStripe, TrimStripe
  <2> QED
    BY <2>1, <2>2
<1>7. ASSUME NEW q \in Proc
      PROVE  Calm(q)' /\ Searching(q)' /\ Bracketed(q)' /\ Len(before'[q]) \in Nat
  <2>1. Calm(q) /\ Searching(q) /\ Bracketed(q) /\ Len(before[q]) \in Nat
    BY DEF SizeInv
  <2>2. Calm(q)'
    BY <1>6, <2>1 DEF Calm
  <2>3. Searching(q)' /\ Bracketed(q)' /\ Len(before'[q]) \in Nat
    BY <1>0, <1>3, <1>4, <1>5, <1>6, <2>1, OthersKeep
  <2> QED
    BY <2>2, <2>3
<1> QED
  BY <1>0, <1>7 DEF SizeInv

\* A call that returns or is cut short has no search left.
LEMMA EndKeepsSize ==
  ASSUME SizeInv, Inv', NEW p \in Proc, Return(p) \/ Crash(p)
  PROVE  SizeInv'
<1>1. /\ call' = [call EXCEPT ![p] = Idle] /\ before' = [before EXCEPT ![p] = <<>>]
      /\ UNCHANGED redis /\ Idle \in Calls /\ Len(<<>>) \in Nat
  BY IdleIsCall DEF Return, Crash
<1>2. call'[p] = Idle
  BY <1>1 DEF SizeInv, Inv, TypeOK
<1>3. Calm(p)' /\ Searching(p)' /\ Bracketed(p)'
  BY <1>2 DEF Calm, Searching, Bracketed, Idle
<1> QED
  BY <1>1, <1>3, LocalSizeStep

\* GetSize (store.go:232), with processes that write, extend and read the file:
\* the size it returns lies between the size when it was called and the size now,
\* for every number of processes, instances and stripes.  Nothing more: the file
\* need not have had that size at any time in between.
THEOREM SizeIsBracketed == OnlyGrowing /\ Spec => []SizeBracket
<1>1. ASSUME OnlyGrowing, Init PROVE SizeInv
  <2>1. Inv
    BY <1>1, InitInv
  <2>2. \A p \in Proc : call[p] = Idle /\ Len(before[p]) \in Nat
    BY <1>1 DEF Init
  <2>3. before = [p \in Proc |-> before[p]]
    BY <1>1 DEF Init
  <2> QED
    BY <2>1, <2>2, <2>3 DEF SizeInv, Calm, Searching, Bracketed, Idle
<1>2. ASSUME OnlyGrowing, SizeInv, [Next]_vars PROVE SizeInv'
  <2>1. Inv'
    BY <1>2, NextInv DEF SizeInv
  <2>2. CASE UNCHANGED vars
    <3>1. UNCHANGED <<reg, stripe, call, before>>
      BY <2>2 DEF vars
    <3>2. Registered' = Registered /\ Size' = Size /\ \A id : End(id)' = End(id)
      BY <3>1 DEF Registered, Size, End
    <3>3. ASSUME NEW p \in Proc PROVE Calm(p)' /\ Searching(p)' /\ Bracketed(p)'
      BY <1>2, <3>1, <3>2 DEF SizeInv, Calm, Searching, Bracketed, Reached
    <3> QED
      BY <1>2, <2>1, <3>1, <3>3 DEF SizeInv
  <2>3. ASSUME NEW p \in Proc, Call(p) PROVE SizeInv'
    BY <1>2, <2>1, <2>3, CallKeepsSize
  <2>4. ASSUME NEW p \in Proc, Step(p) PROVE SizeInv'
    BY <1>2, <2>1, <2>4, SearchKeepsSize, StripeKeepsSize, EndKeepsSize DEF Step
  <2>5. ASSUME NEW p \in Proc, Crash(p) PROVE SizeInv'
    BY <1>2, <2>1, <2>5, EndKeepsSize
  <2> QED
    BY <1>2, <2>2, <2>3, <2>4, <2>5 DEF Next
<1>3. SizeInv => SizeBracket
  BY DEF SizeInv, Bracketed, SizeBracket
<1>4. CASE OnlyGrowing
  BY <1>1, <1>2, <1>3, <1>4, PTL DEF Spec
<1> QED
  BY <1>4
-----------------------------------------------------------------------------
(* Writers of one file that keep to segments of it (module DisjointWriters):  *)
(* stripes have several writers, bytes have one.                              *)

\* A goroutine's stripe and range are those of byte b of the file.
Covers(t, b) == /\ t.id = b \div StripeSize
                /\ t.off <= b % StripeSize /\ b % StripeSize < t.off + t.len
\* Byte b of the file is in its stripe, and is v.
Holds(b, v) == LET s == stripe[b \div StripeSize]
               IN  /\ b \div StripeSize \in Registered
                   /\ b % StripeSize < Len(s) /\ s[(b % StripeSize) + 1] = v

\* The goroutines of a call are on bytes of the process's segment.
Within(p) ==
  LET c == call[p]
  IN  /\ c.op \in {"idle", "write", "read", "size"} /\ (c.op # "size" => c.phase # "search")
      /\ c.op \in {"write", "read"} => Span(c.off, c.len) \subseteq Segment[p]
      /\ c.op \notin {"write", "read"} => c.todo = {}
      /\ c.op = "write" => \A t \in c.todo : /\ t.kind = "write" /\ t.val = c.val
           /\ \A b \in Nat : Covers(t, b) => b \in Span(c.off, c.len)
      /\ c.op = "read" =>
           /\ Len(c.buf) = c.len
           /\ \A t \in c.todo : t.kind = "read" /\ t.id * StripeSize + t.off = c.off + t.pos
\* What a process wrote is there, or has just been written over by itself.
Kept(p) == \A b \in Segment[p] : wrote[p][b] # NoByte =>
  \/ Holds(b, wrote[p][b])
  \/ call[p].op = "write" /\ b \in Span(call[p].off, call[p].len) /\ Holds(b, call[p].val)
\* What it writes is there, but for the stripes to do.
Arrives(p) == call[p].op = "write" => \A b \in Span(call[p].off, call[p].len) :
  Holds(b, call[p].val) \/ \E t \in call[p].todo : Covers(t, b)
\* What it reads is in the buffer, but for the stripes to do.
Filled(p) == call[p].op = "read" => \A k \in 1..call[p].len :
  LET w == wrote[p][call[p].off + k - 1]
  IN  w # NoByte => \/ call[p].buf[k] = w
                    \/ \E t \in call[p].todo : t.pos < k /\ k <= t.pos + t.len
Writes(p) == Within(p) /\ Kept(p) /\ Arrives(p) /\ Filled(p)
WriteInv == /\ Inv /\ wrote = [p \in Proc |-> wrote[p]]
            /\ \A p \in Proc : Writes(p)

\* The bytes of a segment, and where stripeLayout puts each.
LEMMA SegmentBytes ==
  ASSUME NEW p \in Proc, NEW b \in Segment[p]
  PROVE  b \in Nat /\ b < MaxSize
BY SegmentAssumption, MaxSizeFacts

\* Every byte of a transfer is in one of its pieces.
LEMMA LayoutCovers ==
  ASSUME NEW o \in Nat, NEW l \in Nat, NEW b \in Span(o, l)
  PROVE  \E t \in Layout(o, l) : Covers(t, b) /\ t.pos <= b - o /\ b - o < t.pos + t.len
<1>1. b \in Nat /\ o <= b /\ b <= o + l - 1 /\ l > 0 /\ o + l - 1 \in Nat
  BY DEF Span
<1> DEFINE i == b \div StripeSize
           j == b % StripeSize
           first == o \div StripeSize
           last == (o + l - 1) \div StripeSize
           pos == Greatest(i * StripeSize - o, 0)
           t == Piece(o, l, pos)
<1>2. i \in Nat /\ j \in 0..(StripeSize - 1) /\ b = i * StripeSize + j
  BY <1>1, DivMod
<1>3. /\ first \in Nat /\ o % StripeSize \in 0..(StripeSize - 1)
      /\ o = first * StripeSize + (o % StripeSize)
  BY DivMod
<1>4. /\ last \in Nat /\ (o + l - 1) % StripeSize \in 0..(StripeSize - 1)
      /\ o + l - 1 = last * StripeSize + ((o + l - 1) % StripeSize)
  BY <1>1, DivMod
<1> HIDE DEF i, j, first, last
<1>5. StripeSize \in Nat /\ StripeSize > 0 /\ i * StripeSize \in Nat
  BY <1>2, StripeSizeAssumption
<1>6. first <= i /\ i <= last
  <2>1. first * StripeSize \in Int /\ last * StripeSize \in Int
    BY <1>3, <1>4, StripeOrder
  <2>2. i < first => i * StripeSize + StripeSize <= first * StripeSize
    BY <1>2, <1>3, StripeOrder
  <2>3. last < i => last * StripeSize + StripeSize <= i * StripeSize
    BY <1>2, <1>4, StripeOrder
  <2>4. ~(i < first)
    BY <2>1, <2>2, <1>1, <1>2, <1>3, <1>5
  <2>5. ~(last < i)
    BY <2>1, <2>3, <1>1, <1>2, <1>4, <1>5
  <2> QED
    BY <2>4, <2>5, <1>2, <1>3, <1>4
<1>7. t \in Layout(o, l)
  BY <1>1, <1>6, <1>2 DEF Layout, first, last
<1>8. pos \in Nat /\ pos <= b - o /\ pos < l /\ b - o \in Nat
  BY <1>1, <1>2, <1>5 DEF Greatest
<1> HIDE DEF pos
<1>9. /\ t \in Entry /\ t.pos = pos /\ t.len \in Nat /\ t.len > 0 /\ pos + t.len <= l
      /\ t.off + t.len <= StripeSize /\ t.id * StripeSize + t.off = o + pos
  BY <1>8, PieceFacts
<1>a. t.len = Least(l - pos, StripeSize - t.off)
  BY DEF Piece
<1> HIDE DEF t
<1>10. t.id = i /\ t.off <= j
  <2>1. t.id \in Nat /\ t.off \in Nat /\ t.id * StripeSize \in Int
    BY <1>9, StripeOrder DEF Entry
  <2>2. o + pos <= b /\ i * StripeSize <= o + pos
    BY <1>1, <1>5, <1>8 DEF pos, Greatest
  <2>3. t.id < i => t.id * StripeSize + StripeSize <= i * StripeSize
    BY <2>1, <1>2, StripeOrder
  <2>4. i < t.id => i * StripeSize + StripeSize <= t.id * StripeSize
    BY <2>1, <1>2, StripeOrder
  <2>5. t.off < StripeSize
    BY <2>1, <1>5, <1>9
  <2>6. ~(t.id < i) /\ ~(i < t.id)
    BY <2>1, <2>2, <2>3, <2>4, <2>5, <1>1, <1>2, <1>5, <1>8, <1>9
  <2>7. t.id = i
    BY <2>1, <2>6, <1>2
  <2> QED
    BY <2>1, <2>2, <2>7, <1>1, <1>2, <1>5, <1>8, <1>9
<1>11. j < t.off + t.len /\ b - o < pos + t.len
  <2>1. t.off \in Nat /\ i * StripeSize + t.off = o + pos
    BY <1>9, <1>10 DEF Entry
  <2> QED
    BY <2>1, <1>a, <1>1, <1>2, <1>5, <1>8, <1>9, <1>10 DEF Least
<1> QED
  BY <1>7, <1>8, <1>9, <1>10, <1>11 DEF Covers, i, j

\* A piece covers bytes of the transfer only.
LEMMA CoveredBytes ==
  ASSUME NEW o \in Nat, NEW l \in Nat, o + l <= MaxSize, NEW t \in Layout(o, l),
         NEW b \in Nat, Covers(t, b)
  PROVE  b \in Span(o, l)
<1>1. MaxStripe \in Nat
  BY StoreAssumption
<1>2. /\ t \in Entry /\ t.off + t.len <= StripeSize /\ t.pos + t.len <= l
      /\ t.id * StripeSize + t.off = o + t.pos
  BY <1>1, LayoutFacts DEF MaxSize
<1>3. /\ b = (b \div StripeSize) * StripeSize + (b % StripeSize)
      /\ b % StripeSize \in Nat
  BY DivMod, StripeSizeAssumption
<1>4. t.id = b \div StripeSize /\ t.off <= b % StripeSize /\ b % StripeSize < t.off + t.len
  BY DEF Covers
<1>5. PICK x, r : x = t.id * StripeSize /\ r = b % StripeSize
  OBVIOUS
<1>6. x \in Int /\ b = x + r /\ x + t.off = o + t.pos
  BY <1>2, <1>3, <1>4, <1>5, StripeOrder DEF Entry
<1> QED
  BY <1>2, <1>3, <1>4, <1>5, <1>6 DEF Entry, Span

\* A transfer of the process starts with every byte of it to do.
LEMMA TransferCovers ==
  ASSUME NEW o \in Nat, NEW l \in Nat, o + l <= MaxSize, NEW kind, NEW v,
         NEW T, T = Transfer(kind, o, l, v)
  PROVE  /\ \A b \in Span(o, l) : \E t \in T : Covers(t, b) /\ t.pos <= b - o /\ b - o < t.pos + t.len
         /\ \A t \in T : /\ t.kind = kind /\ t.val = v /\ t.id * StripeSize + t.off = o + t.pos
                         /\ \A b \in Nat : Covers(t, b) => b \in Span(o, l)
<1>1. ASSUME NEW b \in Span(o, l)
      PROVE  \E t \in T : Covers(t, b) /\ t.pos <= b - o /\ b - o < t.pos + t.len
  <2>1. PICK u \in Layout(o, l) : Covers(u, b) /\ u.pos <= b - o /\ b - o < u.pos + u.len
    BY LayoutCovers
  <2>2. PICK t : t = Task(kind, u.id, u.off, u.pos, u.len, v)
    OBVIOUS
  <2>3. t \in T /\ t.id = u.id /\ t.off = u.off /\ t.pos = u.pos /\ t.len = u.len
    BY <2>2 DEF Transfer, Task
  <2> QED
    BY <2>1, <2>3 DEF Covers
<1>2. ASSUME NEW t \in T
      PROVE  /\ t.kind = kind /\ t.val = v /\ t.id * StripeSize + t.off = o + t.pos
             /\ \A b \in Nat : Covers(t, b) => b \in Span(o, l)
  <2>1. PICK u \in Layout(o, l) : t = Task(kind, u.id, u.off, u.pos, u.len, v)
    BY DEF Transfer
  <2>2. /\ t.kind = kind /\ t.val = v /\ t.id = u.id /\ t.off = u.off /\ t.pos = u.pos
        /\ t.len = u.len
    BY <2>1 DEF Task
  <2>3. u.id * StripeSize + u.off = o + u.pos
    BY LayoutFacts, StoreAssumption DEF MaxSize
  <2> QED
    BY <2>2, <2>3, CoveredBytes DEF Covers
<1> QED
  BY <1>1, <1>2

\* SETRANGE, or SET of the whole stripe, puts the bytes of the range in their place
\* and leaves the others.
LEMMA WriteHolds ==
  ASSUME Inv, NEW p \in Proc, NEW t \in call[p].todo, WriteStripe(p, t), NEW b \in Nat, NEW v
  PROVE  /\ Covers(t, b) => Holds(b, t.val)'
         /\ ~Covers(t, b) /\ Holds(b, v) => Holds(b, v)'
<1> DEFINE i == b \div StripeSize
           r == b % StripeSize
           s == stripe[i]
<1>1. /\ t \in Tasks /\ t.id \in Ids /\ t.off \in Nat /\ t.len \in Nat /\ t.off + t.len <= StripeSize
      /\ t.id \in Int
  BY StoreAssumption DEF Inv, TypeOK, Fits, Calls, Tasks, Ids
<1>2. /\ reg' = [reg EXCEPT ![Home[t.id]] = @ \cup {t.id}]
      /\ stripe' = [stripe EXCEPT ![t.id] =
           IF t.off = 0 /\ t.len = StripeSize THEN [k \in 1..t.len |-> t.val]
                                              ELSE SetRange(@, t.off, t.len, t.val)]
  BY DEF WriteStripe
<1>3. r \in Nat /\ r < StripeSize
  BY DivMod, StripeSizeAssumption
<1>4. t.id \in Registered' /\ Registered \subseteq Registered'
  <2>1. Home[t.id] \in Instance /\ reg \in [Instance -> SUBSET Ids]
    BY <1>1, StoreAssumption DEF Inv, TypeOK
  <2>2. t.id \in reg'[Home[t.id]] /\ \A j \in Instance : reg[j] \subseteq reg'[j]
    BY <1>2, <2>1
  <2> QED
    BY <2>1, <2>2 DEF Registered
<1>5. CASE i = t.id
  <2>1. s \in Seq(Byte) /\ Len(s) \in Nat /\ Len(s) <= StripeSize /\ stripe \in [Ids -> Seq(Byte)]
    BY <1>1, <1>5 DEF Inv, TypeOK
  <2>2. CASE t.off = 0 /\ t.len = StripeSize
    <3>1. stripe'[i] = [k \in 1..t.len |-> t.val]
      BY <1>1, <1>2, <1>5, <2>1, <2>2
    <3>2. Len(stripe'[i]) = t.len /\ r + 1 \in 1..t.len
      BY <3>1, <2>2, <1>1, <1>3
    <3>3. stripe'[i][r + 1] = t.val
      BY <3>1, <3>2
    <3>4. Covers(t, b)
      BY <2>2, <1>1, <1>3, <1>5 DEF Covers
    <3> QED
      BY <3>2, <3>3, <3>4, <1>1, <1>3, <1>4, <1>5 DEF Holds
  <2>3. CASE ~(t.off = 0 /\ t.len = StripeSize)
    <3> DEFINE n == IF t.off + t.len > Len(s) THEN t.off + t.len ELSE Len(s)
    <3>1. stripe'[i] = SetRange(s, t.off, t.len, t.val)
      BY <1>1, <1>2, <1>5, <2>1, <2>3
    <3>2. n \in Nat /\ Len(s) <= n /\ t.off + t.len <= n
      BY <1>1, <2>1
    <3>3. stripe'[i] = [k \in 1..n |->
            IF t.off < k /\ k <= t.off + t.len THEN t.val ELSE IF k <= Len(s) THEN s[k] ELSE Zero]
      BY <3>1 DEF SetRange
    <3> HIDE DEF n
    <3>4. Len(stripe'[i]) = n
      BY <3>2, <3>3
    <3>5. \A k \in 1..n : stripe'[i][k] =
            IF t.off < k /\ k <= t.off + t.len THEN t.val ELSE IF k <= Len(s) THEN s[k] ELSE Zero
      BY <3>3
    <3>6. ASSUME Covers(t, b) PROVE Holds(b, t.val)'
      <4>1. t.off <= r /\ r < t.off + t.len
        BY <3>6 DEF Covers
      <4>2. r + 1 \in 1..n /\ r < n /\ t.off < r + 1 /\ r + 1 <= t.off + t.len
        BY <4>1, <3>2, <1>1, <1>3
      <4>3. stripe'[i][r + 1] = t.val
        BY <4>2, <3>5
      <4> QED
        BY <4>2, <4>3, <3>4, <1>4, <1>5 DEF Holds
    <3>7. ASSUME ~Covers(t, b), Holds(b, v) PROVE Holds(b, v)'
      <4>1. ~(t.off <= r /\ r < t.off + t.len) /\ r < Len(s) /\ s[r + 1] = v
        BY <3>7, <1>5 DEF Covers, Holds
      <4>2. r + 1 \in 1..n /\ r < n /\ ~(t.off < r + 1 /\ r + 1 <= t.off + t.len) /\ r + 1 <= Len(s)
        BY <4>1, <3>2, <2>1, <1>1, <1>3
      <4>3. stripe'[i][r + 1] = v
        BY <4>1, <4>2, <3>5
      <4> QED
        BY <4>2, <4>3, <3>4, <1>4, <1>5 DEF Holds
    <3> QED
      BY <3>6, <3>7
  <2> QED
    BY <2>2, <2>3
<1>6. CASE i # t.id
  <2>1. ~Covers(t, b)
    BY <1>6 DEF Covers
  <2>2. ASSUME Holds(b, v) PROVE Holds(b, v)'
    <3>1. i \in Registered
      BY <2>2 DEF Holds
    <3>2. i \in Ids
      BY <3>1, RegisteredIds DEF Inv
    <3>3. stripe'[i] = stripe[i]
      BY <3>2, <1>1, <1>2, <1>6 DEF Inv, TypeOK
    <3> QED
      BY <2>2, <3>1, <3>3, <1>4 DEF Holds
  <2> QED
    BY <2>1, <2>2
<1> QED
  BY <1>5, <1>6

\* A process whose bytes nobody touched, and whose call is where it was.
LEMMA OthersWrites ==
  ASSUME NEW q \in Proc, Writes(q), call'[q] = call[q], wrote'[q] = wrote[q],
         \A b \in Segment[q] : \A v : Holds(b, v) => Holds(b, v)'
  PROVE  Writes(q)'
<1>1. Within(q)'
  BY DEF Writes, Within, Covers
<1>2. ASSUME NEW b \in Span(call[q].off, call[q].len), call[q].op = "write" PROVE b \in Segment[q]
  BY <1>2 DEF Writes, Within
<1>3. Kept(q)'
  BY DEF Writes, Kept
<1>4. Arrives(q)'
  BY <1>2 DEF Writes, Arrives, Covers
<1>5. Filled(q)'
  BY DEF Writes, Filled
<1> QED
  BY <1>1, <1>3, <1>4, <1>5 DEF Writes

\* GETRANGE gives the bytes of the range that the value has.
LEMMA GetRangeByte ==
  ASSUME NEW S, NEW s \in Seq(S), NEW o \in Nat, NEW l \in Nat, NEW j \in 1..l, o + j <= Len(s),
         NEW got, got = GetRange(s, o, l)
  PROVE  j <= Len(got) /\ got[j] = s[o + j]
<1> DEFINE e == IF o + l > Len(s) THEN Len(s) ELSE o + l
<1>1. e \in Nat /\ e <= Len(s) /\ o + j <= e
  OBVIOUS
<1>2. got = SubSeq(s, o + 1, e)
  BY DEF GetRange
<1> HIDE DEF e
<1>3. Len(got) = e - o /\ j \in 1..(e - o)
  <2>1. (o + 1) \in 1..Len(s) /\ e \in 1..Len(s) /\ o + 1 <= e
    BY <1>1
  <2> QED
    BY <1>1, <1>2, <2>1
<1>4. got[j] = s[o + 1 + j - 1]
  BY <1>1, <1>2, <1>3
<1>5. o + 1 + j - 1 = o + j
  OBVIOUS
<1> QED
  BY <1>1, <1>3, <1>4, <1>5

\* GETRANGE gives no more than it is asked for.
LEMMA GotFits ==
  ASSUME TypeOK, NEW t \in Tasks, t.off + t.len <= StripeSize,
         NEW got, got = GetRange(stripe[t.id], t.off, t.len)
  PROVE  Len(got) \in Nat /\ Len(got) <= t.len
<1> DEFINE s == stripe[t.id]
           e == IF t.off + t.len > Len(s) THEN Len(s) ELSE t.off + t.len
<1>1. t.off \in Nat /\ t.len \in Nat /\ s \in Seq(Byte) /\ Len(s) \in Nat
  BY StripeSizeAssumption DEF Tasks, TypeOK
<1>2. got = SubSeq(s, t.off + 1, e)
  BY DEF GetRange
<1> HIDE DEF s
<1>3. e \in Nat /\ e <= Len(s) /\ e <= t.off + t.len
  BY <1>1
<1> HIDE DEF e
<1>4. Len(got) = IF t.off + 1 <= e THEN e - t.off ELSE 0
  BY <1>1, <1>2, <1>3
<1> QED
  BY <1>1, <1>3, <1>4

\* GETRANGE of a piece gives the bytes of the file it is for.
LEMMA ReadHolds ==
  ASSUME TypeOK, NEW t \in Tasks, t.off + t.len <= StripeSize, NEW o \in Nat,
         t.id * StripeSize + t.off = o + t.pos,
         NEW k \in Nat, t.pos < k, k <= t.pos + t.len, NEW w, Holds(o + k - 1, w),
         NEW got, got = GetRange(stripe[t.id], t.off, t.len)
  PROVE  k <= t.pos + Len(got) /\ got[k - t.pos] = w
<1> DEFINE b == o + k - 1
           j == k - t.pos
           s == stripe[t.id]
<1>1. /\ t.id \in Ids /\ t.id \in Int /\ t.off \in Nat /\ t.len \in Nat /\ t.pos \in Nat
      /\ StripeSize \in Nat /\ t.id * StripeSize \in Int
  BY MaxSizeFacts, StripeSizeAssumption, StoreAssumption, StripeOrder DEF Tasks, Ids
<1>2. /\ b \in Nat /\ j \in 1..t.len /\ t.off + j - 1 \in Nat /\ t.off + j - 1 < StripeSize
      /\ b = t.id * StripeSize + (t.off + j - 1) /\ k = t.pos + j
  <2>1. PICK x : x = t.id * StripeSize
    OBVIOUS
  <2> QED
    BY <1>1, <2>1
<1> HIDE DEF j
<1>3. b \div StripeSize = t.id /\ b % StripeSize = t.off + j - 1
  BY <1>1, <1>2, OnePlace
<1>4. s \in Seq(Byte) /\ Len(s) \in Nat
  BY <1>1 DEF TypeOK
<1>5. t.off + j - 1 < Len(s) /\ s[t.off + j - 1 + 1] = w
  BY <1>3 DEF Holds
<1> HIDE DEF s
<1>6. t.off + j <= Len(s) /\ t.off + j - 1 + 1 = t.off + j
  <2>1. PICK a, n : a = t.off /\ n = Len(s)
    OBVIOUS
  <2>2. a \in Nat /\ n \in Nat /\ j \in Int
    BY <1>1, <1>2, <1>4, <2>1
  <2>3. a + j - 1 < n
    BY <1>5, <2>1
  <2>4. a + j <= n /\ a + j - 1 + 1 = a + j
    BY <2>2, <2>3
  <2> QED
    BY <2>1, <2>4
<1>7. j <= Len(got) /\ got[j] = s[t.off + j]
  <2>1. got = GetRange(s, t.off, t.len)
    BY DEF s
  <2> QED
    <3>1. t.off \in Nat /\ t.len \in Nat /\ j \in 1..t.len
      BY <1>1, <1>2
    <3> QED
      BY <1>4, <1>6, <2>1, <3>1, GetRangeByte
<1>8. Len(got) \in Nat
  <2>1. got \in Seq(Byte)
    <3>1. Len(s) <= StripeSize /\ Zero \in Byte
      BY <1>1, StoreAssumption DEF TypeOK, s
    <3> QED
      BY <1>1, <1>4, <3>1, RangesFit DEF s
  <2> QED
    BY <2>1
<1>9. t.pos + j <= t.pos + Len(got)
  <2>1. PICK x, l : x = t.pos /\ l = Len(got)
    OBVIOUS
  <2>2. x \in Int /\ l \in Nat /\ j \in Int /\ j <= l
    BY <1>1, <1>2, <1>7, <1>8, <2>1
  <2>3. x + j <= x + l
    BY <2>2
  <2> QED
    BY <2>1, <2>3
<1> QED
  BY <1>2, <1>5, <1>6, <1>7, <1>9 DEF j

-----------------------------------------------------------------------------
\* A step that touches no stripe: what the process becomes is enough.
LEMMA LocalWrites ==
  ASSUME WriteInv, Inv', NEW p \in Proc, NEW c, call' = [call EXCEPT ![p] = c],
         UNCHANGED <<redis, wrote>>, Writes(p)'
  PROVE  WriteInv'
<1>1. \A b, v : Holds(b, v) => Holds(b, v)'
  BY DEF redis, Holds, Registered
<1>2. ASSUME NEW q \in Proc, q # p PROVE Writes(q)'
  <2>1. Writes(q) /\ call'[q] = call[q] /\ wrote'[q] = wrote[q]
    BY <1>2 DEF WriteInv, Inv, TypeOK
  <2> QED
    BY <1>1, <2>1, OthersWrites
<1> QED
  BY <1>2 DEF WriteInv

\* The bytes a process transfers are below the bound.
LEMMA SpanBound ==
  ASSUME NEW p \in Proc, NEW o \in 0..MaxSize, NEW l \in 0..MaxSize, l > 0,
         Span(o, l) \subseteq Segment[p]
  PROVE  o \in Nat /\ l \in Nat /\ o + l <= MaxSize
<1>1. MaxSize \in Nat
  BY MaxSizeFacts
<1>2. o + l - 1 \in Span(o, l)
  BY <1>1 DEF Span
<1>3. o + l - 1 < MaxSize
  BY <1>2, SegmentBytes
<1> QED
  BY <1>1, <1>3

\* A call starts with all its stripes to do.
LEMMA StartingWrites ==
  ASSUME WriteInv, Inv', NEW p \in Proc, Starting(p), UNCHANGED wrote
  PROVE  WriteInv'
<1>0. call \in [Proc -> Calls] /\ Writes(p)
  BY DEF WriteInv, Inv, TypeOK
<1>1. ASSUME NEW c, Begin(p, c), c.op # "write",
             /\ c.op \in {"read", "size"} /\ (c.op # "size" => c.phase # "search")
             /\ c.op = "size" => c.todo = {}
             /\ c.op = "read" =>
                  /\ Span(c.off, c.len) \subseteq Segment[p] /\ Len(c.buf) = c.len
                  /\ \A t \in c.todo : t.kind = "read" /\ t.id * StripeSize + t.off = c.off + t.pos
                  /\ \A k \in 1..c.len : \E t \in c.todo : t.pos < k /\ k <= t.pos + t.len
      PROVE  WriteInv'
  <2>1. call[p] = Idle /\ call' = [call EXCEPT ![p] = c] /\ UNCHANGED redis /\ call'[p] = c
    BY <1>0, <1>1 DEF Begin
  <2>2. Within(p)'
    BY <1>1, <2>1 DEF Within
  <2>3. Kept(p)'
    <3>1. \A b \in Segment[p] : wrote[p][b] # NoByte => Holds(b, wrote[p][b])
      BY <1>0, <2>1 DEF Writes, Kept, Idle
    <3>2. \A b, v : Holds(b, v) => Holds(b, v)'
      BY <2>1 DEF redis, Holds, Registered
    <3> QED
      BY <3>1, <3>2 DEF Kept
  <2>4. Arrives(p)' /\ Filled(p)'
    BY <1>1, <2>1 DEF Arrives, Filled
  <2> QED
    BY <2>1, <2>2, <2>3, <2>4, LocalWrites DEF Writes
<1>2. CASE CallGetSize(p)
  <2> DEFINE c == [Idle EXCEPT !.op = "size", !.phase = "search", !.len = 0, !.asked = Instance]
  <2>1. c.op = "size" /\ c.todo = {} /\ Begin(p, c)
    BY <1>2 DEF CallGetSize, CallSearching, Idle
  <2> HIDE DEF c
  <2> QED
    BY <1>1, <2>1
<1>3. ASSUME NEW o \in 0..MaxSize, NEW l \in 0..MaxSize, l > 0, Span(o, l) \subseteq Segment[p],
             CallRead(p, o, l)
      PROVE  WriteInv'
  <2> DEFINE T == Transfer("read", o, l, Zero)
             B == [k \in 1..l |-> NoByte]
             c == [Idle EXCEPT !.op = "read", !.phase = "stripes", !.off = o, !.len = l,
                               !.todo = T, !.buf = B]
  <2>1. o \in Nat /\ l \in Nat /\ o + l <= MaxSize /\ Zero \in Byte
    BY <1>3, SpanBound, StoreAssumption
  <2>2. /\ \A b \in Span(o, l) : \E t \in T : Covers(t, b) /\ t.pos <= b - o /\ b - o < t.pos + t.len
        /\ \A t \in T : t.kind = "read" /\ t.id * StripeSize + t.off = o + t.pos
    BY <2>1, TransferCovers
  <2>3. \A t \in T : t.pos \in Nat /\ t.len \in Nat
    <3>1. Good(T)
      BY <2>1, TransferIsGood
    <3> QED
      BY <3>1, MaxSizeFacts, StripeSizeAssumption DEF Good, Tasks
  <2>4. ASSUME NEW k \in 1..l PROVE \E t \in T : t.pos < k /\ k <= t.pos + t.len
    <3>1. o + k - 1 \in Span(o, l) /\ (o + k - 1) - o = k - 1
      BY <2>1 DEF Span
    <3>2. PICK t \in T : t.pos <= k - 1 /\ k - 1 < t.pos + t.len
      BY <2>2, <3>1
    <3> QED
      BY <2>3, <3>2
  <2>5. Len(B) = l
    BY <2>1
  <2>6. Begin(p, c)
    BY <1>3 DEF CallRead
  <2> HIDE DEF T, B
  <2>7. /\ c.op = "read" /\ c.phase = "stripes" /\ c.off = o /\ c.len = l /\ c.todo = T
        /\ c.buf = B
    BY DEF Idle
  <2> HIDE DEF c
  <2> QED
    BY <1>1, <1>3, <2>2, <2>4, <2>5, <2>6, <2>7
<1>4. ASSUME NEW o \in 0..MaxSize, NEW l \in 0..MaxSize, l > 0, Span(o, l) \subseteq Segment[p],
             NEW v \in Byte, CallWrite(p, o, l, v)
      PROVE  WriteInv'
  <2> DEFINE T == Transfer("write", o, l, v)
             c == [Idle EXCEPT !.op = "write", !.phase = "stripes", !.off = o, !.len = l,
                               !.val = v, !.todo = T]
  <2>1. o \in Nat /\ l \in Nat /\ o + l <= MaxSize
    BY <1>4, SpanBound
  <2>2. /\ \A b \in Span(o, l) : \E t \in T : Covers(t, b)
        /\ \A t \in T : /\ t.kind = "write" /\ t.val = v
                        /\ \A b \in Nat : Covers(t, b) => b \in Span(o, l)
    <3>1. PICK U : U = T
      OBVIOUS
    <3>2. U = Transfer("write", o, l, v)
      BY <3>1
    <3> HIDE DEF T
    <3> QED
      BY <2>1, <3>1, <3>2, TransferCovers
  <2>3. Begin(p, c)
    BY <1>4 DEF CallWrite
  <2> HIDE DEF T
  <2>4. c.op = "write" /\ c.phase = "stripes" /\ c.off = o /\ c.len = l /\ c.todo = T /\ c.val = v
    BY DEF Idle
  <2> HIDE DEF c
  <2>5. call[p] = Idle /\ call' = [call EXCEPT ![p] = c] /\ UNCHANGED redis /\ call'[p] = c
    BY <1>0, <2>3 DEF Begin
  <2>6. Within(p)'
    BY <1>4, <2>2, <2>4, <2>5 DEF Within, Covers
  <2>7. Kept(p)'
    <3>1. \A b \in Segment[p] : wrote[p][b] # NoByte => Holds(b, wrote[p][b])
      BY <1>0, <2>5 DEF Writes, Kept, Idle
    <3>2. \A b, x : Holds(b, x) => Holds(b, x)'
      BY <2>5 DEF redis, Holds, Registered
    <3> QED
      BY <3>1, <3>2 DEF Kept
  <2>8. Arrives(p)' /\ Filled(p)'
    BY <2>2, <2>4, <2>5 DEF Arrives, Filled, Covers
  <2> QED
    BY <2>5, <2>6, <2>7, <2>8, LocalWrites DEF Writes
<1> QED
  BY <1>2, <1>3, <1>4 DEF Starting

\* The steps of a size: what its process has written is where it was.
LEMMA SizingWrites ==
  ASSUME WriteInv, Inv', NEW p \in Proc, UNCHANGED wrote,
         \/ \E i \in Instance : SearchInstance(p, i)
         \/ SizeOfNone(p) \/ Strlen(p) \/ StartRemoving(p)
  PROVE  WriteInv'
<1>0. call \in [Proc -> Calls] /\ call[p] \in Calls /\ Writes(p)
  BY DEF WriteInv, Inv, TypeOK
<1>1. call[p].phase = "search"
  BY DEF SearchInstance, SizeOfNone, Strlen, StartRemoving, Searched
<1>2. call[p].op = "size" /\ call[p].todo = {}
  BY <1>0, <1>1 DEF Writes, Within
<1>3. UNCHANGED redis /\ call' = [call EXCEPT ![p] = call'[p]]
  BY <1>0 DEF SearchInstance, SizeOfNone, Strlen, StartRemoving, Sized
<1>4. call'[p].op = "size" /\ call'[p].todo = {}
  <2>1. ASSUME NEW i \in Instance, SearchInstance(p, i)
        PROVE  call'[p].op = "size" /\ call'[p].todo = {}
    BY <1>0, <1>2, <2>1 DEF SearchInstance, Calls
  <2>2. ASSUME NEW n, Sized(p, n) PROVE call'[p].op = "size" /\ call'[p].todo = {}
    BY <1>0, <1>2, <2>2 DEF Sized, Calls
  <2>3. ~StartRemoving(p)
    BY <1>2 DEF StartRemoving
  <2> QED
    BY <2>1, <2>2, <2>3 DEF SizeOfNone, Strlen
<1>5. Within(p)' /\ Arrives(p)' /\ Filled(p)'
  BY <1>4 DEF Within, Arrives, Filled
<1>6. Kept(p)'
  <2>1. \A b \in Segment[p] : wrote[p][b] # NoByte => Holds(b, wrote[p][b])
    BY <1>0, <1>2 DEF Writes, Kept
  <2>2. \A b, v : Holds(b, v) => Holds(b, v)'
    BY <1>3 DEF redis, Holds, Registered
  <2> QED
    BY <2>1, <2>2 DEF Kept
<1>7. PICK c : c = call'[p]
  OBVIOUS
<1> QED
  BY <1>3, <1>5, <1>6, <1>7, LocalWrites DEF Writes

\* A stripe is written: the bytes of the range are there, and no others change.
LEMMA WriteKeeps ==
  ASSUME WriteInv, Inv', NEW p \in Proc, NEW t \in call[p].todo, WriteStripe(p, t),
         UNCHANGED wrote
  PROVE  WriteInv'
<1>0. Inv /\ call \in [Proc -> Calls] /\ call[p] \in Calls /\ Writes(p)
  BY DEF WriteInv, Inv, TypeOK
<1>1. /\ call' = [call EXCEPT ![p].todo = @ \ {t}] /\ t.kind = "write"
  BY DEF WriteStripe, Doing, Done
<1>2. /\ call[p].op = "write" /\ t.val = call[p].val
      /\ \A b \in Nat : Covers(t, b) => b \in Span(call[p].off, call[p].len)
      /\ Span(call[p].off, call[p].len) \subseteq Segment[p]
  BY <1>0, <1>1 DEF Writes, Within
<1>3. /\ call'[p].op = call[p].op /\ call'[p].off = call[p].off /\ call'[p].len = call[p].len
      /\ call'[p].val = call[p].val /\ call'[p].todo = call[p].todo \ {t}
      /\ call'[p].phase = call[p].phase
  BY <1>0, <1>1 DEF Calls
<1>4. ASSUME NEW b \in Nat, NEW v
      PROVE  /\ Covers(t, b) => Holds(b, t.val)'
             /\ ~Covers(t, b) /\ Holds(b, v) => Holds(b, v)'
  BY <1>0, <1>4, WriteHolds
<1>5. ASSUME NEW q \in Proc, q # p PROVE Writes(q)'
  <2>1. Writes(q) /\ call'[q] = call[q] /\ wrote'[q] = wrote[q]
    BY <1>0, <1>1, <1>5 DEF WriteInv
  <2>2. ASSUME NEW b \in Segment[q], NEW v, Holds(b, v) PROVE Holds(b, v)'
    <3>1. b \in Nat /\ b \notin Segment[p]
      BY <1>5, SegmentBytes, SegmentAssumption
    <3>2. ~Covers(t, b)
      BY <1>2, <3>1
    <3> QED
      BY <1>4, <2>2, <3>1, <3>2
  <2> QED
    BY <2>1, <2>2, OthersWrites
<1>6. Within(p)'
  <2>1. Within(p)
    BY <1>0 DEF Writes
  <2>2. \A u, b : Covers(u, b)' <=> Covers(u, b)
    BY DEF Covers
  <2> QED
    BY <1>2, <1>3, <2>1, <2>2 DEF Within, Covers
<1>7. ASSUME NEW b \in Segment[p], NEW v, Holds(b, v), ~Covers(t, b) PROVE Holds(b, v)'
  BY <1>4, <1>7, SegmentBytes
<1>8. ASSUME NEW b \in Segment[p], Covers(t, b) PROVE Holds(b, t.val)'
  <2>1. b \in Nat
    BY SegmentBytes
  <2> QED
    BY <1>4, <1>8, <2>1
<1>9. Kept(p)'
  <2> SUFFICES ASSUME NEW b \in Segment[p], NEW w, w = wrote[p][b], w # NoByte
               PROVE  \/ Holds(b, w)'
                      \/ b \in Span(call[p].off, call[p].len) /\ Holds(b, t.val)'
    BY <1>2, <1>3 DEF Kept, Holds
  <2>1. CASE Covers(t, b)
    BY <1>2, <1>8, <2>1, SegmentBytes
  <2>2. CASE ~Covers(t, b)
    <3>1. \/ Holds(b, w)
          \/ b \in Span(call[p].off, call[p].len) /\ Holds(b, t.val)
      BY <1>0, <1>2 DEF Writes, Kept
    <3> QED
      BY <1>7, <2>2, <3>1
  <2> QED
    BY <2>1, <2>2
<1>10. Arrives(p)'
  <2> SUFFICES ASSUME NEW b \in Span(call[p].off, call[p].len)
               PROVE  \/ Holds(b, t.val)'
                      \/ \E u \in call[p].todo \ {t} : Covers(u, b)
    BY <1>2, <1>3 DEF Arrives, Holds, Covers
  <2>1. b \in Segment[p]
    BY <1>2
  <2>2. CASE Covers(t, b)
    BY <1>8, <2>1, <2>2
  <2>3. CASE ~Covers(t, b)
    <3>1. Holds(b, t.val) \/ \E u \in call[p].todo : Covers(u, b)
      BY <1>0, <1>2 DEF Writes, Arrives
    <3> QED
      BY <1>7, <2>1, <2>3, <3>1
  <2> QED
    BY <2>2, <2>3
<1>11. Filled(p)'
  BY <1>2, <1>3 DEF Filled
<1>12. Writes(p)'
  BY <1>6, <1>9, <1>10, <1>11 DEF Writes
<1> QED
  BY <1>5, <1>12 DEF WriteInv

\* A stripe is read: what the process wrote there is put in its place.
LEMMA ReadKeeps ==
  ASSUME WriteInv, Inv', NEW p \in Proc, NEW t \in call[p].todo, ReadStripe(p, t),
         UNCHANGED wrote
  PROVE  WriteInv'
<1> DEFINE got == GetRange(stripe[t.id], t.off, t.len)
           off == call[p].off
           len == call[p].len
           buf == call[p].buf
           c   == call'[p]
<1>0. TypeOK /\ Fits /\ call \in [Proc -> Calls] /\ call[p] \in Calls /\ Writes(p)
  BY DEF WriteInv, Inv, TypeOK
<1>1. t.kind = "read" /\ UNCHANGED redis /\ call' = [call EXCEPT ![p] = c]
  BY <1>0 DEF ReadStripe, Doing
<1>2. /\ call[p].op = "read" /\ t.id * StripeSize + t.off = off + t.pos
      /\ Span(off, len) \subseteq Segment[p] /\ Len(buf) = len
      /\ \A u \in call[p].todo : u.kind = "read" /\ u.id * StripeSize + u.off = off + u.pos
  BY <1>0, <1>1 DEF Writes, Within
<1>3. /\ c.op = "read" /\ c.phase = call[p].phase /\ c.off = off /\ c.len = len
      /\ c.todo = call[p].todo \ {t}
      /\ c.buf = [k \in DOMAIN buf |->
                    IF t.pos < k /\ k <= t.pos + Len(got) THEN got[k - t.pos] ELSE buf[k]]
  BY <1>0, <1>2 DEF ReadStripe, Calls
<1>4. /\ t \in Tasks /\ t.off + t.len <= StripeSize /\ off \in Nat /\ len \in Nat
      /\ t.pos \in Nat /\ t.len \in Nat /\ DOMAIN buf = 1..len
  <2>1. t \in Tasks /\ t.off + t.len <= StripeSize /\ off \in Nat /\ len \in Nat
    BY <1>0, MaxSizeFacts DEF Calls, Fits
  <2>2. t.pos \in Nat /\ t.len \in Nat
    BY <2>1, MaxSizeFacts, StripeSizeAssumption DEF Tasks
  <2>3. buf \in Seq(Byte \cup {NoByte})
    BY <1>0 DEF Calls
  <2> QED
    BY <1>2, <2>1, <2>2, <2>3
<1>5. Len(c.buf) = len /\ DOMAIN c.buf = 1..len
  <2>1. c.buf = [k \in 1..len |->
                    IF t.pos < k /\ k <= t.pos + Len(got) THEN got[k - t.pos] ELSE buf[k]]
    BY <1>3, <1>4
  <2> QED
    BY <1>4, <2>1
<1> HIDE DEF got, off, len, buf, c
<1>6. \A b, v : Holds(b, v)' <=> Holds(b, v)
  BY <1>1 DEF redis, Holds, Registered
<1>7. Within(p)'
  <2>1. /\ c.op = "read" /\ Span(c.off, c.len) \subseteq Segment[p] /\ Len(c.buf) = c.len
        /\ \A u \in c.todo : u.kind = "read" /\ u.id * StripeSize + u.off = c.off + u.pos
        /\ c.phase # "search"
    BY <1>0, <1>2, <1>3, <1>5 DEF Writes, Within
  <2> QED
    BY <2>1 DEF Within, c
<1>8. \A b \in Segment[p] : wrote[p][b] # NoByte => Holds(b, wrote[p][b])
  BY <1>0, <1>2 DEF Writes, Kept
<1>9. Kept(p)'
  BY <1>6, <1>8 DEF Kept
<1>10. Arrives(p)'
  BY <1>3 DEF Arrives, c
<1>11. Filled(p)'
  <2> SUFFICES ASSUME NEW k \in 1..len, NEW w, w = wrote[p][off + k - 1], w # NoByte
               PROVE  \/ c.buf[k] = w
                      \/ \E u \in c.todo : u.pos < k /\ k <= u.pos + u.len
    BY <1>3 DEF Filled, c
  <2>1. off + k - 1 \in Segment[p]
    BY <1>2, <1>4 DEF Span
  <2>2. Holds(off + k - 1, w)
    BY <1>8, <2>1
  <2>3. k \in Nat /\ got = GetRange(stripe[t.id], t.off, t.len)
    BY <1>4 DEF got
  <2>4. ASSUME t.pos < k, k <= t.pos + t.len
        PROVE  k <= t.pos + Len(got) /\ got[k - t.pos] = w
    <3>1. TypeOK /\ t \in Tasks /\ off \in Nat /\ t.off + t.len <= StripeSize
      BY <1>0, <1>4
    <3>2. t.id * StripeSize + t.off = off + t.pos
      BY <1>2
    <3> QED
      BY <2>2, <2>3, <2>4, <3>1, <3>2, ReadHolds
  <2>5. c.buf[k] = IF t.pos < k /\ k <= t.pos + Len(got) THEN got[k - t.pos] ELSE buf[k]
    BY <1>3, <1>4
  <2>6. Len(got) \in Nat /\ Len(got) <= t.len
    BY <1>0, <1>4, <2>3, GotFits
  <2>7. t.pos < k /\ k <= t.pos + Len(got) => k <= t.pos + t.len
    BY <1>4, <2>6
  <2>8. \/ buf[k] = w
        \/ \E u \in call[p].todo : u.pos < k /\ k <= u.pos + u.len
    BY <1>0, <1>2 DEF Writes, Filled, buf, off, len
  <2> QED
    BY <1>3, <2>4, <2>5, <2>7, <2>8
<1>12. Writes(p)'
  BY <1>7, <1>9, <1>10, <1>11 DEF Writes
<1> QED
  BY <1>1, <1>12, LocalWrites

\* A call returns: what it wrote is there, all of it.
LEMMA ReturnKeeps ==
  ASSUME WriteInv, Inv', NEW p \in Proc, Returning(p)
  PROVE  WriteInv'
<1>0. /\ call \in [Proc -> Calls] /\ Writes(p) /\ call' = [call EXCEPT ![p] = Idle]
      /\ UNCHANGED redis /\ call[p].todo = {} /\ call'[p] = Idle
      /\ wrote = [q \in Proc |-> wrote[q]]
  BY DEF WriteInv, Inv, TypeOK, Returning, Return
<1>1. \A b, v : Holds(b, v) => Holds(b, v)'
  BY <1>0 DEF redis, Holds, Registered
<1>2. wrote' = [wrote EXCEPT ![p] = [b \in Segment[p] |->
         IF call[p].op = "write" /\ b \in Span(call[p].off, call[p].len)
         THEN call[p].val ELSE wrote[p][b]]]
  BY <1>0 DEF Returning
<1>3. ASSUME NEW q \in Proc, q # p PROVE Writes(q)'
  <2>1. Writes(q) /\ call'[q] = call[q] /\ wrote'[q] = wrote[q]
    BY <1>0, <1>2, <1>3 DEF WriteInv
  <2> QED
    BY <1>1, <2>1, OthersWrites
<1>4. Within(p)' /\ Arrives(p)' /\ Filled(p)'
  BY <1>0 DEF Within, Arrives, Filled, Idle
<1>5. Kept(p)'
  <2> SUFFICES ASSUME NEW b \in Segment[p], NEW w, w = wrote'[p][b], w # NoByte
               PROVE  Holds(b, w)
    BY <1>1 DEF Kept, Holds
  <2>1. w = IF call[p].op = "write" /\ b \in Span(call[p].off, call[p].len)
            THEN call[p].val ELSE wrote[p][b]
    BY <1>0, <1>2
  <2> QED
    BY <1>0, <2>1 DEF Writes, Arrives, Kept
<1>6. Writes(p)'
  BY <1>4, <1>5 DEF Writes
<1>7. wrote' = [q \in Proc |-> wrote'[q]]
  BY <1>0, <1>2
<1> QED
  BY <1>3, <1>6, <1>7 DEF WriteInv

-----------------------------------------------------------------------------
\* The steps of the writers are steps of the store's clients.
LEMMA DNextIsNext == [DNext]_dvars => [Next]_vars
<1> SUFFICES ASSUME [DNext]_dvars PROVE [Next]_vars
  OBVIOUS
<1>1. CASE UNCHANGED dvars
  BY <1>1 DEF dvars
<1>2. ASSUME NEW p \in Proc, Starting(p) PROVE Next
  <2>1. CASE CallGetSize(p)
    BY <2>1 DEF Next, Call
  <2>2. ASSUME NEW o \in 0..MaxSize, NEW l \in 0..MaxSize, l > 0, Span(o, l) \subseteq Segment[p],
               CallRead(p, o, l) \/ \E v \in Byte : CallWrite(p, o, l, v)
        PROVE  Next
    <3>1. l \in 0..(MaxSize - o)
      BY <2>2, SpanBound, MaxSizeFacts
    <3> QED
      BY <2>2, <3>1 DEF Next, Call
  <2> QED
    BY <1>2, <2>1, <2>2 DEF Starting
<1>3. ASSUME NEW p \in Proc, Working(p) \/ Returning(p) PROVE Next
  BY <1>3 DEF Working, Returning, Next, Step
<1> QED
  BY <1>1, <1>2, <1>3 DEF DNext

\* So what is proved of the store holds of these writers too: types, sets and,
\* as they only write, read and ask sizes, the bracket of GetSize.
THEOREM WritersUseTheStore == DSpec => Spec
<1>1. DInit => Init
  BY DEF DInit
<1> QED
  BY <1>1, DNextIsNext, PTL DEF DSpec, Spec

\* At first nothing is written.
LEMMA InitWriteInv == DInit => WriteInv
<1> SUFFICES ASSUME DInit PROVE WriteInv
  OBVIOUS
<1>1. Inv /\ wrote = [p \in Proc |-> wrote[p]]
  BY InitInv DEF DInit
<1>2. ASSUME NEW p \in Proc PROVE Writes(p)
  <2>1. call[p] = Idle /\ \A b \in Segment[p] : wrote[p][b] = NoByte
    BY DEF DInit, Init
  <2> QED
    BY <2>1 DEF Writes, Within, Kept, Arrives, Filled, Idle
<1> QED
  BY <1>1, <1>2 DEF WriteInv

\* Every step of every writer keeps what each has written.
LEMMA NextWriteInv == WriteInv /\ [DNext]_dvars => WriteInv'
<1> SUFFICES ASSUME WriteInv, [DNext]_dvars PROVE WriteInv'
  OBVIOUS
<1>1. Inv'
  BY DNextIsNext, NextInv DEF WriteInv
<1>2. CASE UNCHANGED dvars
  <2>1. UNCHANGED <<redis, call, wrote>>
    BY <1>2 DEF dvars, vars, redis
  <2>2. \A b, v : Holds(b, v) => Holds(b, v)'
    BY <2>1 DEF redis, Holds, Registered
  <2>3. ASSUME NEW p \in Proc PROVE Writes(p)'
    BY <2>1, <2>2, OthersWrites DEF WriteInv
  <2> QED
    BY <1>1, <2>1, <2>3 DEF WriteInv
<1>3. ASSUME NEW p \in Proc, Starting(p), UNCHANGED wrote PROVE WriteInv'
  BY <1>1, <1>3, StartingWrites
<1>4. ASSUME NEW p \in Proc, Working(p), UNCHANGED wrote PROVE WriteInv'
  <2>1. CASE \/ \E i \in Instance : SearchInstance(p, i)
             \/ SizeOfNone(p) \/ Strlen(p) \/ StartRemoving(p)
    BY <1>1, <1>4, <2>1, SizingWrites
  <2>2. ASSUME NEW t \in call[p].todo, WriteStripe(p, t) PROVE WriteInv'
    BY <1>1, <1>4, <2>2, WriteKeeps
  <2>3. ASSUME NEW t \in call[p].todo, ReadStripe(p, t) PROVE WriteInv'
    BY <1>1, <1>4, <2>3, ReadKeeps
  <2>4. ASSUME NEW t \in call[p].todo PROVE ~RemoveStripe(p, t) /\ ~TrimStripe(p, t)
    <3>1. Within(p)
      BY DEF WriteInv, Writes
    <3>2. t.kind \in {"read", "write"}
      BY <3>1 DEF Within
    <3> QED
      BY <3>2 DEF RemoveStripe, TrimStripe, Doing
  <2> QED
    BY <1>4, <2>1, <2>2, <2>3, <2>4 DEF Working, Step
<1>5. ASSUME NEW p \in Proc, Returning(p) PROVE WriteInv'
  BY <1>1, <1>5, ReturnKeeps
<1> QED
  BY <1>2, <1>3, <1>4, <1>5 DEF DNext

\* A byte that is in its stripe is in the file.
LEMMA HeldIsRead ==
  ASSUME TypeOK, NEW b \in Nat, NEW v, Holds(b, v)
  PROVE  b < Size /\ Contents[b + 1] = v
<1> DEFINE i == b \div StripeSize
           r == b % StripeSize
           s == stripe[i]
<1>1. i \in Nat /\ r \in Nat /\ b = i * StripeSize + r
  BY DivMod, StripeSizeAssumption
<1>2. i \in Registered /\ r < Len(s) /\ s[r + 1] = v
  BY DEF Holds
<1>3. End(i) <= Size /\ Size \in Nat /\ End(i) = i * StripeSize + Len(s)
  BY <1>1, <1>2, SizeFacts DEF End
<1>4. Len(s) \in Nat
  BY <1>2, RegisteredIds DEF TypeOK
<1>5. i * StripeSize \in Int
  BY <1>1, StripeOrder
<1>6. b < Size
  BY <1>1, <1>2, <1>3, <1>4, <1>5
<1>7. b + 1 \in 1..Size /\ (b + 1) - 1 = b
  BY <1>3, <1>6
<1>8. \A k \in 1..Size : Contents[k] =
         LET x == stripe[(k - 1) \div StripeSize]  y == ((k - 1) % StripeSize) + 1
         IN  IF y <= Len(x) THEN x[y] ELSE Zero
  BY DEF Contents
<1>9. Contents[b + 1] = IF r + 1 <= Len(s) THEN s[r + 1] ELSE Zero
  BY <1>7, <1>8
<1>10. r + 1 <= Len(s)
  BY <1>1, <1>2, <1>4
<1> QED
  BY <1>2, <1>6, <1>9, <1>10

\* Between two calls of a process its segment holds what it wrote there last,
\* for every number of writers, any segments that do not overlap, aligned with
\* stripes or not, and any interleaving of their stripes (WriteAt,
\* store.go:166; writeStripe, store.go:95).  As above, transfers have at most
\* InitialCap stripes.
THEOREM NoWriteIsLost == DSpec => []NoLostWrite
<1>1. WriteInv => NoLostWrite
  <2> SUFFICES ASSUME WriteInv, NEW p \in Proc, call[p] = Idle, NEW b \in Segment[p],
                      wrote[p][b] # NoByte
               PROVE  b < Size /\ Contents[b + 1] = wrote[p][b]
    BY DEF NoLostWrite
  <2>1. TypeOK /\ b \in Nat
    BY SegmentBytes DEF WriteInv, Inv
  <2>2. Holds(b, wrote[p][b])
    BY DEF WriteInv, Writes, Kept, Idle
  <2> QED
    BY <2>1, <2>2, HeldIsRead
<1> QED
  BY InitWriteInv, NextWriteInv, <1>1, PTL DEF DSpec

\* What a process reads back of its segment is what it wrote there last, each
\* byte in its place, while the others write and its stripes are read in any
\* order (ReadAt, store.go:176).
THEOREM OwnWritesAreRead == DSpec => ReadsOwnWrites
<1> DEFINE A == \A p \in Proc : Returns(p, "read") =>
                  \A k \in 1..call[p].len :
                    LET w == wrote[p][call[p].off + k - 1]
                    IN  w # NoByte => call[p].buf[k] = w
<1>1. WriteInv /\ [DNext]_dvars => A
  <2> SUFFICES ASSUME WriteInv, [DNext]_dvars, NEW p \in Proc, Returns(p, "read")
               PROVE  \A k \in 1..call[p].len :
                        LET w == wrote[p][call[p].off + k - 1]
                        IN  w # NoByte => call[p].buf[k] = w
    OBVIOUS
  <2>0. /\ call \in [Proc -> Calls] /\ call[p] \in Calls /\ Writes(p)
        /\ call[p].op = "read" /\ call[p].phase = "stripes" /\ call'[p] = Idle
    BY DEF WriteInv, Inv, TypeOK, Returns
  <2>1. call[p] # Idle /\ call'[p].op = "idle"
    BY <2>0 DEF Idle
  <2>2. call[p].todo = {}
    <3>1. call'[p] # call[p]
      BY <2>0, <2>1
    <3>2. PICK q \in Proc : Starting(q) \/ Working(q) \/ Returning(q)
      BY <3>1 DEF DNext, dvars, vars
    <3>3. call' = [call EXCEPT ![q] = call'[q]]
      BY <2>0, <3>2 DEF Starting, Working, Returning, Step, Return, CallGetSize, CallSearching,
        CallRead, CallWrite, Begin, SearchInstance, SizeOfNone, Strlen, StartRemoving, Sized,
        WriteStripe, ReadStripe, RemoveStripe, TrimStripe, Done
    <3>4. q = p
      BY <2>0, <3>1, <3>3
    <3>5. ~Starting(p)
      BY <2>1 DEF Starting, CallGetSize, CallSearching, CallRead, CallWrite, Begin
    <3>6. CASE Return(p)
      BY <3>6 DEF Return
    <3>7. ~SizeOfNone(p) /\ ~Strlen(p) /\ ~StartRemoving(p) /\ \A i \in Instance : ~SearchInstance(p, i)
      BY <2>0 DEF SearchInstance, SizeOfNone, Strlen, StartRemoving, Searched
    <3>8. ASSUME NEW t \in call[p].todo,
                 WriteStripe(p, t) \/ ReadStripe(p, t) \/ RemoveStripe(p, t) \/ TrimStripe(p, t)
          PROVE  FALSE
      <4>1. call'[p].op = call[p].op
        <5>1. CASE ReadStripe(p, t)
          BY <2>0, <5>1 DEF ReadStripe, Calls
        <5>2. CASE WriteStripe(p, t) \/ RemoveStripe(p, t) \/ TrimStripe(p, t)
          <6>1. Done(p, t)
            BY <5>2 DEF WriteStripe, RemoveStripe, TrimStripe
          <6> QED
            BY <2>0, <6>1 DEF Done, Calls
        <5> QED
          BY <3>8, <5>1, <5>2
      <4> QED
        BY <2>0, <2>1, <4>1
    <3> QED
      BY <3>2, <3>4, <3>5, <3>6, <3>7, <3>8 DEF Working, Returning, Step
  <2> QED
    BY <2>0, <2>2 DEF Writes, Filled
<1>2. ReadsOwnWrites <=> [][A]_dvars
  BY DEF ReadsOwnWrites
<1> HIDE DEF A
<1>3. WriteInv /\ [DNext]_dvars => [A]_dvars
  BY <1>1
<1> QED
  BY InitWriteInv, NextWriteInv, <1>2, <1>3, PTL DEF DSpec

-----------------------------------------------------------------------------
(***************************************************************************)
(* A file one process has for itself, without gaps: its stripes are 0..m,  *)
(* none empty, but for those that a call has still to write or to remove,  *)
(* so that a trim finds its stripe.                                        *)
(***************************************************************************)
Alone == /\ \E p : Proc = {p}
         /\ Ops \subseteq {"write", "read", "remove", "size", "shrink", "grow", "growpart"}

ToWrite(p)  == {t.id : t \in {u \in call[p].todo : u.kind = "write"}}
ToRemove(p) == {t.id : t \in {u \in call[p].todo : u.kind = "remove"}}
Whole(p, m) ==
  /\ 0..m \subseteq Registered \cup ToWrite(p)
  /\ Registered \cup ToWrite(p) \subseteq (0..m) \cup ToRemove(p)
  /\ \A id \in ToRemove(p) : id > m
  /\ ToRemove(p) # {} => ToWrite(p) = {}
  /\ \A t \in call[p].todo : /\ t.kind = "write" => t.len > 0
                             /\ t.kind = "trim" => /\ t.id = m /\ t.len > 0
                                                   /\ m # -1 => m \in Registered
Sought(p) ==
  call[p].phase = "search" => /\ call[p].todo = {} /\ call[p].last \in Registered \cup {-1}
                              /\ \A id \in Registered : Home[id] \in call[p].asked \/ id <= call[p].last
NoneEmpty == \A id \in Registered : Len(stripe[id]) > 0
FoundInv == /\ Inv /\ StoredIsFound /\ NoneEmpty
            /\ \A p \in Proc : Sought(p) /\ (call[p] = Idle \/ call[p].phase # "none")
                                         /\ \E m \in Ids : Whole(p, m)

\* Between two calls the stripes are 0..m, and the size ends in stripe m.
LEMMA WholeSize ==
  ASSUME FoundInv, NEW p \in Proc, call[p].todo = {}, NEW m \in Ids, Whole(p, m)
  PROVE  /\ Registered = 0..m /\ Last(Registered) = m /\ m \in Int /\ m >= -1
         /\ Size = IF m < 0 THEN 0 ELSE End(m)
         /\ m >= 0 => m \in Registered /\ Len(stripe[m]) \in 1..StripeSize
<1>1. Registered = 0..m
  BY DEF Whole, ToWrite, ToRemove
<1>2. m \in Int /\ m >= -1
  BY StoreAssumption DEF Ids
<1>3. TypeOK /\ Registered \in SUBSET Ids
  BY RegisteredIds DEF FoundInv, Inv
<1>4. Last(Registered) = m
  <2>1. /\ Last(Registered) \in Registered \cup {-1}
        /\ \A id \in Registered : id <= Last(Registered)
    BY <1>3, LastFacts
  <2> QED
    BY <2>1, <1>1, <1>2
<1>5. Size = IF m < 0 THEN 0 ELSE End(m)
  BY <1>4 DEF Size, End
<1>6. m >= 0 => m \in Registered /\ Len(stripe[m]) \in 1..StripeSize
  <2> SUFFICES ASSUME m >= 0 PROVE m \in Registered /\ Len(stripe[m]) \in 1..StripeSize
    OBVIOUS
  <2>1. m \in Registered
    BY <1>1, <1>2
  <2>2. Len(stripe[m]) > 0
    BY <2>1 DEF FoundInv, NoneEmpty
  <2>3. Len(stripe[m]) \in Nat /\ Len(stripe[m]) <= StripeSize /\ StripeSize \in Nat
    BY <1>3, StripeSizeAssumption DEF TypeOK
  <2> QED
    BY <2>1, <2>2, <2>3
<1> QED
  BY <1>1, <1>2, <1>4, <1>5, <1>6

\* A step that touches no stripe: what the process has left to do is enough.
LEMMA LocalFound ==
  ASSUME Alone, FoundInv, Inv', NEW p \in Proc, NEW c, call' = [call EXCEPT ![p] = c],
         UNCHANGED redis, Sought(p)', c = Idle \/ c.phase # "none",
         NEW m \in Ids, Whole(p, m)'
  PROVE  FoundInv'
<1>1. Registered' = Registered /\ StoredIsFound' /\ NoneEmpty'
  BY DEF redis, Registered, FoundInv, StoredIsFound, NoneEmpty
<1>2. Proc = {p} /\ call'[p] = c
  BY DEF Alone, FoundInv, Inv, TypeOK
<1> QED
  BY <1>1, <1>2 DEF FoundInv

\* A call that leaves no gap starts with the stripes that it will add.
LEMMA CallFound ==
  ASSUME Alone, FoundInv, Inv', NEW p \in Proc, Call(p)
  PROVE  FoundInv'
<1>0. call \in [Proc -> Calls] /\ TypeOK /\ MaxSize \in Nat /\ call[p] = Idle
  BY MaxSizeFacts DEF FoundInv, Inv, TypeOK, Call, CallRead, CallWrite, CallSearching, CallResize,
    CallGetSize, CallRemove, Begin
<1>1. PICK m \in Ids : Whole(p, m)
  BY DEF FoundInv
<1>2. /\ Registered = 0..m /\ m \in Int /\ m >= -1 /\ call[p].todo = {}
      /\ Size = IF m < 0 THEN 0 ELSE End(m)
      /\ m >= 0 => Len(stripe[m]) \in 1..StripeSize
  BY <1>0, <1>1, WholeSize DEF Idle
<1>3. ASSUME NEW c, Begin(p, c), c.phase = "stripes", NEW k \in Ids, k >= m,
             \A t \in c.todo : t.kind \in {"read", "write"} /\ (t.kind = "write" => t.len > 0 /\ t.id \in 0..k),
             \A id \in (m + 1)..k : \E t \in c.todo : t.kind = "write" /\ t.id = id
      PROVE  FoundInv'
  <2>1. call' = [call EXCEPT ![p] = c] /\ UNCHANGED redis /\ call'[p] = c /\ Registered' = Registered
    BY <1>0, <1>3 DEF Begin, redis, Registered
  <2>2. k \in Int /\ ToRemove(p)' = {} /\ ToWrite(p)' \subseteq 0..k /\ (m + 1)..k \subseteq ToWrite(p)'
    BY <1>3, <2>1, StoreAssumption DEF ToRemove, ToWrite, Ids
  <2>3. 0..k = (0..m) \cup ((m + 1)..k)
    BY <1>2, <1>3, <2>2
  <2>4. Whole(p, k)'
    BY <1>2, <1>3, <2>1, <2>2, <2>3 DEF Whole
  <2>5. Sought(p)'
    BY <1>3, <2>1 DEF Sought
  <2> QED
    BY <1>3, <2>1, <2>4, <2>5, LocalFound
<1>4. ASSUME NEW o \in 0..MaxSize, NEW l \in 0..(MaxSize - o), CallRead(p, o, l)
      PROVE  FoundInv'
  <2>1. \A t \in Transfer("read", o, l, Zero) : t.kind = "read"
    BY DEF Transfer, Task
  <2>2. (m + 1)..m = {} /\ m >= m
    BY <1>2
  <2> DEFINE c == [Idle EXCEPT !.op = "read", !.phase = "stripes", !.off = o, !.len = l,
                               !.todo = Transfer("read", o, l, Zero),
                               !.buf = [j \in 1..l |-> NoByte]]
  <2>3. Begin(p, c) /\ c.phase = "stripes" /\ c.todo = Transfer("read", o, l, Zero)
    BY <1>4 DEF CallRead, Idle
  <2> HIDE DEF c
  <2>4. /\ \A t \in c.todo : t.kind \in {"read", "write"} /\ (t.kind = "write" => t.len > 0 /\ t.id \in 0..m)
        /\ \A id \in (m + 1)..m : \E t \in c.todo : t.kind = "write" /\ t.id = id
    BY <2>1, <2>2, <2>3
  <2> QED
    BY <1>1, <1>3, <2>2, <2>3, <2>4
<1>5. ASSUME NEW o \in 0..MaxSize, NEW l \in 0..(MaxSize - o), NEW v \in Byte,
             CallWrite(p, o, l, v)
      PROVE  FoundInv'
  <2> DEFINE T == Transfer("write", o, l, v)
             X == Registered \cup {t.id : t \in T}
             k == Last(X)
             c == [Idle EXCEPT !.op = "write", !.phase = "stripes", !.off = o, !.len = l,
                               !.val = v, !.todo = T]
  <2>1. o \in Nat /\ l \in Nat /\ o + l <= MaxSize /\ o <= Size
    BY <1>0, <1>5 DEF CallWrite, Alone
  <2>2. \A t \in T : /\ t.kind = "write" /\ t.len \in Nat /\ t.len > 0 /\ t.id \in Ids /\ t.id \in Nat
                     /\ t.pos \in Nat /\ t.off \in Nat /\ t.off < StripeSize /\ t.pos + t.len <= l
                     /\ t.id * StripeSize + t.off = o + t.pos
    <3> SUFFICES ASSUME NEW t \in T
                 PROVE  /\ t.kind = "write" /\ t.len \in Nat /\ t.len > 0 /\ t.id \in Ids /\ t.id \in Nat
                        /\ t.pos \in Nat /\ t.off \in Nat /\ t.off < StripeSize /\ t.pos + t.len <= l
                        /\ t.id * StripeSize + t.off = o + t.pos
      OBVIOUS
    <3>1. PICK u \in Layout(o, l) : t = Task("write", u.id, u.off, u.pos, u.len, v)
      BY DEF Transfer
    <3>2. /\ t.kind = "write" /\ t.id = u.id /\ t.off = u.off /\ t.pos = u.pos /\ t.len = u.len
      BY <3>1 DEF Task
    <3>3. /\ u \in Entry /\ u.len > 0 /\ u.id <= MaxStripe
          /\ u.off + u.len <= StripeSize /\ u.pos + u.len <= l
          /\ u.id * StripeSize + u.off = o + u.pos
      BY <2>1, LayoutFacts, StoreAssumption DEF MaxSize
    <3>4. /\ u.len \in Nat /\ u.id \in Nat /\ u.off \in Nat /\ u.pos \in Nat /\ u.id \in Ids
          /\ u.off < StripeSize
      BY <3>3, StoreAssumption, StripeSizeAssumption DEF Entry, Ids
    <3> QED
      BY <3>2, <3>3, <3>4
  <2>3. \A b \in Span(o, l) : \E t \in T : t.id = b \div StripeSize
    <3>1. PICK U : U = T
      OBVIOUS
    <3>2. U = Transfer("write", o, l, v)
      BY <3>1 DEF T
    <3> HIDE DEF T
    <3> QED
      BY <2>1, <3>1, <3>2, TransferCovers DEF Covers
  <2> HIDE DEF T
  <2>4. X \in SUBSET Ids
    BY <1>0, <2>2, RegisteredIds
  <2>5. k \in Ids /\ k \in X \cup {-1} /\ \A id \in X : id <= k
    BY <2>4, LastFacts
  <2>6. k \in Int /\ k >= m /\ StripeSize \in Nat /\ StripeSize > 0
    <3>1. k \in Int /\ k >= -1
      BY <2>5, StoreAssumption DEF Ids
    <3>2. m >= 0 => m \in X
      BY <1>2
    <3> QED
      BY <1>2, <2>5, <3>1, <3>2, StripeSizeAssumption
  <2>7. o <= (m + 1) * StripeSize
    <3> DEFINE x == m * StripeSize
    <3>1. x \in Int /\ (m + 1) * StripeSize = x + StripeSize
      BY <1>2, <2>6
    <3>2. CASE m < 0
      <4>1. m + 1 = 0
        BY <1>2, <3>2
      <4> QED
        BY <1>2, <2>1, <2>6, <3>2, <4>1
    <3>3. CASE m >= 0
      <4>1. Size = x + Len(stripe[m]) /\ Len(stripe[m]) \in 1..StripeSize
        BY <1>2, <3>3 DEF End
      <4> HIDE DEF x
      <4> QED
        BY <2>1, <2>6, <3>1, <4>1
    <3> QED
      BY <1>2, <3>2, <3>3
  <2> HIDE DEF X, k
  <2>8. ASSUME NEW id \in (m + 1)..k PROVE \E t \in T : t.kind = "write" /\ t.id = id
    <3>1. id \in Nat /\ k \notin Registered /\ k # -1
      BY <1>2, <2>6
    <3>2. PICK u \in T : u.id = k
      BY <2>5, <3>1 DEF X
    <3>3. CASE id = k
      BY <2>2, <3>2, <3>3
    <3>4. CASE id < k
      <4> DEFINE x == id * StripeSize
                 y == k * StripeSize
      <4>1. /\ x \in Int /\ y \in Int /\ x + StripeSize <= y
            /\ (m + 1) * StripeSize <= x /\ (m + 1) * StripeSize \in Int
        BY <1>2, <2>6, <3>1, <3>4, StripeOrder
      <4>2. y + u.off = o + u.pos /\ u.off \in Nat /\ u.pos \in Nat /\ u.len > 0 /\ u.len \in Nat
            /\ u.pos + u.len <= l
        BY <2>2, <3>2
      <4>a. x \div StripeSize = id
        <5>1. x = id * StripeSize + 0 /\ x \in Nat
          BY <2>6, <3>1
        <5> HIDE DEF x
        <5> QED
          BY <2>6, <3>1, <5>1, OnePlace
      <4> HIDE DEF x, y
      <4>3. o <= x /\ x <= o + l - 1
        BY <2>1, <2>6, <2>7, <4>1, <4>2
      <4>4. x \in Span(o, l)
        BY <2>1, <4>1, <4>3 DEF Span
      <4> QED
        BY <2>2, <2>3, <4>a, <4>4
    <3> QED
      BY <2>6, <3>1, <3>3, <3>4
  <2>9. \A t \in T : t.id \in 0..k
    BY <2>2, <2>5, <2>6 DEF X
  <2>10. Begin(p, c) /\ c.phase = "stripes" /\ c.todo = T
    BY <1>5 DEF CallWrite, T, Idle
  <2> HIDE DEF c
  <2> QED
    BY <1>3, <2>2, <2>5, <2>6, <2>8, <2>9, <2>10
<1>6. ASSUME NEW op, NEW l, CallSearching(p, op, l) PROVE FoundInv'
  <2> DEFINE c == [Idle EXCEPT !.op = op, !.phase = "search", !.len = l, !.asked = Instance]
  <2>1. c.phase = "search" /\ c.todo = {} /\ c.last = -1 /\ c.asked = Instance
    BY DEF Idle
  <2>2. call' = [call EXCEPT ![p] = c] /\ UNCHANGED redis /\ call'[p] = c /\ Registered' = Registered
    BY <1>0, <1>6 DEF CallSearching, Begin, redis, Registered
  <2> HIDE DEF c
  <2>3. Whole(p, m)'
    BY <1>1, <1>2, <2>1, <2>2 DEF Whole, ToWrite, ToRemove
  <2>4. Sought(p)'
    <3>1. \A id \in Registered : Home[id] \in Instance
      BY <1>0, RegisteredIds, StoreAssumption
    <3> QED
      BY <2>1, <2>2, <3>1 DEF Sought
  <2> QED
    BY <2>1, <2>2, <2>3, <2>4, LocalFound
<1> QED
  BY <1>4, <1>5, <1>6 DEF Call, CallResize, CallGetSize, CallRemove

\* Where a size ends: in one stripe, and a smaller size not in a later one.
LEMMA EndOrder ==
  ASSUME NEW a \in Int, NEW b \in Int, NEW x \in 1..StripeSize, NEW y \in 1..StripeSize
  PROVE  /\ a * StripeSize + x = b * StripeSize + y => a = b
         /\ a * StripeSize + x < b * StripeSize + y => a <= b
<1> DEFINE u == a * StripeSize
           v == b * StripeSize
<1>1. /\ u \in Int /\ v \in Int /\ (a < b => u + StripeSize <= v) /\ (b < a => v + StripeSize <= u)
  BY StripeOrder
<1>2. /\ u + x = v + y => a = b
      /\ u + x < v + y => a <= b
  <2> HIDE DEF u, v
  <2> QED
    BY <1>1, StripeSizeAssumption
<1> QED
  BY <1>2

\* Resize, once it has the size, starts what brings the file to stripes 0..w.id.
LEMMA ResizeFound ==
  ASSUME NEW T, NEW m \in Ids, NEW cur \in 0..MaxSize, NEW new \in 0..MaxSize,
         T = ResizeTasks(cur, new), LastStripeInfo(cur).id = m
  PROVE  \E k \in Ids :
           \/ /\ k <= m
              /\ \E l \in Nat \ {0} :
                   T = RemoveTasks((k + 1)..m) \cup {Task("trim", k, 0, 0, l, Zero)}
           \/ /\ k >= m /\ \A t \in T : t.kind = "write" /\ t.len = 1 /\ t.id \in 0..k
              /\ \A id \in (m + 1)..k : \E t \in T : t.kind = "write" /\ t.id = id
<1> DEFINE c == LastStripeInfo(cur)
           w == LastStripeInfo(new)
<1>1. /\ cur \in Nat /\ new \in Nat /\ MaxSize \in Nat /\ MaxStripe \in Nat /\ StripeSize \in Nat
      /\ StripeSize > 0 /\ m \in Int /\ m >= -1 /\ c.id = m
  BY MaxSizeFacts, StoreAssumption, StripeSizeAssumption DEF Ids
<1>2. /\ w.id \in Int /\ w.id >= -1 /\ w.len \in 1..StripeSize
      /\ w.id * StripeSize + w.len = new /\ (new > 0 => w.id >= 0)
      /\ c.len \in 1..StripeSize /\ c.id * StripeSize + c.len = cur
      /\ (c.len < StripeSize => c.id >= 0)
  BY <1>1, LastStripeFacts
<1> HIDE DEF c, w
<1>3. /\ new < cur => w.id <= m
      /\ new > cur => m <= w.id
  BY <1>1, <1>2, EndOrder
<1>4. w.id \in Ids
  <2>1. w.id * StripeSize + w.len <= MaxStripe * StripeSize + StripeSize
    BY <1>1, <1>2, StripeOrder DEF MaxSize
  <2>2. StripeSize \in 1..StripeSize
    BY <1>1
  <2>3. w.id <= MaxStripe
    <3>1. w.id * StripeSize + w.len \in Int /\ MaxStripe * StripeSize + StripeSize \in Int
      BY <1>1, <1>2, StripeOrder
    <3>2. \/ w.id * StripeSize + w.len = MaxStripe * StripeSize + StripeSize
          \/ w.id * StripeSize + w.len < MaxStripe * StripeSize + StripeSize
      BY <2>1, <3>1
    <3> QED
      BY <1>1, <1>2, <2>2, <3>2, EndOrder
  <2> QED
    BY <1>1, <1>2, <2>3 DEF Ids
<1>5. CASE new < cur
  <2>1. T = RemoveTasks((w.id + 1)..m) \cup {Task("trim", w.id, 0, 0, w.len, Zero)}
    BY <1>1, <1>5 DEF ResizeTasks, c, w
  <2>2. w.len \in Nat \ {0}
    BY <1>2
  <2> QED
    BY <1>3, <1>4, <1>5, <2>1, <2>2
<1>6. CASE new > cur
  <2> DEFINE mid  == {ZeroByte(id, StripeSize - 1) : id \in (m + 1)..(w.id - 1)}
             end  == {ZeroByte(w.id, w.len - 1)}
             fill == IF c.len < StripeSize THEN {ZeroByte(m, StripeSize - c.len - 1)} ELSE {}
  <2>1. T = (mid \cup end) \cup fill
    BY <1>1, <1>6 DEF ResizeTasks, c, w
  <2>2. w.id >= 0
    BY <1>1, <1>2, <1>6
  <2>3. \A t \in mid : t.kind = "write" /\ t.len = 1 /\ t.id \in 0..w.id
    BY <1>1, <1>2 DEF ZeroByte, Task
  <2>4. \A t \in end : t.kind = "write" /\ t.len = 1 /\ t.id \in 0..w.id
    BY <1>2, <2>2 DEF ZeroByte, Task
  <2>5. \A t \in fill : t.kind = "write" /\ t.len = 1 /\ t.id \in 0..w.id
    BY <1>1, <1>2, <1>3, <1>6 DEF ZeroByte, Task
  <2>6. ASSUME NEW id \in (m + 1)..w.id PROVE \E t \in mid \cup end : t.kind = "write" /\ t.id = id
    <3>1. CASE id = w.id
      <4>1. ZeroByte(w.id, w.len - 1) \in end /\ ZeroByte(w.id, w.len - 1).id = id
            /\ ZeroByte(w.id, w.len - 1).kind = "write"
        BY <3>1 DEF ZeroByte, Task
      <4> QED
        BY <4>1
    <3>2. CASE id < w.id
      <4>1. id \in (m + 1)..(w.id - 1)
        BY <1>1, <1>2, <3>2
      <4>2. ZeroByte(id, StripeSize - 1) \in mid /\ ZeroByte(id, StripeSize - 1).id = id
            /\ ZeroByte(id, StripeSize - 1).kind = "write"
        BY <4>1 DEF ZeroByte, Task
      <4> QED
        BY <4>2
    <3> QED
      BY <1>1, <1>2, <3>1, <3>2
  <2> HIDE DEF mid, end, fill
  <2> QED
    BY <1>3, <1>4, <1>6, <2>1, <2>3, <2>4, <2>5, <2>6
<1>7. CASE new = cur
  <2>1. T = {}
    BY <1>1, <1>7 DEF ResizeTasks
  <2>2. (m + 1)..m = {} /\ m >= m
    BY <1>1
  <2> QED
    BY <2>1, <2>2
<1> QED
  BY <1>1, <1>5, <1>6, <1>7

\* GetSize finds the last stripe of the process's own file, and the size it ends.
LEMMA SearchFound ==
  ASSUME Alone, FoundInv, Inv', NEW p \in Proc,
         \/ \E i \in Instance : SearchInstance(p, i)
         \/ SizeOfNone(p) \/ Strlen(p) \/ StartRemoving(p)
  PROVE  FoundInv'
<1>0. /\ call \in [Proc -> Calls] /\ call[p] \in Calls /\ TypeOK /\ MaxSize \in Nat /\ Sought(p)
      /\ Inv
  BY MaxSizeFacts DEF FoundInv, Inv, TypeOK
<1>1. PICK m \in Ids : Whole(p, m)
  BY DEF FoundInv
<1>2. call[p].phase = "search" /\ call[p].todo = {} /\ UNCHANGED redis
  BY <1>0 DEF SearchInstance, SizeOfNone, Strlen, StartRemoving, Searched, Sought
<1>3. /\ Registered = 0..m /\ m \in Int /\ m >= -1 /\ Last(Registered) = m
      /\ Size = IF m < 0 THEN 0 ELSE End(m)
      /\ m >= 0 => m \in Registered /\ Len(stripe[m]) \in 1..StripeSize
      /\ Size \in Nat
  BY <1>0, <1>1, <1>2, WholeSize, SizeFacts
<1>4. Registered' = Registered
  BY <1>2 DEF redis, Registered
<1>5. ASSUME NEW i \in Instance, SearchInstance(p, i) PROVE FoundInv'
  <2> DEFINE c == [call[p] EXCEPT !.asked = @ \ {i}, !.last = Last(reg[i] \cup {call[p].last})]
  <2>1. reg[i] \cup {call[p].last} \in SUBSET Ids
    BY <1>0 DEF TypeOK, Calls
  <2>2. /\ c.last \in reg[i] \cup {call[p].last, -1}
        /\ \A id \in reg[i] \cup {call[p].last} : id <= c.last
        /\ c.phase = "search" /\ c.todo = {} /\ c.asked = call[p].asked \ {i}
    BY <1>0, <1>2, <2>1, LastFacts DEF Calls
  <2>3. call' = [call EXCEPT ![p] = c] /\ call'[p] = c
    BY <1>0, <1>5 DEF SearchInstance
  <2> HIDE DEF c
  <2>4. Whole(p, m)'
    BY <1>1, <1>2, <1>4, <2>2, <2>3 DEF Whole, ToWrite, ToRemove
  <2>5. c.last \in Registered \cup {-1} /\ c.last \in Int /\ call[p].last \in Int /\ call[p].last <= c.last
    <3>1. reg[i] \subseteq Registered /\ call[p].last \in Registered \cup {-1}
      BY <1>0, <1>2 DEF Registered, Sought
    <3> QED
      BY <1>3, <2>2, <3>1
  <2>6. ASSUME NEW id \in Registered PROVE Home[id] \in c.asked \/ id <= c.last
    <3>1. id \in Int
      BY <1>3
    <3>2. Home[id] \in call[p].asked \/ id <= call[p].last
      BY <1>0, <1>2 DEF Sought
    <3>3. CASE Home[id] \in call[p].asked /\ Home[id] # i
      BY <2>2, <3>3
    <3>4. CASE id <= call[p].last
      BY <2>5, <3>1, <3>4
    <3>5. CASE Home[id] = i
      <4>1. PICK j \in Instance : id \in reg[j]
        BY DEF Registered
      <4>2. Home[id] = j
        BY <1>0, <4>1 DEF Inv, RegisteredIsStored
      <4> QED
        BY <2>2, <3>5, <4>1, <4>2
    <3> QED
      BY <3>2, <3>3, <3>4, <3>5
  <2>7. Sought(p)'
    BY <1>4, <2>2, <2>3, <2>5, <2>6, <1>2 DEF Sought, redis
  <2> QED
    BY <1>1, <1>2, <2>2, <2>3, <2>4, <2>7, LocalFound
<1>6. ASSUME Searched(p) PROVE call[p].last = m
  <2>1. call[p].last \in (0..m) \cup {-1} /\ \A id \in 0..m : id <= call[p].last
    BY <1>0, <1>3, <1>6 DEF Searched, Sought
  <2> QED
    BY <1>3, <2>1
<1> DEFINE ShrunkTo(todo, k) ==
             k <= m /\ \E l \in Nat \ {0} :
                         todo = RemoveTasks((k + 1)..m) \cup {Task("trim", k, 0, 0, l, Zero)}
           GrownTo(todo, k) ==
             /\ k >= m /\ \A t \in todo : t.kind = "write" /\ t.len = 1 /\ t.id \in 0..k
             /\ \A id \in (m + 1)..k : \E t \in todo : t.kind = "write" /\ t.id = id
<1>7. ASSUME NEW c, call' = [call EXCEPT ![p] = c], c.phase = "stripes", NEW k \in Ids,
             \/ c.todo = {} /\ k = m
             \/ k <= m /\ c.todo = RemoveTasks((k + 1)..m)
             \/ ShrunkTo(c.todo, k) \/ GrownTo(c.todo, k)
      PROVE  FoundInv'
  <2>1. call'[p] = c /\ k \in Int /\ k >= -1
    BY <1>0, <1>7, StoreAssumption DEF Ids
  <2>2. Sought(p)'
    BY <1>7, <2>1 DEF Sought
  <2>3. Whole(p, k)'
    <3>1. CASE c.todo = {} /\ k = m
      BY <1>3, <1>4, <2>1, <3>1 DEF Whole, ToWrite, ToRemove
    <3>2. ASSUME k <= m, NEW R, R \subseteq {u \in c.todo : u.kind = "trim"},
                 \A t \in R : t.id = k /\ t.len > 0,
                 c.todo = RemoveTasks((k + 1)..m) \cup R
          PROVE  Whole(p, k)'
      <4>1. /\ \A t \in RemoveTasks((k + 1)..m) : t.kind = "remove" /\ t.id \in (k + 1)..m
            /\ \A id \in (k + 1)..m : \E t \in RemoveTasks((k + 1)..m) : t.kind = "remove" /\ t.id = id
        <5>1. ASSUME NEW id \in (k + 1)..m
              PROVE  \E t \in RemoveTasks((k + 1)..m) : t.kind = "remove" /\ t.id = id
          <6>1. Task("remove", id, 0, 0, 0, Zero) \in RemoveTasks((k + 1)..m)
            BY DEF RemoveTasks
          <6> QED
            BY <6>1 DEF Task
        <5>2. \A t \in RemoveTasks((k + 1)..m) : t.kind = "remove" /\ t.id \in (k + 1)..m
          BY DEF RemoveTasks, Task
        <5> QED
          BY <5>1, <5>2
      <4>2. ToWrite(p)' = {}
        BY <2>1, <3>2, <4>1 DEF ToWrite
      <4>3. ToRemove(p)' = (k + 1)..m
        BY <2>1, <3>2, <4>1 DEF ToRemove
      <4>4. 0..m = (0..k) \cup ((k + 1)..m) /\ \A id \in (k + 1)..m : id > k
        BY <1>3, <2>1, <3>2
      <4>5. k # -1 => k \in 0..m
        BY <1>3, <2>1, <3>2
      <4>6. \A t \in c.todo : /\ t.kind # "write"
                              /\ t.kind = "trim" => t.id = k /\ t.len > 0
        BY <3>2, <4>1
      <4> QED
        BY <1>3, <1>4, <2>1, <4>2, <4>3, <4>4, <4>5, <4>6 DEF Whole
    <3>3. CASE k <= m /\ c.todo = RemoveTasks((k + 1)..m)
      <4>1. c.todo = RemoveTasks((k + 1)..m) \cup {}
        BY <3>3
      <4> QED
        BY <3>2, <3>3, <4>1
    <3>4. ASSUME k <= m, NEW l \in Nat \ {0},
                 c.todo = RemoveTasks((k + 1)..m) \cup {Task("trim", k, 0, 0, l, Zero)}
          PROVE  Whole(p, k)'
      <4> DEFINE R == {Task("trim", k, 0, 0, l, Zero)}
      <4>1. R \subseteq {u \in c.todo : u.kind = "trim"} /\ \A t \in R : t.id = k /\ t.len > 0
        BY <3>4 DEF Task
      <4> HIDE DEF R
      <4>2. c.todo = RemoveTasks((k + 1)..m) \cup R
        BY <3>4 DEF R
      <4> QED
        BY <3>2, <3>4, <4>1, <4>2
    <3>5. CASE /\ k >= m /\ \A t \in c.todo : t.kind = "write" /\ t.len = 1 /\ t.id \in 0..k
               /\ \A id \in (m + 1)..k : \E t \in c.todo : t.kind = "write" /\ t.id = id
      <4>1. ToRemove(p)' = {} /\ ToWrite(p)' \subseteq 0..k /\ (m + 1)..k \subseteq ToWrite(p)'
        BY <2>1, <3>5 DEF ToRemove, ToWrite
      <4>2. 0..k = (0..m) \cup ((m + 1)..k)
        BY <1>3, <2>1, <3>5
      <4> QED
        BY <1>3, <1>4, <2>1, <3>5, <4>1, <4>2 DEF Whole
    <3> QED
      BY <1>7, <3>1, <3>3, <3>4, <3>5
  <2> QED
    BY <1>2, <1>7, <2>2, <2>3, LocalFound
<1> HIDE DEF ShrunkTo, GrownTo
<1>8. ASSUME Sized(p, Size) PROVE FoundInv'
  <2> DEFINE T == IF call[p].op = "resize" THEN ResizeTasks(Size, call[p].len) ELSE {}
             c == [call[p] EXCEPT !.phase = "stripes",
                                  !.n = IF call[p].op = "size" THEN Size ELSE 0, !.todo = T]
  <2>1. call' = [call EXCEPT ![p] = c]
    BY <1>0, <1>8 DEF Sized
  <2>2. c.phase = "stripes" /\ c.todo = T
    BY <1>0 DEF Calls
  <2> HIDE DEF c
  <2>3. CASE call[p].op # "resize"
    BY <1>7, <2>1, <2>2, <2>3
  <2>4. CASE call[p].op = "resize"
    <3>1. Size \in 0..MaxSize /\ call[p].len \in 0..MaxSize
      <4>1. call[p].len \in 0..MaxSize
        BY <1>0 DEF Calls
      <4>2. CASE m < 0
        BY <1>0, <1>3, <4>1, <4>2
      <4>3. CASE m >= 0
        <5>1. /\ m * StripeSize + StripeSize <= MaxSize /\ Size = m * StripeSize + Len(stripe[m])
              /\ Len(stripe[m]) \in 1..StripeSize /\ m * StripeSize \in Int
          BY <1>3, <4>3, MaxSizeFacts, StripeOrder DEF End
        <5> DEFINE x == m * StripeSize
        <5>2. x + StripeSize <= MaxSize /\ Size = x + Len(stripe[m]) /\ x \in Int
          BY <5>1
        <5> HIDE DEF x
        <5>3. Size <= MaxSize
          BY <1>0, <5>1, <5>2, StripeSizeAssumption
        <5> QED
          BY <1>0, <1>3, <4>1, <5>3
      <4> QED
        BY <1>3, <4>2, <4>3
    <3>2. LastStripeInfo(Size).id = m
      <4> DEFINE r == LastStripeInfo(Size)
      <4>1. r.id \in Int /\ r.len \in 1..StripeSize /\ r.id * StripeSize + r.len = Size
        BY <1>3, LastStripeFacts
      <4> HIDE DEF r
      <4>2. CASE m < 0
        <5>1. m = -1 /\ Size = m * StripeSize + StripeSize /\ StripeSize \in 1..StripeSize
          BY <1>3, <4>2, StripeSizeAssumption
        <5> QED
          BY <1>3, <4>1, <5>1, EndOrder DEF r
      <4>3. CASE m >= 0
        <5>1. Size = m * StripeSize + Len(stripe[m]) /\ Len(stripe[m]) \in 1..StripeSize
          BY <1>3, <4>3 DEF End
        <5> QED
          BY <1>3, <4>1, <5>1, EndOrder DEF r
      <4> QED
        BY <1>3, <4>2, <4>3
    <3>3. T = ResizeTasks(Size, call[p].len)
      BY <2>4
    <3> HIDE DEF T
    <3>4. PICK k \in Ids : ShrunkTo(T, k) \/ GrownTo(T, k)
      <4>1. PICK s : s = Size
        OBVIOUS
      <4>2. PICK l : l = call[p].len
        OBVIOUS
      <4>3. s \in 0..MaxSize /\ l \in 0..MaxSize /\ T = ResizeTasks(s, l) /\ LastStripeInfo(s).id = m
        BY <3>1, <3>2, <3>3, <4>1, <4>2
      <4>4. PICK U : U = T
        OBVIOUS
      <4>5. U = ResizeTasks(s, l)
        BY <4>3, <4>4
      <4>6. \E j \in Ids :
              \/ /\ j <= m
                 /\ \E n \in Nat \ {0} :
                      U = RemoveTasks((j + 1)..m) \cup {Task("trim", j, 0, 0, n, Zero)}
              \/ /\ j >= m /\ \A t \in U : t.kind = "write" /\ t.len = 1 /\ t.id \in 0..j
                 /\ \A id \in (m + 1)..j : \E t \in U : t.kind = "write" /\ t.id = id
        BY <1>1, <4>3, <4>5, ResizeFound
      <4> QED
        BY <4>4, <4>6 DEF ShrunkTo, GrownTo
    <3>5. ShrunkTo(c.todo, k) \/ GrownTo(c.todo, k)
      BY <2>2, <3>4
    <3> QED
      BY <1>7, <2>1, <2>2, <3>5
  <2> QED
    BY <2>3, <2>4
<1>9. CASE SizeOfNone(p)
  <2>1. Size = 0
    BY <1>3, <1>6, <1>9 DEF SizeOfNone
  <2> QED
    BY <1>8, <1>9, <2>1 DEF SizeOfNone
<1>10. CASE Strlen(p)
  <2>1. Size = call[p].last * StripeSize + Len(stripe[call[p].last])
    BY <1>3, <1>6, <1>10 DEF Strlen, End
  <2> QED
    BY <1>8, <1>10, <2>1 DEF Strlen
<1>11. CASE StartRemoving(p)
  <2> DEFINE c == [call[p] EXCEPT !.phase = "stripes", !.todo = RemoveTasks(0..m)]
  <2>1. call' = [call EXCEPT ![p] = c]
    BY <1>0, <1>6, <1>11 DEF StartRemoving
  <2>2. c.phase = "stripes" /\ c.todo = RemoveTasks((-1 + 1)..m) /\ -1 <= m /\ -1 \in Ids
    BY <1>0, <1>3, StoreAssumption DEF Calls, Ids
  <2> HIDE DEF c
  <2> QED
    BY <1>7, <2>1, <2>2
<1> QED
  BY <1>5, <1>9, <1>10, <1>11

\* A value written is not empty, and a trim leaves some of a value that is not.
LEMMA RangesLeave ==
  ASSUME NEW s \in Seq(Byte), NEW o \in Nat, NEW l \in Nat, l > 0, NEW v \in Byte
  PROVE  Len(SetRange(s, o, l, v)) > 0 /\ (Len(s) > 0 => Len(GetRange(s, 0, l)) > 0)
<1> DEFINE n == IF o + l > Len(s) THEN o + l ELSE Len(s)
           e == IF 0 + l > Len(s) THEN Len(s) ELSE 0 + l
<1>1. n \in Nat /\ n > 0 /\ e \in Nat /\ e <= Len(s) /\ (Len(s) > 0 => e > 0)
  OBVIOUS
<1>2. SetRange(s, o, l, v) =
        [k \in 1..n |-> IF o < k /\ k <= o + l THEN v ELSE IF k <= Len(s) THEN s[k] ELSE Zero]
  BY DEF SetRange
<1>3. GetRange(s, 0, l) = SubSeq(s, 0 + 1, e)
  BY DEF GetRange
<1>4. Zero \in Byte /\ \A k \in 1..n : k <= Len(s) => s[k] \in Byte
  BY StoreAssumption
<1> HIDE DEF n, e
<1>5. Len(SetRange(s, o, l, v)) = n
  BY <1>1, <1>2, <1>4
<1>6. Len(s) > 0 => Len(GetRange(s, 0, l)) = e
  BY <1>1, <1>3
<1> QED
  BY <1>1, <1>5, <1>6

\* A goroutine brings the stripes nearer to 0..m, and trims one that is there.
LEMMA StripeFound ==
  ASSUME Alone, FoundInv, Inv', NEW p \in Proc, NEW t \in call[p].todo,
         WriteStripe(p, t) \/ ReadStripe(p, t) \/ RemoveStripe(p, t) \/ TrimStripe(p, t)
  PROVE  FoundInv'
<1>0. /\ call \in [Proc -> Calls] /\ call[p] \in Calls /\ TypeOK /\ TypeOK' /\ Inv /\ Good(call[p].todo)
      /\ Sought(p) /\ call[p].phase # "search" /\ call[p].phase # "none"
  <2>1. /\ call \in [Proc -> Calls] /\ call[p] \in Calls /\ TypeOK /\ TypeOK' /\ Inv
        /\ Good(call[p].todo) /\ Sought(p) /\ (call[p] = Idle \/ call[p].phase # "none")
    <3>1. TypeOK /\ TypeOK' /\ Inv /\ Fits /\ Sought(p) /\ (call[p] = Idle \/ call[p].phase # "none")
      BY DEF FoundInv, Inv
    <3>2. call \in [Proc -> Calls] /\ call[p] \in Calls
      BY <3>1 DEF TypeOK
    <3>3. Good(call[p].todo)
      BY <3>1, <3>2 DEF Fits, Good, Calls
    <3> QED
      BY <3>1, <3>2, <3>3
  <2>2. Idle.todo = {}
    BY DEF Idle
  <2>3. call[p].phase # "search"
    BY <2>1 DEF Sought
  <2> QED
    BY <2>1, <2>2, <2>3
<1>1. PICK m \in Ids : Whole(p, m)
  BY DEF FoundInv
<1>2. /\ t.id \in Ids /\ t.off \in Nat /\ t.len \in Nat /\ t.val \in Byte /\ m \in Int /\ t.id \in Int
      /\ stripe \in [Ids -> Seq(Byte)] /\ reg \in [Instance -> SUBSET Ids] /\ Home[t.id] \in Instance
  BY <1>0, StoreAssumption DEF Good, Tasks, TypeOK, Ids
<1>3. ASSUME NEW c, call' = [call EXCEPT ![p] = c], c.phase = call[p].phase,
             c.todo = call[p].todo \ {t}
      PROVE  /\ Proc = {p} /\ call'[p].todo = call[p].todo \ {t}
             /\ ToWrite(p)' \subseteq ToWrite(p) /\ ToWrite(p) \subseteq ToWrite(p)' \cup {t.id}
             /\ ToRemove(p)' \subseteq ToRemove(p) /\ ToRemove(p) \subseteq ToRemove(p)' \cup {t.id}
             /\ t.kind # "write" => ToWrite(p)' = ToWrite(p)
             /\ t.kind = "write" => t.id \in ToWrite(p)
             /\ t.kind # "remove" => ToRemove(p)' = ToRemove(p)
             /\ t.kind = "remove" => t.id \in ToRemove(p)
             /\ Sought(p)' /\ (call[p] = Idle \/ call[p].phase # "none")'
  <2>1. call'[p] = c /\ Proc = {p}
    BY <1>0, <1>3 DEF Alone
  <2> QED
    BY <1>0, <1>3, <2>1 DEF ToWrite, ToRemove, Sought
<1>4. ASSUME Done(p, t)
      PROVE  /\ Proc = {p} /\ call'[p].todo = call[p].todo \ {t}
             /\ ToWrite(p)' \subseteq ToWrite(p) /\ ToWrite(p) \subseteq ToWrite(p)' \cup {t.id}
             /\ ToRemove(p)' \subseteq ToRemove(p) /\ ToRemove(p) \subseteq ToRemove(p)' \cup {t.id}
             /\ t.kind # "write" => ToWrite(p)' = ToWrite(p)
             /\ t.kind = "write" => t.id \in ToWrite(p)
             /\ t.kind # "remove" => ToRemove(p)' = ToRemove(p)
             /\ t.kind = "remove" => t.id \in ToRemove(p)
             /\ Sought(p)' /\ (call[p] = Idle \/ call[p].phase # "none")'
  <2> DEFINE c == [call[p] EXCEPT !.todo = @ \ {t}]
  <2>1. call' = [call EXCEPT ![p] = c] /\ c.phase = call[p].phase /\ c.todo = call[p].todo \ {t}
    BY <1>0, <1>4 DEF Done, Calls
  <2> HIDE DEF c
  <2> QED
    BY <1>3, <2>1
<1>5. CASE WriteStripe(p, t)
  <2>1. Done(p, t) /\ t.kind = "write" /\ t.len > 0
    BY <1>1, <1>5 DEF WriteStripe, Doing, Whole
  <2>2. Registered' = Registered \cup {t.id} /\ stored' = stored \cup {t.id}
    BY <1>2, <1>5 DEF WriteStripe, Registered
  <2>3. Whole(p, m)'
    BY <1>1, <1>4, <2>1, <2>2 DEF Whole
  <2>4. NoneEmpty'
    <3>1. \A id \in Ids : id # t.id => stripe'[id] = stripe[id]
      BY <1>2, <1>5 DEF WriteStripe
    <3>2. Len(stripe'[t.id]) > 0
      <4>1. \/ stripe'[t.id] = [k \in 1..t.len |-> t.val]
            \/ stripe'[t.id] = SetRange(stripe[t.id], t.off, t.len, t.val)
        BY <1>2, <1>5 DEF WriteStripe
      <4>2. [k \in 1..t.len |-> t.val] \in Seq(Byte) /\ Len([k \in 1..t.len |-> t.val]) = t.len
        <5>1. t.len \in Nat /\ t.val \in Byte
          BY <1>2
        <5> QED
          BY <5>1
      <4>3. Len(SetRange(stripe[t.id], t.off, t.len, t.val)) > 0
        <5>1. stripe[t.id] \in Seq(Byte)
          BY <1>2
        <5> QED
          BY <1>2, <2>1, <5>1, RangesLeave
      <4> QED
        BY <2>1, <4>1, <4>2, <4>3
    <3>3. \A id \in Registered : id \in Ids
      BY <1>0, RegisteredIds
    <3> QED
      BY <2>2, <3>1, <3>2, <3>3 DEF NoneEmpty, FoundInv
  <2>5. StoredIsFound'
    BY <2>2 DEF StoredIsFound, FoundInv
  <2> QED
    BY <1>4, <2>1, <2>3, <2>4, <2>5 DEF FoundInv
<1>6. CASE ReadStripe(p, t)
  <2> DEFINE got == GetRange(stripe[t.id], t.off, t.len)
             buf == [k \in DOMAIN call[p].buf |->
                       IF t.pos < k /\ k <= t.pos + Len(got) THEN got[k - t.pos] ELSE call[p].buf[k]]
             c == [call[p] EXCEPT !.todo = @ \ {t}, !.n = @ + Len(got), !.buf = buf]
  <2>1. call' = [call EXCEPT ![p] = c] /\ UNCHANGED redis /\ t.kind = "read"
    BY <1>0, <1>6 DEF ReadStripe, Doing
  <2> HIDE DEF got, buf
  <2>2. c.phase = call[p].phase /\ c.todo = call[p].todo \ {t}
    BY <1>0 DEF Calls
  <2> HIDE DEF c
  <2>3. Registered' = Registered
    BY <2>1 DEF redis, Registered
  <2>4. Whole(p, m)'
    BY <1>1, <1>3, <2>1, <2>2, <2>3 DEF Whole
  <2> QED
    BY <1>0, <1>3, <2>1, <2>2, <2>4, LocalFound
<1>7. CASE RemoveStripe(p, t)
  <2>1. Done(p, t) /\ t.kind = "remove"
    BY <1>7 DEF RemoveStripe, Doing
  <2>2. Registered' = Registered \ {t.id} /\ stored' = stored \ {t.id}
    <3>1. \A i \in Instance : \A id \in reg[i] : Home[id] = i
      BY <1>0 DEF Inv, RegisteredIsStored
    <3> QED
      BY <1>2, <1>7, <3>1 DEF RemoveStripe, Registered
  <2>3. t.id > m /\ ToWrite(p) = {}
    BY <1>1, <1>4, <2>1 DEF Whole
  <2>4. Whole(p, m)'
    <3>1. t.id \notin 0..m /\ m # t.id
      BY <1>2, <2>3
    <3>2. ToWrite(p)' = {} /\ 0..m \subseteq Registered' /\ \A id \in ToRemove(p)' : id > m
      BY <1>1, <1>4, <2>1, <2>2, <2>3, <3>1 DEF Whole
    <3>3. Registered' \subseteq (0..m) \cup ToRemove(p)'
      BY <1>1, <1>4, <2>1, <2>2, <3>1 DEF Whole
    <3> QED
      BY <1>1, <1>4, <2>1, <2>2, <3>1, <3>2, <3>3 DEF Whole
  <2>5. NoneEmpty' /\ StoredIsFound'
    <3>1. \A id \in Registered' : id \in Registered /\ stripe'[id] = stripe[id]
      <4>1. \A id \in Registered : id \in Ids
        BY <1>0, RegisteredIds
      <4> QED
        BY <1>2, <1>7, <2>2, <4>1 DEF RemoveStripe
    <3> QED
      BY <2>2, <3>1 DEF NoneEmpty, StoredIsFound, FoundInv
  <2> QED
    BY <1>4, <2>1, <2>4, <2>5 DEF FoundInv
<1>8. CASE TrimStripe(p, t)
  <2>1. Done(p, t) /\ t.kind = "trim" /\ t.len > 0 /\ t.id = m /\ (m # -1 => m \in Registered)
    BY <1>1, <1>8 DEF TrimStripe, Doing, Whole
  <2>2. Registered' = Registered /\ stored' = stored \cup {m}
    BY <1>8, <2>1 DEF TrimStripe, Registered
  <2>3. Whole(p, m)'
    BY <1>1, <1>4, <2>1, <2>2 DEF Whole
  <2>4. StoredIsFound'
    BY <2>1, <2>2 DEF StoredIsFound, FoundInv
  <2>5. NoneEmpty'
    <3>1. \A id \in Registered : id \in Ids /\ Len(stripe[id]) > 0
      BY <1>0, RegisteredIds DEF FoundInv, NoneEmpty
    <3>2. \A id \in Ids : id # m => stripe'[id] = stripe[id]
      BY <1>2, <1>8, <2>1 DEF TrimStripe
    <3>3. m \in Registered => Len(stripe'[m]) > 0
      <4>1. stripe[m] \in Seq(Byte) /\ stripe'[m] = GetRange(stripe[m], 0, t.len) /\ 0 \in Nat
        BY <1>2, <1>8, <2>1 DEF TrimStripe
      <4>2. Len(stripe[m]) > 0 => Len(GetRange(stripe[m], 0, t.len)) > 0
        BY <1>2, <2>1, <4>1, RangesLeave
      <4> QED
        BY <3>1, <4>1, <4>2
    <3> QED
      BY <2>2, <3>1, <3>2, <3>3 DEF NoneEmpty
  <2> QED
    BY <1>4, <2>1, <2>3, <2>4, <2>5 DEF FoundInv
<1> QED
  BY <1>5, <1>6, <1>7, <1>8

\* At the start there is no stripe ...
LEMMA InitFound ==
  ASSUME Alone, Init
  PROVE  FoundInv
<1>1. Inv /\ stored = {} /\ Registered = {}
  BY InitInv DEF Init, Registered
<1>2. \A p \in Proc : call[p] = Idle
  BY DEF Init
<1>3. -1 \in Ids /\ 0..(-1) = {}
  BY StoreAssumption DEF Ids
<1>4. ASSUME NEW p \in Proc PROVE Sought(p) /\ Whole(p, -1)
  BY <1>1, <1>2, <1>3 DEF Idle, Sought, Whole, ToWrite, ToRemove
<1> QED
  BY <1>1, <1>2, <1>3, <1>4 DEF FoundInv, StoredIsFound, NoneEmpty

\* ... and each step keeps the stripes whole.
LEMMA NextFound ==
  ASSUME Alone, FoundInv, [Next]_vars
  PROVE  FoundInv'
<1>1. Inv'
  BY NextInv DEF FoundInv
<1>2. CASE UNCHANGED vars
  <2>1. UNCHANGED <<reg, stored, stripe, call>>
    BY <1>2 DEF vars
  <2>2. Registered' = Registered
    BY <2>1 DEF Registered
  <2> QED
    <3>1. StoredIsFound' /\ NoneEmpty'
      BY <2>1, <2>2 DEF FoundInv, StoredIsFound, NoneEmpty
    <3>2. ASSUME NEW p \in Proc PROVE Sought(p)' /\ (call'[p] = Idle \/ call'[p].phase # "none")
      BY <2>1, <2>2 DEF FoundInv, Sought
    <3>3. ASSUME NEW p \in Proc PROVE \E m \in Ids : Whole(p, m)'
      <4>1. PICK m \in Ids : Whole(p, m)
        BY DEF FoundInv
      <4>2. Whole(p, m)'
        BY <2>1, <2>2, <4>1 DEF Whole, ToWrite, ToRemove
      <4> QED
        BY <4>2
    <3> QED
      BY <1>1, <3>1, <3>2, <3>3 DEF FoundInv
<1>3. ASSUME NEW p \in Proc, Call(p) PROVE FoundInv'
  BY <1>1, <1>3, CallFound
<1>4. ASSUME NEW p \in Proc, Return(p) PROVE FoundInv'
  <2>1. PICK m \in Ids : Whole(p, m)
    BY DEF FoundInv
  <2>2. call' = [call EXCEPT ![p] = Idle] /\ UNCHANGED redis /\ call[p].todo = {} /\ call'[p] = Idle
    BY <1>4 DEF Return, FoundInv, Inv, TypeOK
  <2>3. Registered' = Registered
    BY <2>2 DEF redis, Registered
  <2>4. Whole(p, m)' /\ Sought(p)'
    BY <2>1, <2>2, <2>3 DEF Whole, ToWrite, ToRemove, Sought, Idle
  <2> QED
    BY <1>1, <2>1, <2>2, <2>4, LocalFound
<1>5. ASSUME NEW p \in Proc, Step(p) PROVE FoundInv'
  BY <1>1, <1>4, <1>5, SearchFound, StripeFound DEF Step
<1>6. ASSUME NEW p \in Proc, Crash(p) PROVE FoundInv'
  BY <1>6 DEF Crash, Alone
<1> QED
  BY <1>2, <1>3, <1>5, <1>6 DEF Next

\* A file that one process has for itself, and writes without a gap, never has a
\* stripe that no set holds: what TrimStripe trims is registered (trimStripe and
\* Resize of store.go), so that GetSize counts every stripe and Remove removes it.
THEOREM StripesAreFound == Alone /\ Spec => []StoredIsFound
<1>1. FoundInv => StoredIsFound
  BY DEF FoundInv
<1>2. CASE Alone
  <2>1. Init => FoundInv
    BY <1>2, InitFound
  <2>2. FoundInv /\ [Next]_vars => FoundInv'
    BY <1>2, NextFound
  <2> QED
    BY <1>1, <2>1, <2>2, PTL DEF Spec
<1> QED
  BY <1>2

-----------------------------------------------------------------------------
(***************************************************************************)
(* The store as a flat file: each call of a lone process is one step of    *)
(* FlatFile.  Each stripe is that of the file as the call found it, or,    *)
(* once its goroutine has run, that of the file the call is to leave.      *)
(***************************************************************************)
\* One process, which leaves no gap and extends files from whole stripes.
Lone == /\ \E p : Proc = {p}
        /\ Ops \subseteq {"write", "read", "remove", "size", "shrink", "grow"}

\* The part of a flat file f that is in stripe id.
Portion(f, id) == Least(StripeSize, Greatest(Len(f) - id * StripeSize, 0))
StripeOf(f, id) == [j \in 1..Portion(f, id) |-> f[id * StripeSize + j]]
Stands(f) == \A id \in 0..MaxStripe : stripe[id] = StripeOf(f, id)
IsFlat(f) == f \in Seq(Byte) /\ Len(f) <= MaxSize

\* What a call is to make of file f.
Overwritten(f, off, len, v) ==
  [k \in 1..(IF len > 0 /\ off + len > Len(f) THEN off + len ELSE Len(f)) |->
     IF off < k /\ k <= off + len THEN v ELSE IF k <= Len(f) THEN f[k] ELSE Zero]
Resized(f, n) == [k \in 1..n |-> IF k <= Len(f) THEN f[k] ELSE Zero]
Aim(c, f) == CASE c.op = "write"  -> Overwritten(f, c.off, c.len, c.val)
               [] c.op = "remove" -> <<>>
               [] c.op = "resize" -> Resized(f, c.len)
               [] OTHER           -> f
\* What a goroutine makes of its stripe.
Effect(t, s) == CASE t.kind = "write"  -> IF t.off = 0 /\ t.len = StripeSize
                                          THEN [k \in 1..t.len |-> t.val]
                                          ELSE SetRange(s, t.off, t.len, t.val)
                  [] t.kind = "remove" -> <<>>
                  [] t.kind = "trim"   -> GetRange(s, 0, t.len)
                  [] OTHER             -> s

\* Goroutines that bring file f to file g: at most one for a stripe.
Brings(tasks, f, g) ==
  \A id \in 0..MaxStripe :
    \/ /\ \A t \in tasks : t.id # id
       /\ StripeOf(f, id) = StripeOf(g, id)
    \/ \E t \in tasks : /\ \A u \in tasks : u.id = id => u = t
                        /\ t.id = id /\ Effect(t, StripeOf(f, id)) = StripeOf(g, id)

\* The stripe of a file: its bytes, in their places.
LEMMA StripeFacts ==
  ASSUME NEW f, IsFlat(f), NEW id \in 0..MaxStripe
  PROVE  /\ Portion(f, id) \in 0..StripeSize /\ Len(f) \in Nat /\ id * StripeSize \in Nat
         /\ Portion(f, id) = IF id * StripeSize >= Len(f) THEN 0
                             ELSE IF id * StripeSize + StripeSize <= Len(f) THEN StripeSize
                             ELSE Len(f) - id * StripeSize
         /\ StripeOf(f, id) \in Seq(Byte) /\ Len(StripeOf(f, id)) = Portion(f, id)
         /\ \A j \in 1..Portion(f, id) : /\ id * StripeSize + j \in 1..Len(f)
                                        /\ StripeOf(f, id)[j] = f[id * StripeSize + j]
<1> DEFINE x == id * StripeSize
           h == Portion(f, id)
<1>1. StripeSize \in Nat /\ StripeSize > 0 /\ MaxStripe \in Nat
  BY StripeSizeAssumption, StoreAssumption
<1>2. id \in Nat /\ x \in Nat /\ Len(f) \in Nat /\ f \in Seq(Byte)
  BY <1>1 DEF IsFlat
<1>3. h = Least(StripeSize, Greatest(Len(f) - x, 0))
  BY DEF Portion
<1>4. StripeOf(f, id) = [j \in 1..h |-> f[x + j]]
  BY DEF StripeOf
<1> HIDE DEF x, h
<1>5. /\ h \in Nat /\ h <= StripeSize
      /\ h = IF x >= Len(f) THEN 0 ELSE IF x + StripeSize <= Len(f) THEN StripeSize ELSE Len(f) - x
  BY <1>1, <1>2, <1>3 DEF Least, Greatest
<1>6. \A j \in 1..h : x + j \in 1..Len(f) /\ f[x + j] \in Byte
  BY <1>1, <1>2, <1>5
<1>7. StripeOf(f, id) \in Seq(Byte) /\ Len(StripeOf(f, id)) = h
  BY <1>4, <1>5, <1>6
<1>8. \A j \in 1..h : StripeOf(f, id)[j] = f[x + j]
  BY <1>4, <1>5
<1> QED
  BY <1>1, <1>2, <1>5, <1>6, <1>7, <1>8 DEF x, h

\* A value with the bytes of a stripe is that stripe.
LEMMA SameStripe ==
  ASSUME NEW f, IsFlat(f), NEW id \in 0..MaxStripe, NEW s \in Seq(Byte), Len(s) = Portion(f, id),
         \A j \in 1..Len(s) : s[j] = f[id * StripeSize + j]
  PROVE  s = StripeOf(f, id)
<1> DEFINE x == id * StripeSize
           g == StripeOf(f, id)
<1>1. g \in Seq(Byte) /\ Len(g) = Len(s) /\ \A j \in 1..Len(s) : g[j] = s[j]
  BY StripeFacts
<1> HIDE DEF g
<1>2. g = s
  BY <1>1
<1> QED
  BY <1>2 DEF g

\* A stripe that no set holds is empty.
Unlisted == \A id \in 0..MaxStripe : id \notin Registered => stripe[id] = <<>>

\* The file that stands in the stripes is what Contents reads out of them.
LEMMA ContentsAre ==
  ASSUME FoundInv, Unlisted, NEW f, IsFlat(f), Stands(f)
  PROVE  Contents = f /\ Size = Len(f)
<1> DEFINE L == Last(Registered)
<1>1. /\ TypeOK /\ RegisteredIsStored /\ NoneEmpty /\ Registered \in SUBSET Ids
      /\ StripeSize \in Nat /\ StripeSize > 0 /\ MaxStripe \in Nat /\ f \in Seq(Byte) /\ Len(f) \in Nat
      /\ MaxSize \in Nat /\ Len(f) <= MaxSize
  BY RegisteredIds, StripeSizeAssumption, StoreAssumption, MaxSizeFacts DEF FoundInv, Inv, IsFlat
<1>2. \A id \in Registered : id \in 0..MaxStripe /\ Len(stripe[id]) > 0
  BY <1>1 DEF RegisteredIsStored, Registered, NoneEmpty, Ids
<1>3. /\ L \in Registered \cup {-1} /\ \A id \in Registered : id <= L
      /\ Size = IF L < 0 THEN 0 ELSE L * StripeSize + Len(stripe[L])
  BY <1>1, LastFacts DEF Size
<1>4. \A id \in 0..MaxStripe : /\ stripe[id] = StripeOf(f, id) /\ Len(stripe[id]) = Portion(f, id)
                               /\ id \in Registered <=> Portion(f, id) > 0
  <2> SUFFICES ASSUME NEW id \in 0..MaxStripe
               PROVE  /\ stripe[id] = StripeOf(f, id) /\ Len(stripe[id]) = Portion(f, id)
                      /\ id \in Registered <=> Portion(f, id) > 0
    OBVIOUS
  <2>1. stripe[id] = StripeOf(f, id) /\ Len(stripe[id]) = Portion(f, id)
    BY StripeFacts DEF Stands
  <2>2. id \notin Registered => Len(stripe[id]) = 0
    BY DEF Unlisted
  <2> QED
    BY <1>2, <2>1, <2>2
<1> HIDE DEF L
<1>5. Size = Len(f)
  <2>1. CASE Len(f) = 0
    <3>1. \A id \in 0..MaxStripe : Portion(f, id) = 0
      BY <2>1, StripeFacts
    <3>2. L = -1
      BY <1>2, <1>3, <1>4, <3>1
    <3> QED
      BY <1>3, <2>1, <3>2
  <2>2. CASE Len(f) > 0
    <3> DEFINE b == Len(f) - 1
               i == b \div StripeSize
               x == i * StripeSize
    <3>1. b \in Nat /\ b < MaxSize
      BY <1>1, <2>2
    <3> HIDE DEF b
    <3>2. i \in Nat /\ x \in Int /\ x <= b /\ b < x + StripeSize
      <4>1. /\ i \in Nat /\ b % StripeSize \in 0..(StripeSize - 1)
            /\ b = i * StripeSize + (b % StripeSize)
        BY <3>1, DivMod
      <4>2. x \in Int
        BY <4>1, StripeOrder
      <4>3. PICK r : r = b % StripeSize
        OBVIOUS
      <4> QED
        BY <1>1, <3>1, <4>1, <4>2, <4>3
    <3> HIDE DEF i
    <3>3. i <= MaxStripe
      <4>1. MaxStripe + 1 <= i => (MaxStripe + 1) * StripeSize <= i * StripeSize
        BY <1>1, <3>2, StripeOrder
      <4>2. (MaxStripe + 1) * StripeSize = MaxSize
        BY DEF MaxSize
      <4> QED
        BY <1>1, <3>1, <3>2, <4>1, <4>2
    <3>4. i \in 0..MaxStripe /\ Portion(f, i) = Len(f) - x /\ Portion(f, i) > 0
      <4>1. i \in 0..MaxStripe /\ b = Len(f) - 1
        BY <1>1, <3>2, <3>3 DEF b
      <4>2. Portion(f, i) = IF x >= Len(f) THEN 0
                            ELSE IF x + StripeSize <= Len(f) THEN StripeSize ELSE Len(f) - x
        BY <4>1, StripeFacts
      <4> HIDE DEF x
      <4> QED
        BY <1>1, <2>2, <3>2, <4>1, <4>2
    <3>5. i \in Registered
      BY <1>4, <3>4
    <3>6. ASSUME NEW id \in Registered PROVE id <= i
      <4>1. Portion(f, id) > 0 /\ id \in 0..MaxStripe
        BY <1>2, <1>4
      <4>2. id * StripeSize < Len(f) /\ id * StripeSize \in Nat
        BY <1>1, <4>1, StripeFacts
      <4>3. i < id => x + StripeSize <= id * StripeSize
        BY <3>2, <4>1, StripeOrder
      <4> QED
        BY <1>1, <2>2, <3>2, <4>1, <4>2, <4>3 DEF b
    <3>7. L = i
      BY <1>2, <1>3, <3>2, <3>5, <3>6
    <3>8. Size = x + Len(stripe[i]) /\ Len(stripe[i]) = Len(f) - x
      BY <1>3, <1>4, <3>2, <3>4, <3>7
    <3> HIDE DEF x
    <3> QED
      BY <1>1, <3>2, <3>8
  <2> QED
    BY <1>1, <2>1, <2>2
<1>6. ASSUME NEW k \in 1..Len(f)
      PROVE  LET s == stripe[(k - 1) \div StripeSize]  r == ((k - 1) % StripeSize) + 1
             IN  (IF r <= Len(s) THEN s[r] ELSE Zero) = f[k]
  <2> DEFINE b == k - 1
             i == b \div StripeSize
             m == b % StripeSize
             x == i * StripeSize
  <2>1. b \in Nat /\ b < Len(f) /\ b + 1 = k
    BY <1>1
  <2> HIDE DEF b
  <2>2. i \in Nat /\ m \in 0..(StripeSize - 1) /\ b = x + m /\ x \in Int
    BY <2>1, DivMod, StripeOrder
  <2> HIDE DEF i, m
  <2>3. i \in 0..MaxStripe
    <3>1. MaxStripe + 1 <= i => (MaxStripe + 1) * StripeSize <= i * StripeSize
      BY <1>1, <2>2, StripeOrder
    <3>2. (MaxStripe + 1) * StripeSize = MaxSize
      BY DEF MaxSize
    <3> QED
      BY <1>1, <2>1, <2>2, <3>1, <3>2
  <2>4. m + 1 \in 1..Portion(f, i)
    BY <1>1, <2>1, <2>2, <2>3, StripeFacts
  <2>5. StripeOf(f, i)[m + 1] = f[x + (m + 1)] /\ Len(StripeOf(f, i)) = Portion(f, i)
    BY <2>3, <2>4, StripeFacts
  <2>6. x + (m + 1) = k
    BY <1>1, <2>1, <2>2
  <2>7. m + 1 <= Portion(f, i) /\ stripe[i] = StripeOf(f, i)
    BY <1>4, <2>3, <2>4, StripeFacts
  <2>8. (IF m + 1 <= Len(stripe[i]) THEN stripe[i][m + 1] ELSE Zero) = f[k]
    BY <2>5, <2>6, <2>7
  <2> QED
    BY <2>8 DEF i, m, b
<1>7. Contents = [k \in 1..Len(f) |-> f[k]]
  BY <1>5, <1>6 DEF Contents
<1>8. f = [k \in 1..Len(f) |-> f[k]]
  BY <1>1
<1> QED
  BY <1>5, <1>7, <1>8

\* The piece of a transfer for a stripe is where stripe and transfer meet.
LEMMA PieceOfStripe ==
  ASSUME NEW o \in Nat, NEW l \in Nat, NEW t \in Layout(o, l)
  PROVE  /\ t \in Entry /\ t.len > 0
         /\ t.id * StripeSize < o + l /\ o < t.id * StripeSize + StripeSize
         /\ t.pos = Greatest(t.id * StripeSize - o, 0)
         /\ t.off = Greatest(o - t.id * StripeSize, 0)
         /\ t.off + t.len = Least(StripeSize, o + l - t.id * StripeSize)
<1>1. l > 0 /\ StripeSize \in Nat /\ StripeSize > 0
  BY StripeSizeAssumption DEF Layout
<1>2. PICK id \in (o \div StripeSize)..((o + l - 1) \div StripeSize) :
           t = Piece(o, l, Greatest(id * StripeSize - o, 0))
  BY <1>1 DEF Layout
<1> DEFINE x == id * StripeSize
           b == Greatest(x - o, 0)
           q == o \div StripeSize
           e == (o + l - 1) \div StripeSize
<1>3. /\ q \in Nat /\ e \in Nat /\ o < q * StripeSize + StripeSize
      /\ e * StripeSize <= o + l - 1 /\ q * StripeSize \in Int /\ e * StripeSize \in Int
  <2>1. \A n \in Nat : /\ n \div StripeSize \in Nat
                       /\ n < (n \div StripeSize) * StripeSize + StripeSize
                       /\ (n \div StripeSize) * StripeSize <= n
                       /\ (n \div StripeSize) * StripeSize \in Int
    <3> SUFFICES ASSUME NEW n \in Nat
                 PROVE  /\ n \div StripeSize \in Nat
                        /\ n < (n \div StripeSize) * StripeSize + StripeSize
                        /\ (n \div StripeSize) * StripeSize <= n
                        /\ (n \div StripeSize) * StripeSize \in Int
      OBVIOUS
    <3>1. /\ n \div StripeSize \in Nat /\ n % StripeSize \in 0..(StripeSize - 1)
          /\ n = (n \div StripeSize) * StripeSize + (n % StripeSize)
      BY DivMod
    <3>2. PICK y, r : y = (n \div StripeSize) * StripeSize /\ r = n % StripeSize
      OBVIOUS
    <3>3. y \in Int
      BY <3>1, <3>2, StripeOrder
    <3> QED
      BY <1>1, <3>1, <3>2, <3>3
  <2>2. o + l - 1 \in Nat
    BY <1>1
  <2> QED
    BY <2>1, <2>2
<1>4. id \in Nat /\ q <= id /\ id <= e /\ t = Piece(o, l, b)
  BY <1>2, <1>3
<1>5. /\ x \in Int /\ q * StripeSize <= x /\ x <= e * StripeSize
  BY <1>3, <1>4, StripeOrder
<1> HIDE DEF x, q, e
<1>6. b \in Nat /\ b < l /\ x < o + l /\ o < x + StripeSize
  BY <1>1, <1>3, <1>5 DEF Greatest
<1>7. /\ t \in Entry /\ t.pos = b /\ t.len > 0 /\ t.off + t.len <= StripeSize
      /\ t.id * StripeSize + t.off = o + b
  <2>1. t = Piece(o, l, b) /\ b \in Nat /\ b < l
    BY <1>4, <1>6
  <2> HIDE DEF b
  <2>2. t.off + t.len <= StripeSize /\ t.len > 0 /\ t \in Entry /\ t.pos = b
    BY <2>1, PieceFacts
  <2>3. t.id * StripeSize + t.off = o + b
    BY <2>1, PieceFacts
  <2> QED
    BY <2>2, <2>3
<1>8. t.id \in Nat /\ t.off \in Nat /\ t.len \in Nat /\ t.id * StripeSize \in Int
  BY <1>7, StripeOrder DEF Entry
<1>9. t.id = id
  <2>1. o + b \in Nat /\ t.id = (o + b) \div StripeSize
    BY <1>4, <1>6 DEF Piece
  <2>2. o + b - x \in Nat /\ o + b - x < StripeSize /\ o + b = x + (o + b - x)
    BY <1>1, <1>5, <1>6 DEF Greatest
  <2>3. o + b = id * StripeSize + (o + b - x)
    BY <2>2 DEF x
  <2> HIDE DEF b
  <2>4. PICK r \in Nat : r = o + b - x
    BY <2>2
  <2> QED
    BY <1>4, <2>1, <2>2, <2>3, <2>4, OnePlace
<1>10. t.id * StripeSize = x
  BY <1>9 DEF x
<1>11. t.len = Least(l - b, StripeSize - t.off)
  BY <1>4 DEF Piece
<1>12. /\ t.pos = Greatest(x - o, 0) /\ t.off = Greatest(o - x, 0)
       /\ t.off + t.len = Least(StripeSize, o + l - x)
  <2>1. t.pos = b /\ b = IF x - o <= 0 THEN 0 ELSE x - o
    BY <1>7 DEF Greatest
  <2> HIDE DEF b
  <2>2. t.off = o + b - x
    BY <1>5, <1>6, <1>7, <1>8, <1>10
  <2> QED
    BY <1>1, <1>5, <1>6, <1>8, <1>11, <2>1, <2>2 DEF Greatest, Least
<1> QED
  BY <1>6, <1>7, <1>10, <1>12

\* A transfer has one goroutine for each stripe that it meets.
LEMMA OneForEach ==
  ASSUME NEW o \in Nat, NEW l \in Nat, o + l <= MaxSize, NEW kind, NEW v, NEW id \in 0..MaxStripe,
         NEW T, T = Transfer(kind, o, l, v)
  PROVE  \/ /\ \A t \in T : t.id # id
            /\ l = 0 \/ id * StripeSize + StripeSize <= o \/ o + l <= id * StripeSize
         \/ \E t \in T : t.id = id /\ \A u \in T : u.id = id => u = t
<1> DEFINE x == id * StripeSize
<1>1. StripeSize \in Nat /\ StripeSize > 0 /\ id \in Nat /\ x \in Nat
  BY StripeSizeAssumption, StoreAssumption
<1>2. ASSUME NEW t \in T, NEW u \in T, t.id = u.id PROVE t = u
  <2>1. PICK a \in Layout(o, l), b \in Layout(o, l) :
          /\ t = Task(kind, a.id, a.off, a.pos, a.len, v)
          /\ u = Task(kind, b.id, b.off, b.pos, b.len, v)
    BY DEF Transfer
  <2>2. a.id = b.id
    BY <1>2, <2>1 DEF Task
  <2>3. a.pos = b.pos /\ a.off = b.off /\ a.off + a.len = b.off + b.len /\ a \in Entry /\ b \in Entry
    BY <2>2, PieceOfStripe
  <2>4. a.len = b.len
    BY <2>3 DEF Entry
  <2> QED
    BY <2>1, <2>2, <2>3, <2>4
<1>3. ASSUME \A t \in T : t.id # id, l > 0, x + StripeSize > o, o + l > x PROVE FALSE
  <2>1. PICK b \in Nat : b = Greatest(x, o)
    BY <1>1 DEF Greatest
  <2>2. b \in Span(o, l) /\ b - x \in Nat /\ b - x < StripeSize /\ b = x + (b - x)
    BY <1>1, <1>3, <2>1 DEF Greatest, Span
  <2>3. PICK r \in Nat : r = b - x
    BY <2>2
  <2>4. b = id * StripeSize + r /\ r < StripeSize
    BY <2>2, <2>3
  <2>5. b \div StripeSize = id
    BY <1>1, <2>4, OnePlace
  <2>6. PICK t \in T : Covers(t, b)
    BY <2>2, TransferCovers
  <2> QED
    BY <1>3, <2>5, <2>6 DEF Covers
<1> QED
  BY <1>1, <1>2, <1>3

\* SETRANGE byte for byte.
LEMMA SetRangeBytes ==
  ASSUME NEW s \in Seq(Byte), NEW o \in Nat, NEW l \in Nat, NEW v \in Byte
  PROVE  /\ SetRange(s, o, l, v) \in Seq(Byte)
         /\ Len(SetRange(s, o, l, v)) = IF o + l > Len(s) THEN o + l ELSE Len(s)
         /\ \A j \in 1..Len(SetRange(s, o, l, v)) :
              SetRange(s, o, l, v)[j] = IF o < j /\ j <= o + l THEN v ELSE IF j <= Len(s) THEN s[j] ELSE Zero
<1> DEFINE n == IF o + l > Len(s) THEN o + l ELSE Len(s)
           r == SetRange(s, o, l, v)
<1>1. n \in Nat /\ Zero \in Byte /\ Len(s) \in Nat
  BY StoreAssumption
<1>2. r = [j \in 1..n |-> IF o < j /\ j <= o + l THEN v ELSE IF j <= Len(s) THEN s[j] ELSE Zero]
  BY DEF SetRange
<1>3. \A j \in 1..n : j <= Len(s) => s[j] \in Byte
  BY <1>1
<1> HIDE DEF n, r
<1>4. r \in Seq(Byte) /\ Len(r) = n
  BY <1>1, <1>2, <1>3
<1>5. \A j \in 1..n : r[j] = IF o < j /\ j <= o + l THEN v ELSE IF j <= Len(s) THEN s[j] ELSE Zero
  BY <1>2
<1> QED
  BY <1>4, <1>5 DEF n, r

\* What writeStripe makes of a stripe, by SET or by SETRANGE.
LEMMA WriteEffect ==
  ASSUME NEW s \in Seq(Byte), Len(s) <= StripeSize, NEW t, t.kind = "write", t.val \in Byte,
         t.off \in Nat, t.len \in Nat, t.off + t.len <= StripeSize
  PROVE  /\ Effect(t, s) \in Seq(Byte)
         /\ Len(Effect(t, s)) = IF t.off + t.len > Len(s) THEN t.off + t.len ELSE Len(s)
         /\ \A j \in 1..Len(Effect(t, s)) :
              Effect(t, s)[j] = IF t.off < j /\ j <= t.off + t.len THEN t.val
                                ELSE IF j <= Len(s) THEN s[j] ELSE Zero
<1> DEFINE r == Effect(t, s)
<1> HIDE DEF r
<1>0. r = Effect(t, s)
  BY DEF r
<1>1. ASSUME t.off = 0 /\ t.len = StripeSize
      PROVE  /\ r \in Seq(Byte) /\ Len(r) = IF t.off + t.len > Len(s) THEN t.off + t.len ELSE Len(s)
             /\ \A j \in 1..Len(r) : r[j] = IF t.off < j /\ j <= t.off + t.len THEN t.val
                                            ELSE IF j <= Len(s) THEN s[j] ELSE Zero
  <2>1. r = [k \in 1..t.len |-> t.val]
    BY <1>0, <1>1 DEF Effect
  <2>2. PICK n \in Nat, v \in Byte : n = t.len /\ v = t.val
    OBVIOUS
  <2>3. r = [k \in 1..n |-> v]
    BY <2>1, <2>2
  <2>4. r \in Seq(Byte) /\ Len(r) = n /\ \A k \in 1..n : r[k] = v
    BY ONLY <2>3, n \in Nat, v \in Byte
  <2> QED
    BY <1>1, <2>2, <2>4
<1>2. ASSUME ~(t.off = 0 /\ t.len = StripeSize)
      PROVE  /\ r \in Seq(Byte) /\ Len(r) = IF t.off + t.len > Len(s) THEN t.off + t.len ELSE Len(s)
             /\ \A j \in 1..Len(r) : r[j] = IF t.off < j /\ j <= t.off + t.len THEN t.val
                                            ELSE IF j <= Len(s) THEN s[j] ELSE Zero
  <2>1. r = SetRange(s, t.off, t.len, t.val)
    BY <1>0, <1>2 DEF Effect
  <2>2. r \in Seq(Byte) /\ Len(r) = IF t.off + t.len > Len(s) THEN t.off + t.len ELSE Len(s)
    BY <2>1, SetRangeBytes
  <2>3. ASSUME NEW j \in 1..Len(r)
        PROVE  r[j] = IF t.off < j /\ j <= t.off + t.len THEN t.val ELSE IF j <= Len(s) THEN s[j] ELSE Zero
    BY <2>1, SetRangeBytes
  <2> QED
    BY <2>2, <2>3
<1>3. /\ r \in Seq(Byte) /\ Len(r) = IF t.off + t.len > Len(s) THEN t.off + t.len ELSE Len(s)
      /\ \A j \in 1..Len(r) : r[j] = IF t.off < j /\ j <= t.off + t.len THEN t.val
                                     ELSE IF j <= Len(s) THEN s[j] ELSE Zero
  BY <1>1, <1>2
<1> QED
  BY <1>3 DEF r

\* The files that Write and Resize are to leave.
LEMMA OverwrittenFacts ==
  ASSUME NEW f, IsFlat(f), NEW o \in Nat, NEW l \in Nat, o + l <= MaxSize, NEW v \in Byte,
         NEW g, g = Overwritten(f, o, l, v)
  PROVE  /\ IsFlat(g) /\ Len(f) \in Nat /\ Len(g) = IF l > 0 /\ o + l > Len(f) THEN o + l ELSE Len(f)
         /\ \A k \in 1..Len(g) : g[k] = IF o < k /\ k <= o + l THEN v ELSE IF k <= Len(f) THEN f[k] ELSE Zero
<1> DEFINE n == IF l > 0 /\ o + l > Len(f) THEN o + l ELSE Len(f)
<1>1. n \in Nat /\ n <= MaxSize /\ Zero \in Byte /\ f \in Seq(Byte) /\ Len(f) \in Nat
  BY StoreAssumption DEF IsFlat
<1>2. g = [k \in 1..n |-> IF o < k /\ k <= o + l THEN v ELSE IF k <= Len(f) THEN f[k] ELSE Zero]
  BY DEF Overwritten
<1>3. \A k \in 1..n : k <= Len(f) => f[k] \in Byte
  BY <1>1
<1> HIDE DEF n
<1>4. g \in Seq(Byte) /\ Len(g) = n
  BY <1>1, <1>2, <1>3
<1>5. \A k \in 1..n : g[k] = IF o < k /\ k <= o + l THEN v ELSE IF k <= Len(f) THEN f[k] ELSE Zero
  BY <1>2
<1> QED
  BY <1>1, <1>4, <1>5 DEF n, IsFlat

\* ... and of a resize.
LEMMA ResizedFacts ==
  ASSUME NEW f, IsFlat(f), NEW n \in 0..MaxSize, NEW g, g = Resized(f, n)
  PROVE  /\ IsFlat(g) /\ Len(f) \in Nat /\ Len(g) = n
         /\ \A k \in 1..n : g[k] = IF k <= Len(f) THEN f[k] ELSE Zero
<1>1. n \in Nat /\ n <= MaxSize /\ Zero \in Byte /\ f \in Seq(Byte) /\ Len(f) \in Nat
  BY StoreAssumption, MaxSizeFacts DEF IsFlat
<1>2. g = [k \in 1..n |-> IF k <= Len(f) THEN f[k] ELSE Zero]
  BY DEF Resized
<1>3. \A k \in 1..n : k <= Len(f) => f[k] \in Byte
  BY <1>1
<1>4. g \in Seq(Byte) /\ Len(g) = n
  BY <1>1, <1>2, <1>3
<1>5. \A k \in 1..n : g[k] = IF k <= Len(f) THEN f[k] ELSE Zero
  BY <1>2
<1> QED
  BY <1>1, <1>4, <1>5 DEF IsFlat

\* The goroutines of a write without a gap bring the file to what it is to be.
LEMMA WriteBrings ==
  ASSUME NEW f, IsFlat(f), NEW o \in Nat, NEW l \in Nat, o <= Len(f), o + l <= MaxSize, NEW v \in Byte
  PROVE  Brings(Transfer("write", o, l, v), f, Overwritten(f, o, l, v))
<1> DEFINE g == Overwritten(f, o, l, v)
           T == Transfer("write", o, l, v)
<1>1. /\ IsFlat(g) /\ Len(f) \in Nat /\ Len(g) = IF l > 0 /\ o + l > Len(f) THEN o + l ELSE Len(f)
      /\ \A k \in 1..Len(g) : g[k] = IF o < k /\ k <= o + l THEN v ELSE IF k <= Len(f) THEN f[k] ELSE Zero
  BY OverwrittenFacts
<1>2. StripeSize \in Nat /\ StripeSize > 0
  BY StripeSizeAssumption
<1>3. ASSUME NEW id \in 0..MaxStripe, \A t \in T : t.id # id PROVE StripeOf(f, id) = StripeOf(g, id)
  <2> DEFINE x == id * StripeSize
             a == StripeOf(f, id)
  <2>1. l = 0 \/ x + StripeSize <= o \/ o + l <= x
    <3>1. PICK U : U = T
      OBVIOUS
    <3>2. U = Transfer("write", o, l, v) /\ \A t \in U : t.id # id
      BY <1>3, <3>1
    <3> HIDE DEF T
    <3> QED
      BY <3>2, OneForEach
  <2>2. /\ x \in Nat /\ a \in Seq(Byte) /\ Len(a) = Portion(f, id)
        /\ \A j \in 1..Portion(f, id) : x + j \in 1..Len(f) /\ a[j] = f[x + j]
        /\ Portion(f, id) \in 0..StripeSize
        /\ Portion(f, id) = IF x >= Len(f) THEN 0
                            ELSE IF x + StripeSize <= Len(f) THEN StripeSize ELSE Len(f) - x
    BY StripeFacts
  <2>3. Portion(g, id) = IF x >= Len(g) THEN 0
                         ELSE IF x + StripeSize <= Len(g) THEN StripeSize ELSE Len(g) - x
    BY <1>1, StripeFacts
  <2> HIDE DEF g, a
  <2>4. Portion(g, id) = Portion(f, id)
    <3> HIDE DEF x
    <3> QED
      BY <1>1, <1>2, <2>1, <2>2, <2>3
  <2>5. \A j \in 1..Len(a) : a[j] = g[x + j]
    <3> HIDE DEF x
    <3> QED
      BY <1>1, <1>2, <2>1, <2>2
  <2> QED
    BY <1>1, <2>2, <2>4, <2>5, SameStripe DEF a
<1>4. ASSUME NEW id \in 0..MaxStripe, NEW t \in T, t.id = id
      PROVE  Effect(t, StripeOf(f, id)) = StripeOf(g, id)
  <2> DEFINE x == id * StripeSize
             a == StripeOf(f, id)
             r == Effect(t, a)
  <2>1. PICK u \in Layout(o, l) : t = Task("write", u.id, u.off, u.pos, u.len, v)
    BY DEF Transfer
  <2>2. t.kind = "write" /\ t.off = u.off /\ t.len = u.len /\ t.val = v /\ u.id = id
    BY <1>4, <2>1 DEF Task
  <2>3. /\ t.off \in Nat /\ t.len \in Nat /\ t.len > 0 /\ x < o + l /\ o < x + StripeSize
        /\ t.off = Greatest(o - x, 0) /\ t.off + t.len = Least(StripeSize, o + l - x)
    BY <2>2, PieceOfStripe DEF Entry
  <2>4. /\ x \in Nat /\ a \in Seq(Byte) /\ Len(a) = Portion(f, id)
        /\ \A j \in 1..Portion(f, id) : x + j \in 1..Len(f) /\ a[j] = f[x + j]
        /\ Portion(f, id) \in 0..StripeSize
        /\ Portion(f, id) = IF x >= Len(f) THEN 0
                            ELSE IF x + StripeSize <= Len(f) THEN StripeSize ELSE Len(f) - x
    BY StripeFacts
  <2>5. Portion(g, id) = IF x >= Len(g) THEN 0
                         ELSE IF x + StripeSize <= Len(g) THEN StripeSize ELSE Len(g) - x
    BY <1>1, StripeFacts
  <2> HIDE DEF g, a
  <2>6. /\ r \in Seq(Byte) /\ Len(r) = IF t.off + t.len > Len(a) THEN t.off + t.len ELSE Len(a)
        /\ \A j \in 1..Len(r) : r[j] = IF t.off < j /\ j <= t.off + t.len THEN v
                                       ELSE IF j <= Len(a) THEN a[j] ELSE Zero
    <3>1. t.off + t.len <= StripeSize /\ Len(a) <= StripeSize /\ t.val \in Byte
      BY <1>2, <2>2, <2>3, <2>4 DEF Least
    <3>2. r \in Seq(Byte) /\ Len(r) = IF t.off + t.len > Len(a) THEN t.off + t.len ELSE Len(a)
      BY <2>2, <2>3, <2>4, <3>1, WriteEffect
    <3>3. ASSUME NEW j \in 1..Len(r)
          PROVE  r[j] = IF t.off < j /\ j <= t.off + t.len THEN t.val ELSE IF j <= Len(a) THEN a[j] ELSE Zero
      BY <2>2, <2>3, <2>4, <3>1, <3>3, WriteEffect
    <3> QED
      BY <2>2, <3>2, <3>3
  <2> HIDE DEF r
  <2>7. Len(r) = Portion(g, id)
    <3> HIDE DEF x
    <3>1. PICK q, n, fl, gl, la : /\ q = t.off /\ n = t.len /\ fl = Len(f) /\ gl = Len(g)
                                  /\ la = Len(a)
      OBVIOUS
    <3>2. /\ q \in Nat /\ n \in Nat /\ fl \in Nat /\ la \in Nat /\ x \in Nat /\ o \in Nat /\ l \in Nat
          /\ StripeSize \in Nat /\ n > 0 /\ x < o + l /\ o < x + StripeSize /\ o <= fl
      <4>1. q \in Nat /\ n \in Nat /\ n > 0 /\ x < o + l /\ o < x + StripeSize
        BY <2>3, <3>1
      <4>2. fl \in Nat /\ la \in Nat /\ x \in Nat /\ StripeSize \in Nat /\ o <= fl
        BY <1>1, <1>2, <2>4, <3>1
      <4> QED
        BY <4>1, <4>2
    <3>3. q = (IF o - x > 0 THEN o - x ELSE 0)
      <4>1. q = Greatest(o - x, 0)
        BY <2>3, <3>1
      <4> QED
        BY <3>2, <4>1 DEF Greatest
    <3>4. q + n = IF StripeSize < o + l - x THEN StripeSize ELSE o + l - x
      BY <2>3, <3>1, <3>2 DEF Least
    <3>5. la = IF x >= fl THEN 0 ELSE IF x + StripeSize <= fl THEN StripeSize ELSE fl - x
      BY <2>4, <3>1
    <3>6. gl = IF l > 0 /\ o + l > fl THEN o + l ELSE fl
      BY <1>1, <3>1
    <3>7. (IF q + n > la THEN q + n ELSE la)
            = IF x >= gl THEN 0 ELSE IF x + StripeSize <= gl THEN StripeSize ELSE gl - x
      BY ONLY <3>2, <3>3, <3>4, <3>5, <3>6
    <3> QED
      BY <2>5, <2>6, <3>1, <3>7
  <2>8. ASSUME NEW j \in 1..Len(r) PROVE r[j] = g[x + j]
    <3> HIDE DEF x
    <3>1. j \in Nat /\ j <= StripeSize /\ x + j \in 1..Len(g)
      <4>1. Portion(g, id) \in 0..StripeSize /\ \A i \in 1..Portion(g, id) : x + i \in 1..Len(g)
        BY <1>1, StripeFacts DEF x
      <4> QED
        BY <1>2, <2>7, <4>1
    <3>2. g[x + j] = IF o < x + j /\ x + j <= o + l THEN v ELSE IF x + j <= Len(f) THEN f[x + j] ELSE Zero
      BY <1>1, <3>1
    <3>3. /\ t.off < j <=> o < x + j
          /\ j <= t.off + t.len <=> x + j <= o + l
          /\ j <= Len(a) <=> x + j <= Len(f)
      BY <1>1, <1>2, <2>3, <2>4, <3>1 DEF Greatest, Least
    <3>4. j <= Len(a) => a[j] = f[x + j]
      BY <2>4, <3>1
    <3> QED
      BY <2>6, <3>2, <3>3, <3>4
  <2>9. r = StripeOf(g, id)
    BY <1>1, <2>6, <2>7, <2>8, SameStripe
  <2> QED
    BY <2>9 DEF r, a
<1>5. \A id \in 0..MaxStripe : \/ \A t \in T : t.id # id
                               \/ \E t \in T : t.id = id /\ \A u \in T : u.id = id => u = t
  BY OneForEach
<1> HIDE DEF g, T
<1>6. Brings(T, f, g)
  BY <1>3, <1>4, <1>5 DEF Brings
<1> QED
  BY <1>6 DEF g, T

\* The goroutines of a read leave everything as it is.
LEMMA ReadBrings ==
  ASSUME NEW f, NEW o \in Nat, NEW l \in Nat, o + l <= MaxSize
  PROVE  Brings(Transfer("read", o, l, Zero), f, f)
<1> DEFINE T == Transfer("read", o, l, Zero)
<1>1. \A t \in T : t.kind = "read"
  BY DEF Transfer, Task
<1>2. \A id \in 0..MaxStripe : \/ \A t \in T : t.id # id
                               \/ \E t \in T : t.id = id /\ \A u \in T : u.id = id => u = t
  BY OneForEach
<1> HIDE DEF T
<1>3. Brings(T, f, f)
  BY <1>1, <1>2 DEF Brings, Effect
<1> QED
  BY <1>3 DEF T

\* GETRANGE from the start of a value.
LEMMA GetRangeStart ==
  ASSUME NEW s \in Seq(Byte), NEW l \in Nat, l <= Len(s)
  PROVE  /\ GetRange(s, 0, l) \in Seq(Byte) /\ Len(GetRange(s, 0, l)) = l
         /\ \A j \in 1..l : GetRange(s, 0, l)[j] = s[j]
<1>1. GetRange(s, 0, l) = SubSeq(s, 1, l)
  BY DEF GetRange
<1> QED
  BY <1>1

\* A stripe without a byte is empty.
LEMMA EmptyStripe ==
  ASSUME NEW f, IsFlat(f), NEW id \in 0..MaxStripe, Portion(f, id) = 0
  PROVE  StripeOf(f, id) = <<>>
BY DEF StripeOf

\* The goroutines of Remove leave nothing.
LEMMA RemoveBrings ==
  ASSUME NEW f, IsFlat(f), NEW last \in Ids, \A id \in 0..MaxStripe : id > last => StripeOf(f, id) = <<>>
  PROVE  Brings(RemoveTasks(0..last), f, <<>>) /\ IsFlat(<<>>)
<1> DEFINE T == RemoveTasks(0..last)
<1>1. IsFlat(<<>>) /\ StripeSize \in Nat /\ MaxStripe \in Nat /\ StripeSize > 0 /\ last \in Int
  BY MaxSizeFacts, StripeSizeAssumption, StoreAssumption DEF IsFlat, Ids
<1>2. ASSUME NEW id \in 0..MaxStripe PROVE StripeOf(<<>>, id) = <<>>
  <2>1. Portion(<<>>, id) = 0
    <3>1. id * StripeSize \in Nat /\ Len(<<>>) = 0
      BY <1>1
    <3> QED
      BY <1>1, <3>1 DEF Portion, Least, Greatest
  <2> QED
    BY <1>1, <2>1, EmptyStripe
<1>3. ASSUME NEW id \in 0..MaxStripe, id > last
      PROVE  (\A t \in T : t.id # id) /\ StripeOf(f, id) = StripeOf(<<>>, id)
  BY <1>1, <1>2, <1>3 DEF RemoveTasks, Task
<1>4. ASSUME NEW id \in 0..MaxStripe, id <= last
      PROVE  \E t \in T : /\ \A u \in T : u.id = id => u = t
                          /\ t.id = id /\ Effect(t, StripeOf(f, id)) = StripeOf(<<>>, id)
  <2> DEFINE t == Task("remove", id, 0, 0, 0, Zero)
  <2>1. t \in T /\ t.id = id /\ t.kind = "remove"
    BY <1>1, <1>4 DEF RemoveTasks, Task
  <2>2. \A u \in T : u.id = id => u = t
    BY DEF RemoveTasks, Task
  <2> HIDE DEF t, T
  <2>3. Effect(t, StripeOf(f, id)) = <<>>
    BY <2>1 DEF Effect
  <2> QED
    BY <1>2, <2>1, <2>2, <2>3
<1> HIDE DEF T
<1>5. Brings(T, f, <<>>)
  BY <1>1, <1>3, <1>4 DEF Brings
<1> QED
  BY <1>1, <1>5 DEF T

\* The goroutines of Resize, when it shrinks the file ...
LEMMA ShrinkBrings ==
  ASSUME NEW f, IsFlat(f), NEW new \in 0..MaxSize, new < Len(f)
  PROVE  Brings(ResizeTasks(Len(f), new), f, Resized(f, new))
<1> DEFINE g == Resized(f, new)
           c == LastStripeInfo(Len(f))
           w == LastStripeInfo(new)
           T == ResizeTasks(Len(f), new)
           X(i) == i * StripeSize
<1>1. /\ IsFlat(g) /\ Len(f) \in Nat /\ Len(g) = new
      /\ \A k \in 1..new : g[k] = IF k <= Len(f) THEN f[k] ELSE Zero
  BY ResizedFacts
<1>2. StripeSize \in Nat /\ StripeSize > 0 /\ MaxStripe \in Nat /\ new \in Nat
  BY StripeSizeAssumption, StoreAssumption, MaxSizeFacts
<1>3. /\ c.id \in Int /\ c.len \in 1..StripeSize /\ X(c.id) + c.len = Len(f)
      /\ w.id \in Int /\ w.len \in 1..StripeSize /\ X(w.id) + w.len = new
  BY <1>1, <1>2, LastStripeFacts
<1>4. T = RemoveTasks((w.id + 1)..c.id) \cup {Task("trim", w.id, 0, 0, w.len, Zero)}
  BY <1>1, <1>2 DEF ResizeTasks
<1> HIDE DEF g, c, w, T, X
<1>5. ASSUME NEW id \in 0..MaxStripe
      PROVE  /\ X(id) \in Nat /\ X(w.id) \in Int /\ X(c.id) \in Int
             /\ id < w.id => X(id) + StripeSize <= X(w.id)
             /\ w.id < id => X(w.id) + StripeSize <= X(id)
             /\ c.id < id => X(c.id) + StripeSize <= X(id)
             /\ Portion(f, id) = IF X(id) >= Len(f) THEN 0
                                 ELSE IF X(id) + StripeSize <= Len(f) THEN StripeSize
                                 ELSE Len(f) - X(id)
             /\ Portion(g, id) = IF X(id) >= new THEN 0
                                 ELSE IF X(id) + StripeSize <= new THEN StripeSize
                                 ELSE new - X(id)
  <2>1. id \in Int /\ X(id) \in Nat
    BY <1>2, StripeFacts DEF X
  <2>2. /\ X(w.id) \in Int /\ X(c.id) \in Int
        /\ id < w.id => X(id) + StripeSize <= X(w.id)
        /\ w.id < id => X(w.id) + StripeSize <= X(id)
        /\ c.id < id => X(c.id) + StripeSize <= X(id)
    BY <1>3, <2>1, StripeOrder DEF X
  <2>3. Portion(f, id) = IF X(id) >= Len(f) THEN 0
                         ELSE IF X(id) + StripeSize <= Len(f) THEN StripeSize
                         ELSE Len(f) - X(id)
    BY StripeFacts DEF X
  <2>4. Portion(g, id) = IF X(id) >= Len(g) THEN 0
                         ELSE IF X(id) + StripeSize <= Len(g) THEN StripeSize
                         ELSE Len(g) - X(id)
    BY <1>1, StripeFacts DEF X
  <2> QED
    BY <1>1, <2>1, <2>2, <2>3, <2>4
<1>6. ASSUME NEW id \in 0..MaxStripe, NEW s \in Seq(Byte), Len(s) = Portion(g, id),
             \A j \in 1..Len(s) : s[j] = StripeOf(f, id)[j], Portion(g, id) <= Portion(f, id)
      PROVE  s = StripeOf(g, id)
  <2>1. ASSUME NEW j \in 1..Len(s) PROVE s[j] = g[X(id) + j]
    <3>1. Portion(f, id) \in Nat /\ Portion(g, id) \in Nat
      BY <1>1, StripeFacts
    <3>2. j \in 1..Portion(f, id) /\ j \in 1..Portion(g, id)
      BY <1>6, <3>1
    <3>3. s[j] = f[X(id) + j] /\ X(id) + j \in 1..Len(f)
      BY <1>6, <3>2, StripeFacts DEF X
    <3>4. X(id) + j \in 1..new
      BY <1>1, <3>2, StripeFacts DEF X
    <3> QED
      BY <1>1, <3>3, <3>4
  <2> QED
    BY <1>1, <1>6, <2>1, SameStripe DEF X
<1>7. ASSUME NEW id \in 0..MaxStripe, id < w.id
      PROVE  (\A t \in T : t.id # id) /\ StripeOf(f, id) = StripeOf(g, id)
  <2>1. \A t \in T : t.id # id
    BY <1>2, <1>3, <1>4, <1>7 DEF RemoveTasks, Task
  <2>2. Portion(f, id) = StripeSize /\ Portion(g, id) = StripeSize
    BY <1>1, <1>2, <1>3, <1>5, <1>7
  <2>3. StripeOf(f, id) \in Seq(Byte) /\ Len(StripeOf(f, id)) = StripeSize
    BY <2>2, StripeFacts
  <2> QED
    BY <1>2, <1>6, <2>1, <2>2, <2>3
<1>8. ASSUME NEW id \in 0..MaxStripe, id = w.id
      PROVE  \E t \in T : /\ \A u \in T : u.id = id => u = t
                          /\ t.id = id /\ Effect(t, StripeOf(f, id)) = StripeOf(g, id)
  <2>1. PICK t \in T : t = Task("trim", w.id, 0, 0, w.len, Zero)
    BY <1>4
  <2>2. t.id = id /\ t.kind = "trim" /\ t.len = w.len /\ \A u \in T : u.id = id => u = t
    BY <1>2, <1>3, <1>4, <1>8, <2>1 DEF RemoveTasks, Task
  <2>3. Portion(g, id) = w.len /\ w.len <= Portion(f, id) /\ w.len \in Nat
    <3>1. X(id) = X(w.id) /\ X(id) \in Nat
      BY <1>5, <1>8
    <3>2. /\ Portion(f, id) = IF X(id) >= Len(f) THEN 0
                              ELSE IF X(id) + StripeSize <= Len(f) THEN StripeSize
                              ELSE Len(f) - X(id)
          /\ Portion(g, id) = IF X(id) >= new THEN 0
                              ELSE IF X(id) + StripeSize <= new THEN StripeSize
                              ELSE new - X(id)
      BY <1>5
    <3> QED
      BY <1>1, <1>2, <1>3, <3>1, <3>2
  <2>4. PICK a \in Seq(Byte) : a = StripeOf(f, id) /\ Len(a) = Portion(f, id)
    BY StripeFacts
  <2>5. PICK s : s = GetRange(a, 0, w.len)
    OBVIOUS
  <2>6. s \in Seq(Byte) /\ Len(s) = w.len /\ \A j \in 1..w.len : s[j] = a[j]
    BY <2>3, <2>4, <2>5, GetRangeStart
  <2>7. s = StripeOf(g, id)
    BY <1>6, <2>3, <2>4, <2>6
  <2>8. Effect(t, StripeOf(f, id)) = s
    BY <2>2, <2>4, <2>5 DEF Effect
  <2> QED
    BY <2>2, <2>7, <2>8
<1>9. ASSUME NEW id \in 0..MaxStripe, w.id < id, id <= c.id
      PROVE  \E t \in T : /\ \A u \in T : u.id = id => u = t
                          /\ t.id = id /\ Effect(t, StripeOf(f, id)) = StripeOf(g, id)
  <2>1. id \in (w.id + 1)..c.id
    BY <1>2, <1>3, <1>9
  <2>2. PICK t \in T : t = Task("remove", id, 0, 0, 0, Zero)
    BY <1>4, <2>1 DEF RemoveTasks
  <2>3. t.id = id /\ t.kind = "remove" /\ \A u \in T : u.id = id => u = t
    BY <1>3, <1>4, <1>9, <2>2 DEF RemoveTasks, Task
  <2>4. Effect(t, StripeOf(f, id)) = <<>>
    BY <2>3 DEF Effect
  <2>5. Portion(g, id) = 0
    BY <1>2, <1>3, <1>5, <1>9
  <2>6. StripeOf(g, id) = <<>>
    BY <1>1, <2>5, EmptyStripe
  <2> QED
    BY <2>3, <2>4, <2>6
<1>10. ASSUME NEW id \in 0..MaxStripe, w.id < id, c.id < id
       PROVE  (\A t \in T : t.id # id) /\ StripeOf(f, id) = StripeOf(g, id)
  <2>1. \A t \in T : t.id # id
    BY <1>2, <1>3, <1>4, <1>10 DEF RemoveTasks, Task
  <2>2. Portion(g, id) = 0
    BY <1>2, <1>3, <1>5, <1>10
  <2>3. Portion(f, id) = 0
    BY <1>1, <1>2, <1>3, <1>5, <1>10
  <2> QED
    BY <1>1, <2>1, <2>2, <2>3, EmptyStripe
<1>11. \A id \in 0..MaxStripe : \/ id < w.id \/ id = w.id
                                \/ w.id < id /\ id <= c.id
                                \/ w.id < id /\ c.id < id
  BY <1>2, <1>3
<1>12. Brings(T, f, g)
  BY <1>7, <1>8, <1>9, <1>10, <1>11 DEF Brings
<1> QED
  BY <1>12 DEF T, g

\* ... and when it grows a file that ends with a stripe.
LEMMA GrowBrings ==
  ASSUME NEW f, IsFlat(f), NEW new \in 0..MaxSize, new > Len(f), Len(f) % StripeSize = 0
  PROVE  Brings(ResizeTasks(Len(f), new), f, Resized(f, new))
<1> DEFINE g == Resized(f, new)
           c == LastStripeInfo(Len(f))
           w == LastStripeInfo(new)
           T == ResizeTasks(Len(f), new)
           X(i) == i * StripeSize
<1>1. /\ IsFlat(g) /\ Len(f) \in Nat /\ Len(g) = new
      /\ \A k \in 1..new : g[k] = IF k <= Len(f) THEN f[k] ELSE Zero
  BY ResizedFacts
<1>2. /\ StripeSize \in Nat /\ StripeSize > 0 /\ MaxStripe \in Nat /\ new \in Nat /\ Zero \in Byte
  BY StripeSizeAssumption, StoreAssumption, MaxSizeFacts
<1>3. /\ c.id \in Int /\ c.len = StripeSize /\ X(c.id) + c.len = Len(f)
      /\ w.id \in Int /\ w.len \in 1..StripeSize /\ X(w.id) + w.len = new
  <2>1. c.id \in Int /\ X(c.id) + c.len = Len(f)
    BY <1>1, LastStripeFacts
  <2>2. w.id \in Int /\ w.len \in 1..StripeSize /\ X(w.id) + w.len = new
    BY <1>2, LastStripeFacts
  <2>3. c.len = StripeSize
    BY DEF LastStripeInfo
  <2> QED
    BY <2>1, <2>2, <2>3
<1>4. T = {ZeroByte(id, StripeSize - 1) : id \in (c.id + 1)..(w.id - 1)} \cup {ZeroByte(w.id, w.len - 1)}
  BY <1>1, <1>2, <1>3 DEF ResizeTasks
<1>5. X(c.id) \in Int /\ X(w.id) \in Int /\ (w.id <= c.id => X(w.id) <= X(c.id))
  BY <1>3, StripeOrder
<1> HIDE DEF g, c, w, T, X
<1>6. c.id < w.id
  BY <1>1, <1>2, <1>3, <1>5
<1>7. ASSUME NEW id \in 0..MaxStripe
      PROVE  /\ X(id) \in Nat
             /\ id <= c.id => X(id) <= X(c.id)
             /\ id < w.id => X(id) + StripeSize <= X(w.id)
             /\ w.id < id => X(w.id) + StripeSize <= X(id)
             /\ c.id < id => X(c.id) + StripeSize <= X(id)
             /\ Portion(f, id) = IF X(id) >= Len(f) THEN 0
                                 ELSE IF X(id) + StripeSize <= Len(f) THEN StripeSize
                                 ELSE Len(f) - X(id)
             /\ Portion(g, id) = IF X(id) >= new THEN 0
                                 ELSE IF X(id) + StripeSize <= new THEN StripeSize
                                 ELSE new - X(id)
  <2>1. id \in Int /\ X(id) \in Nat
    BY <1>2, StripeFacts DEF X
  <2>2. /\ id <= c.id => X(id) <= X(c.id)
        /\ id < w.id => X(id) + StripeSize <= X(w.id)
        /\ w.id < id => X(w.id) + StripeSize <= X(id)
        /\ c.id < id => X(c.id) + StripeSize <= X(id)
    BY <1>3, <2>1, StripeOrder DEF X
  <2>3. Portion(f, id) = IF X(id) >= Len(f) THEN 0
                         ELSE IF X(id) + StripeSize <= Len(f) THEN StripeSize
                         ELSE Len(f) - X(id)
    BY StripeFacts DEF X
  <2>4. Portion(g, id) = IF X(id) >= Len(g) THEN 0
                         ELSE IF X(id) + StripeSize <= Len(g) THEN StripeSize
                         ELSE Len(g) - X(id)
    BY <1>1, StripeFacts DEF X
  <2> QED
    BY <1>1, <2>1, <2>2, <2>3, <2>4
<1>8. ASSUME NEW id \in 0..MaxStripe, id <= c.id
      PROVE  (\A t \in T : t.id # id) /\ StripeOf(f, id) = StripeOf(g, id)
  <2>1. \A t \in T : t.id # id
    BY <1>2, <1>3, <1>4, <1>6, <1>8 DEF ZeroByte, Task
  <2>2. /\ X(id) \in Nat /\ X(id) <= X(c.id)
        /\ Portion(f, id) = IF X(id) >= Len(f) THEN 0
                            ELSE IF X(id) + StripeSize <= Len(f) THEN StripeSize
                            ELSE Len(f) - X(id)
        /\ Portion(g, id) = IF X(id) >= new THEN 0
                            ELSE IF X(id) + StripeSize <= new THEN StripeSize
                            ELSE new - X(id)
    BY <1>7, <1>8
  <2>3. Portion(f, id) = StripeSize /\ Portion(g, id) = StripeSize
    BY <1>1, <1>2, <1>3, <1>5, <2>2
  <2>4. PICK a \in Seq(Byte) : a = StripeOf(f, id) /\ Len(a) = StripeSize
    BY <2>3, StripeFacts
  <2>5. ASSUME NEW j \in 1..Len(a) PROVE a[j] = g[X(id) + j]
    <3>1. a[j] = f[X(id) + j] /\ X(id) + j \in 1..Len(f)
      BY <2>3, <2>4, StripeFacts DEF X
    <3>2. X(id) + j \in 1..new /\ X(id) + j <= Len(f)
      BY <1>1, <1>2, <3>1
    <3> QED
      BY <1>1, <3>1, <3>2
  <2>6. a = StripeOf(g, id)
    BY <1>1, <2>3, <2>4, <2>5, SameStripe DEF X
  <2> QED
    BY <2>1, <2>4, <2>6
<1>9. ASSUME NEW id \in 0..MaxStripe, NEW l \in 1..StripeSize, NEW t, t = ZeroByte(id, l - 1),
             Portion(f, id) = 0, Portion(g, id) = l
      PROVE  Effect(t, StripeOf(f, id)) = StripeOf(g, id)
  <2> DEFINE r == Effect(t, <<>>)
  <2>1. /\ t.kind = "write" /\ t.off = l - 1 /\ t.len = 1 /\ t.val = Zero /\ t.id = id
        /\ t.off \in Nat /\ t.len \in Nat /\ t.off + t.len = l /\ l <= StripeSize /\ l \in Nat
    BY <1>2, <1>9 DEF ZeroByte, Task
  <2>2. StripeOf(f, id) = <<>> /\ <<>> \in Seq(Byte) /\ Len(<<>>) = 0
    BY <1>9, EmptyStripe
  <2>3. r \in Seq(Byte) /\ Len(r) = l /\ \A j \in 1..l : r[j] = Zero
    <3>1. t.val \in Byte /\ t.off + t.len <= StripeSize /\ Len(<<>>) <= StripeSize
      BY <1>2, <2>1, <2>2
    <3>2. r \in Seq(Byte) /\ Len(r) = IF t.off + t.len > Len(<<>>) THEN t.off + t.len ELSE Len(<<>>)
      BY <2>1, <2>2, <3>1, WriteEffect
    <3>3. \A j \in 1..Len(r) : r[j] = IF t.off < j /\ j <= t.off + t.len THEN t.val
                                      ELSE IF j <= Len(<<>>) THEN (<<>>)[j] ELSE Zero
      BY <2>1, <2>2, <3>1, WriteEffect
    <3> HIDE DEF r
    <3>4. Len(r) = l
      BY <2>1, <2>2, <3>2
    <3> QED
      BY <2>1, <2>2, <3>2, <3>3, <3>4
  <2> HIDE DEF r
  <2>4. ASSUME NEW j \in 1..Len(r) PROVE r[j] = g[X(id) + j]
    <3>1. X(id) + j \in 1..new
      BY <1>1, <1>9, <2>3, StripeFacts DEF X
    <3>2. X(id) >= Len(f) /\ X(id) \in Nat
      BY <1>1, <1>2, <1>7, <1>9
    <3>3. ~(X(id) + j <= Len(f)) /\ j \in Nat
      BY <1>1, <2>1, <2>3, <3>2
    <3> QED
      BY <1>1, <2>3, <3>1, <3>3
  <2>5. r = StripeOf(g, id)
    BY <1>1, <1>9, <2>3, <2>4, SameStripe DEF X
  <2> QED
    BY <2>2, <2>5 DEF r
<1>10. ASSUME NEW id \in 0..MaxStripe, c.id < id
       PROVE  Portion(f, id) = 0 /\ (id < w.id => Portion(g, id) = StripeSize)
              /\ (id = w.id => Portion(g, id) = w.len) /\ (w.id < id => Portion(g, id) = 0)
  <2>1. /\ X(id) \in Nat
        /\ id < w.id => X(id) + StripeSize <= X(w.id)
        /\ w.id < id => X(w.id) + StripeSize <= X(id)
        /\ X(c.id) + StripeSize <= X(id)
        /\ Portion(f, id) = IF X(id) >= Len(f) THEN 0
                            ELSE IF X(id) + StripeSize <= Len(f) THEN StripeSize
                            ELSE Len(f) - X(id)
        /\ Portion(g, id) = IF X(id) >= new THEN 0
                            ELSE IF X(id) + StripeSize <= new THEN StripeSize
                            ELSE new - X(id)
    BY <1>7, <1>10
  <2>2. id = w.id => X(id) = X(w.id)
    OBVIOUS
  <2>3. Portion(f, id) = 0
    BY <1>1, <1>3, <2>1
  <2>4. id < w.id => Portion(g, id) = StripeSize
    BY <1>1, <1>2, <1>3, <1>5, <2>1
  <2>5. id = w.id => Portion(g, id) = w.len
    BY <1>1, <1>2, <1>3, <1>5, <2>1, <2>2
  <2>6. w.id < id => Portion(g, id) = 0
    BY <1>1, <1>2, <1>3, <1>5, <2>1
  <2> QED
    BY <2>3, <2>4, <2>5, <2>6
<1>11. ASSUME NEW id \in 0..MaxStripe, c.id < id, id <= w.id
       PROVE  \E t \in T : /\ \A u \in T : u.id = id => u = t
                           /\ t.id = id /\ Effect(t, StripeOf(f, id)) = StripeOf(g, id)
  <2>1. CASE id < w.id
    <3>1. id \in (c.id + 1)..(w.id - 1)
      BY <1>2, <1>3, <1>11, <2>1
    <3>2. PICK t \in T : t = ZeroByte(id, StripeSize - 1)
      BY <1>4, <3>1
    <3>3. t.id = id /\ \A u \in T : u.id = id => u = t
      <4>1. \A i, o : ZeroByte(i, o).id = i
        BY DEF ZeroByte, Task
      <4>2. \A u \in T : u = ZeroByte(w.id, w.len - 1) \/ \E i : u = ZeroByte(i, StripeSize - 1)
        BY <1>4
      <4>3. id # w.id
        BY <1>2, <1>3, <2>1
      <4> QED
        BY <3>2, <4>1, <4>2, <4>3
    <3>4. Portion(f, id) = 0 /\ Portion(g, id) = StripeSize /\ StripeSize \in 1..StripeSize
      BY <1>2, <1>10, <1>11, <2>1
    <3>5. Effect(t, StripeOf(f, id)) = StripeOf(g, id)
      BY <1>9, <3>2, <3>4
    <3> QED
      BY <3>3, <3>5
  <2>2. CASE id = w.id
    <3>1. PICK t \in T : t = ZeroByte(id, w.len - 1)
      BY <1>4, <2>2
    <3>2. t.id = id /\ \A u \in T : u.id = id => u = t
      BY <1>2, <1>3, <1>4, <2>2, <3>1 DEF ZeroByte, Task
    <3>3. Portion(f, id) = 0 /\ Portion(g, id) = w.len
      BY <1>10, <1>11, <2>2
    <3>4. Effect(t, StripeOf(f, id)) = StripeOf(g, id)
      BY <1>3, <1>9, <3>1, <3>3
    <3> QED
      BY <3>2, <3>4
  <2> QED
    BY <1>2, <1>3, <1>11, <2>1, <2>2
<1>12. ASSUME NEW id \in 0..MaxStripe, w.id < id
       PROVE  (\A t \in T : t.id # id) /\ StripeOf(f, id) = StripeOf(g, id)
  <2>1. \A t \in T : t.id # id
    BY <1>2, <1>3, <1>4, <1>12 DEF ZeroByte, Task
  <2>2. c.id < id
    BY <1>2, <1>3, <1>6, <1>12
  <2>3. Portion(f, id) = 0 /\ Portion(g, id) = 0
    BY <1>10, <1>12, <2>2
  <2> QED
    BY <1>1, <2>1, <2>3, EmptyStripe
<1>13. \A id \in 0..MaxStripe : \/ id <= c.id \/ (c.id < id /\ id <= w.id) \/ w.id < id
  BY <1>2, <1>3
<1>14. Brings(T, f, g)
  BY <1>8, <1>11, <1>12, <1>13 DEF Brings
<1> QED
  BY <1>14 DEF T, g

\* Resize starts what brings the file to its new size.
LEMMA ResizeBrings ==
  ASSUME NEW f, IsFlat(f), NEW new \in 0..MaxSize, new <= Len(f) \/ Len(f) % StripeSize = 0
  PROVE  Brings(ResizeTasks(Len(f), new), f, Resized(f, new)) /\ IsFlat(Resized(f, new))
<1>1. IsFlat(Resized(f, new)) /\ Len(f) \in Nat /\ new \in Nat
  BY ResizedFacts, MaxSizeFacts
<1>2. CASE new = Len(f)
  <2>1. ResizeTasks(Len(f), new) = {}
    BY <1>1, <1>2 DEF ResizeTasks
  <2>2. PICK g : g = Resized(f, new)
    OBVIOUS
  <2>3. f \in Seq(Byte) /\ g \in Seq(Byte) /\ Len(g) = Len(f) /\ \A k \in 1..Len(f) : g[k] = f[k]
    <3>1. IsFlat(g) /\ Len(g) = new /\ \A k \in 1..new : g[k] = IF k <= Len(f) THEN f[k] ELSE Zero
      BY <2>2, ResizedFacts
    <3> QED
      BY <1>1, <1>2, <3>1 DEF IsFlat
  <2>4. g = f
    BY <2>3
  <2> QED
    BY <1>1, <2>1, <2>2, <2>4 DEF Brings
<1> QED
  BY <1>1, <1>2, ShrinkBrings, GrowBrings

-----------------------------------------------------------------------------
\* The stripes on their way from file f to file g.
Comes(tasks, f, g) ==
  \A id \in 0..MaxStripe :
    \/ (\A t \in tasks : t.id # id) /\ stripe[id] = StripeOf(g, id)
    \/ \E t \in tasks : /\ \A u \in tasks : u.id = id => u = t
                        /\ t.id = id /\ stripe[id] = StripeOf(f, id)
                        /\ Effect(t, stripe[id]) = StripeOf(g, id)
\* What a read has put into the buffer: each byte that no goroutine has still to get.
Wanted(f, k) == IF k <= Len(f) THEN f[k] ELSE NoByte
Got(c, f) ==
  /\ Len(c.buf) = c.len
  /\ \A t \in c.todo : /\ t.kind = "read" /\ t.id * StripeSize + t.off = c.off + t.pos
                       /\ t.pos + t.len <= c.len
  /\ \A k \in 1..c.len : c.buf[k] = IF \E t \in c.todo : t.pos < k /\ k <= t.pos + t.len
                                    THEN NoByte ELSE Wanted(f, c.off + k)
  /\ c.n = Cardinality({k \in 1..c.len : c.buf[k] # NoByte})
\* A call has what it was called with, and no more than its kind has.
Shape(c) == /\ c.phase \in {"search", "stripes"}
            /\ c.op \in IF c.phase = "search" THEN {"size", "remove", "resize"}
                        ELSE {"write", "read", "size", "remove", "resize"}
            /\ c.op # "write" => c.val = Zero
            /\ c.op \notin {"write", "read"} => c.off = 0
            /\ c.op \in {"size", "remove"} => c.len = 0
            /\ c.op # "read" => c.buf = <<>>
            /\ c.op \notin {"read", "size"} => c.n = 0
\* A call that found file f: it looks for its end, or brings it where it is to be.
InCall(c, f) ==
  /\ IsFlat(f) /\ Shape(c)
  /\ c.phase = "search" => Stands(f) /\ (c.op = "resize" => c.len <= Len(f) \/ Len(f) % StripeSize = 0)
  /\ c.phase = "stripes" => /\ Comes(c.todo, f, Aim(c, f)) /\ IsFlat(Aim(c, f))
                            /\ c.op # "read" => \A t \in c.todo : t.kind # "read"
                            /\ c.op = "size" => c.n = Len(f)
                            /\ c.op = "read" => Got(c, f)
\* Between calls the stripes are those of one file.
FlatInv == /\ FoundInv /\ Unlisted /\ before = [p \in Proc |-> before[p]]
           /\ \A p \in Proc : IF call[p] = Idle THEN IsFlat(Contents) /\ Stands(Contents)
                              ELSE InCall(call[p], before[p])

\* A goroutine takes its stripe from the one file to the other.
LEMMA ComesOn ==
  ASSUME NEW T, NEW f, NEW g, Comes(T, f, g), NEW t \in T, t.id \in Ids, DOMAIN stripe = Ids,
         stripe' = [stripe EXCEPT ![t.id] = Effect(t, stripe[t.id])]
  PROVE  Comes(T \ {t}, f, g)'
<1> SUFFICES ASSUME NEW id \in 0..MaxStripe
             PROVE  \/ (\A u \in T \ {t} : u.id # id) /\ stripe'[id] = StripeOf(g, id)
                    \/ \E u \in T \ {t} : /\ \A w \in T \ {t} : w.id = id => w = u
                                          /\ u.id = id /\ stripe'[id] = StripeOf(f, id)
                                          /\ Effect(u, stripe'[id]) = StripeOf(g, id)
  BY DEF Comes
<1>1. \/ (\A u \in T : u.id # id) /\ stripe[id] = StripeOf(g, id)
      \/ \E u \in T : /\ \A w \in T : w.id = id => w = u
                      /\ u.id = id /\ stripe[id] = StripeOf(f, id)
                      /\ Effect(u, stripe[id]) = StripeOf(g, id)
  BY DEF Comes
<1>2. CASE id = t.id
  <2>1. Effect(t, stripe[id]) = StripeOf(g, id) /\ \A w \in T : w.id = id => w = t
    BY <1>1, <1>2
  <2>2. stripe'[id] = Effect(t, stripe[id])
    BY <1>2
  <2> QED
    BY <2>1, <2>2
<1>3. CASE id # t.id
  <2>1. stripe'[id] = stripe[id]
    BY <1>3
  <2> QED
    BY <1>1, <1>3, <2>1
<1> QED
  BY <1>2, <1>3

\* A call that starts its goroutines.
LEMMA ComesFrom ==
  ASSUME NEW T, NEW f, NEW g, Stands(f), Brings(T, f, g)
  PROVE  Comes(T, f, g)
BY DEF Stands, Brings, Comes

\* When all have run, the file is there.
LEMMA ComesTo ==
  ASSUME NEW f, NEW g, Comes({}, f, g)
  PROVE  Stands(g)
BY DEF Comes, Stands

\* A read starts with nothing in its buffer and every byte of it still to get.
LEMMA GotNothing ==
  ASSUME NEW f, NEW o \in Nat, NEW l \in Nat, o + l <= MaxSize, NEW c,
         c.off = o, c.len = l, c.todo = Transfer("read", o, l, Zero), c.n = 0,
         c.buf = [k \in 1..l |-> NoByte]
  PROVE  Got(c, f)
<1>1. PICK T : T = Transfer("read", o, l, Zero)
  OBVIOUS
<1>2. ASSUME NEW t \in T
      PROVE  t.kind = "read" /\ t.id * StripeSize + t.off = o + t.pos /\ t.pos + t.len <= l
  <2>1. t.kind = "read" /\ t.id * StripeSize + t.off = o + t.pos
    BY <1>1, TransferCovers
  <2>2. PICK u \in Layout(o, l) : t = Task("read", u.id, u.off, u.pos, u.len, Zero)
    BY <1>1 DEF Transfer
  <2>3. u \in Entry /\ t.id = u.id /\ t.off = u.off /\ t.pos = u.pos /\ t.len = u.len
    BY <2>2, PieceOfStripe DEF Task
  <2>4. PICK x : x = u.id * StripeSize
    OBVIOUS
  <2>5. u.off + u.len = Least(StripeSize, o + l - x) /\ x + u.off = o + u.pos /\ x \in Int
    <3>1. u.off + u.len = Least(StripeSize, o + l - x)
      BY <2>4, PieceOfStripe
    <3>2. x + u.off = o + u.pos
      BY <2>1, <2>3, <2>4
    <3>3. x \in Int
      BY <2>3, <2>4, StripeSizeAssumption DEF Entry
    <3> QED
      BY <3>1, <3>2, <3>3
  <2>6. u.pos + u.len <= l
    BY <2>3, <2>5, StripeSizeAssumption DEF Entry, Least
  <2> QED
    BY <2>1, <2>3, <2>6
<1>3. ASSUME NEW k \in 1..l PROVE \E t \in T : t.pos < k /\ k <= t.pos + t.len
  <2>1. o + k - 1 \in Span(o, l) /\ (o + k - 1) - o = k - 1
    BY DEF Span
  <2>2. PICK t \in T : t.pos <= k - 1 /\ k - 1 < t.pos + t.len
    BY <1>1, <2>1, TransferCovers
  <2>3. t.pos \in Nat /\ t.len \in Nat
    <3>1. PICK u \in Layout(o, l) : t = Task("read", u.id, u.off, u.pos, u.len, Zero)
      BY <1>1 DEF Transfer
    <3>2. u \in Entry /\ t.pos = u.pos /\ t.len = u.len
      BY <3>1, PieceOfStripe DEF Task
    <3> QED
      BY <3>2 DEF Entry
  <2>4. t.pos < k /\ k <= t.pos + t.len
    BY <2>2, <2>3
  <2> QED
    BY <2>4
<1>4. Len(c.buf) = l /\ \A k \in 1..l : c.buf[k] = NoByte
  <2>1. PICK b : b = [k \in 1..l |-> NoByte]
    OBVIOUS
  <2>2. b \in Seq({NoByte}) /\ Len(b) = l /\ \A k \in 1..l : b[k] = NoByte
    BY <2>1
  <2> QED
    BY <2>1, <2>2
<1>5. {k \in 1..c.len : c.buf[k] # NoByte} = {}
  BY <1>4
<1>6. c.n = Cardinality({k \in 1..c.len : c.buf[k] # NoByte})
  BY <1>5, FS_EmptySet
<1> QED
  BY <1>1, <1>2, <1>3, <1>4, <1>6 DEF Got

\* No two goroutines of a read are on one byte of its buffer.
LEMMA Apart ==
  ASSUME NEW o \in Nat, NEW k \in Nat, k > 0, NEW t \in Tasks, NEW u \in Tasks,
         t.off + t.len <= StripeSize, u.off + u.len <= StripeSize,
         t.id * StripeSize + t.off = o + t.pos, u.id * StripeSize + u.off = o + u.pos,
         t.pos < k, k <= t.pos + t.len, u.pos < k, k <= u.pos + u.len
  PROVE  t.id = u.id
<1>1. ASSUME NEW w \in Tasks, w.off + w.len <= StripeSize, w.id * StripeSize + w.off = o + w.pos,
             w.pos < k, k <= w.pos + w.len
      PROVE  (o + k - 1) \div StripeSize = w.id
  <2>1. /\ w.id \in Int /\ w.off \in Nat /\ w.len \in Nat /\ w.pos \in Nat /\ StripeSize \in Nat
    BY MaxSizeFacts, StripeSizeAssumption, StoreAssumption DEF Tasks, Ids
  <2>2. PICK x : x = w.id * StripeSize
    OBVIOUS
  <2>3. PICK r : r = w.off + (k - 1 - w.pos)
    OBVIOUS
  <2>4. r \in Nat /\ r < StripeSize
    BY <1>1, <2>1, <2>3
  <2>5. o + k - 1 = x + r /\ o + k - 1 \in Nat
    <3>1. x + w.off = o + w.pos /\ x \in Int
      BY <1>1, <2>1, <2>2, StripeOrder
    <3> QED
      BY <2>1, <2>3, <3>1
  <2>6. o + k - 1 = w.id * StripeSize + r
    BY <2>2, <2>5
  <2> QED
    BY <2>1, <2>4, <2>5, <2>6, OnePlace
<1> QED
  BY <1>1

\* A stripe read: its part of the buffer is the file's, as far as the file goes.
LEMMA GotMore ==
  ASSUME NEW f, IsFlat(f), NEW c \in Calls,
         \A u \in c.todo : u.off + u.len <= StripeSize /\ u.id \in 0..MaxStripe,
         Comes(c.todo, f, f), Got(c, f), NEW t \in c.todo,
         NEW got, got = GetRange(stripe[t.id], t.off, t.len), NEW d,
         d.todo = c.todo \ {t}, d.off = c.off, d.len = c.len, d.n = c.n + Len(got),
         d.buf = [k \in 1..c.len |->
                    IF t.pos < k /\ k <= t.pos + Len(got) THEN got[k - t.pos] ELSE c.buf[k]]
  PROVE  Got(d, f)
<1> DEFINE l == c.len
           o == c.off
           InRange(u, k) == u.pos < k /\ k <= u.pos + u.len
           Filled0 == {k \in 1..l : c.buf[k] # NoByte}
           Now == (t.pos + 1)..(t.pos + Len(got))
<1>1. /\ o \in Nat /\ l \in Nat /\ c.n \in Nat /\ Len(f) \in Nat
      /\ \A u \in c.todo : /\ u \in Tasks /\ u.pos \in Nat /\ u.len \in Nat /\ u.off \in Nat
                           /\ u.off + u.len <= StripeSize
                           /\ u.id * StripeSize + u.off = o + u.pos /\ u.pos + u.len <= l
                           /\ u.kind = "read"
  <2>1. o \in Nat /\ l \in Nat /\ c.n \in Nat /\ c.todo \subseteq Tasks
    BY MaxSizeFacts DEF Calls
  <2>2. Len(f) \in Nat
    BY DEF IsFlat
  <2>3. \A u \in Tasks : u.pos \in Nat /\ u.len \in Nat /\ u.off \in Nat
    BY MaxSizeFacts, StripeSizeAssumption DEF Tasks
  <2>4. \A u \in c.todo : /\ u.kind = "read" /\ u.id * StripeSize + u.off = o + u.pos
                          /\ u.pos + u.len <= l
    BY DEF Got
  <2> QED
    BY <2>1, <2>2, <2>3, <2>4
<1>2. /\ \A k \in 1..l : c.buf[k] = IF \E u \in c.todo : InRange(u, k) THEN NoByte ELSE Wanted(f, o + k)
      /\ c.n = Cardinality(Filled0)
  BY DEF Got
<1>3. /\ \A w \in c.todo : w.id = t.id => w = t
      /\ stripe[t.id] = StripeOf(f, t.id)
  BY DEF Comes
<1>4. ASSUME NEW k \in 1..l, InRange(t, k), NEW u \in c.todo, InRange(u, k)
      PROVE  u = t
  <2>1. t.id = u.id
    BY <1>1, <1>4, Apart
  <2> QED
    BY <1>3, <2>1
<1>5. PICK a \in Nat : a = o + t.pos
  BY <1>1
<1>6. /\ Len(got) \in Nat /\ Len(got) <= t.len
      /\ \A j \in 1..t.len : j <= Len(got) <=> a + j <= Len(f)
      /\ \A j \in 1..Len(got) : got[j] = f[a + j] /\ got[j] \in Byte
  <2>1. PICK s : s = StripeOf(f, t.id)
    OBVIOUS
  <2>2. PICK x : x = t.id * StripeSize
    OBVIOUS
  <2>3. PICK q \in Nat, n \in Nat : q = t.off /\ n = t.len
    BY <1>1
  <2>4. /\ StripeSize \in Nat /\ x \in Nat /\ Len(s) \in Nat /\ a = x + q /\ q + n <= StripeSize
        /\ Len(s) = IF x >= Len(f) THEN 0 ELSE IF x + StripeSize <= Len(f) THEN StripeSize ELSE Len(f) - x
        /\ s \in Seq(Byte) /\ \A j \in 1..Len(s) : s[j] = f[x + j] /\ s[j] \in Byte
    <3>1. /\ Len(s) = IF x >= Len(f) THEN 0 ELSE IF x + StripeSize <= Len(f) THEN StripeSize ELSE Len(f) - x
          /\ s \in Seq(Byte) /\ x \in Nat /\ \A j \in 1..Len(s) : s[j] = f[x + j]
      BY <2>1, <2>2, StripeFacts
    <3>2. a = x + q /\ q + n <= StripeSize
      BY <1>1, <1>5, <2>2, <2>3
    <3> QED
      BY <3>1, <3>2, StripeSizeAssumption
  <2> DEFINE e == IF q + n > Len(s) THEN Len(s) ELSE q + n
  <2>5. e \in Nat /\ e <= Len(s) /\ e <= q + n
    BY <2>4
  <2>6. got = SubSeq(s, q + 1, e) /\ got = GetRange(s, q, n)
    BY <1>3, <2>1, <2>3 DEF GetRange
  <2>7. Len(got) = IF q + 1 <= e THEN e - q ELSE 0
    BY <2>4, <2>5, <2>6
  <2>8. \A j \in 1..n : j <= Len(got) <=> a + j <= Len(f)
    BY <1>1, <2>4, <2>7
  <2>9. ASSUME NEW j \in 1..Len(got) PROVE got[j] = f[a + j] /\ got[j] \in Byte
    <3>1. j \in 1..n /\ q + j \in 1..Len(s) /\ x + (q + j) = a + j
      BY <2>4, <2>5, <2>7
    <3>2. got[j] = s[q + j]
      <4>1. q + j <= Len(s) /\ s \in Seq(Byte) /\ got = GetRange(s, q, n) /\ j \in 1..n
        <5>1. q + j <= Len(s)
          BY <2>4, <3>1
        <5> QED
          BY <2>4, <2>6, <3>1, <5>1
      <4> QED
        BY ONLY <4>1, q \in Nat, n \in Nat, GetRangeByte
    <3> QED
      BY <2>4, <3>1, <3>2
  <2>10. Len(got) \in Nat /\ Len(got) <= n
    BY <2>4, <2>5, <2>7
  <2> QED
    BY <2>3, <2>8, <2>9, <2>10
<1>0. t.pos \in Nat /\ t.len \in Nat /\ t.pos + t.len <= l /\ l \in Nat /\ o \in Nat
  BY <1>1
<1> HIDE DEF l, o, Filled0, Now
<1>7. ASSUME NEW k \in 1..l, InRange(t, k)
      PROVE  /\ d.buf[k] = Wanted(f, o + k) /\ c.buf[k] = NoByte
             /\ d.buf[k] # NoByte <=> k \in Now
             /\ ~ \E u \in d.todo : InRange(u, k)
  <2>1. PICK j : j = k - t.pos
    OBVIOUS
  <2>2. j \in 1..t.len /\ a + j = o + k /\ k = t.pos + j
    <3>1. PICK x \in Nat, y \in Nat : x = t.pos /\ y = t.len
      BY <1>0
    <3>2. x < k /\ k <= x + y /\ j = k - x /\ a = o + x /\ k \in Int
      BY <1>0, <1>5, <1>7, <2>1, <3>1
    <3>3. j \in 1..y /\ a + j = o + k /\ k = x + j
      <4>1. o \in Nat /\ x \in Nat /\ y \in Nat
        BY <1>0
      <4> QED
        BY ONLY <3>2, <4>1
    <3> QED
      BY ONLY <3>1, <3>3
  <2>3. c.buf[k] = NoByte /\ ~ \E u \in d.todo : InRange(u, k)
    BY <1>2, <1>4, <1>7
  <2>4. CASE j <= Len(got)
    <3>1. d.buf[k] = got[j] /\ k \in Now
      <4>1. t.pos < k /\ k <= t.pos + Len(got) /\ k - t.pos = j
        <5>1. PICK x \in Nat, n \in Nat : x = t.pos /\ n = Len(got)
          BY <1>0, <1>6
        <5>2. j \in Nat /\ j > 0 /\ j <= n /\ k = x + j
          BY <2>2, <2>4, <5>1
        <5> QED
          BY ONLY <5>1, <5>2, x \in Nat, n \in Nat
      <4>2. k \in Now
        BY <1>0, <1>6, <4>1 DEF Now
      <4> QED
        BY <4>1, <4>2 DEF l
    <3>2. got[j] = f[o + k] /\ got[j] \in Byte /\ o + k <= Len(f)
      BY <1>6, <2>2, <2>4
    <3>3. d.buf[k] = Wanted(f, o + k)
      BY <3>1, <3>2 DEF Wanted
    <3> QED
      BY <2>3, <3>1, <3>2, <3>3, StoreAssumption
  <2>5. CASE ~ (j <= Len(got))
    <3>1. d.buf[k] = c.buf[k] /\ k \notin Now
      <4>1. PICK x \in Nat, n \in Nat : x = t.pos /\ n = Len(got)
        BY <1>0, <1>6
      <4>2. ~ (k <= x + n) /\ k \notin (x + 1)..(x + n)
        <5>1. j \in Nat /\ k = x + j /\ ~ (j <= n)
          BY <2>2, <2>5, <4>1
        <5> QED
          BY ONLY <5>1, x \in Nat, n \in Nat
      <4> QED
        BY <4>1, <4>2 DEF l, Now
    <3>2. ~ (o + k <= Len(f))
      BY <1>6, <2>2, <2>5
    <3> QED
      BY <2>3, <3>1, <3>2 DEF Wanted
  <2> QED
    BY <2>4, <2>5
<1>8. ASSUME NEW k \in 1..l, ~ InRange(t, k)
      PROVE  /\ d.buf[k] = c.buf[k] /\ k \notin Now
             /\ (\E u \in d.todo : InRange(u, k)) <=> \E u \in c.todo : InRange(u, k)
  <2>1. k \notin Now /\ ~ (t.pos < k /\ k <= t.pos + Len(got))
    BY <1>1, <1>6, <1>8 DEF Now
  <2>2. d.buf[k] = c.buf[k]
    BY <2>1 DEF l
  <2> QED
    BY <1>8, <2>1, <2>2
<1>9. \A k \in 1..l : d.buf[k] = IF \E u \in d.todo : InRange(u, k) THEN NoByte ELSE Wanted(f, o + k)
  <2> SUFFICES ASSUME NEW k \in 1..l
               PROVE  d.buf[k] = IF \E u \in d.todo : InRange(u, k) THEN NoByte ELSE Wanted(f, o + k)
    OBVIOUS
  <2>1. CASE InRange(t, k)
    BY <1>7, <2>1
  <2>2. CASE ~ InRange(t, k)
    BY <1>2, <1>8, <2>2
  <2> QED
    BY <2>1, <2>2
<1>10. {k \in 1..l : d.buf[k] # NoByte} = Filled0 \cup Now
  <2>1. Now \subseteq 1..l
    <3>1. PICK x \in Nat, n \in Nat : x = t.pos /\ n = Len(got)
      BY <1>0, <1>6
    <3>2. x + n <= l
      BY <1>0, <1>6, <3>1
    <3>3. (x + 1)..(x + n) \subseteq 1..l
      BY ONLY <1>0, <3>2, x \in Nat, n \in Nat
    <3> QED
      BY <3>1, <3>3 DEF Now
  <2>2. ASSUME NEW k \in 1..l PROVE d.buf[k] # NoByte <=> k \in Filled0 \/ k \in Now
    <3>1. k \in Filled0 <=> c.buf[k] # NoByte
      BY DEF Filled0
    <3> QED
      BY <1>7, <1>8, <3>1
  <2>3. Filled0 \subseteq 1..l
    BY DEF Filled0
  <2> QED
    BY <2>1, <2>2, <2>3
<1>11. Filled0 \cap Now = {}
  <2>1. ASSUME NEW k \in 1..l, k \in Now PROVE k \notin Filled0
    BY <1>7, <1>8, <2>1 DEF Filled0
  <2> QED
    BY <2>1 DEF Filled0
<1>12. Cardinality(Filled0 \cup Now) = c.n + Len(got)
  <2>1. IsFiniteSet(1..l)
    BY <1>1, FS_Interval
  <2>2. IsFiniteSet(Filled0)
    <3>1. Filled0 \in SUBSET (1..l)
      BY DEF Filled0
    <3> QED
      BY <2>1, <3>1, FS_Subset
  <2>3. IsFiniteSet(Now) /\ Cardinality(Now) = Len(got)
    <3>1. PICK x, y : x = t.pos + 1 /\ y = t.pos + Len(got)
      OBVIOUS
    <3>2. x \in Int /\ y \in Int
      BY <1>0, <1>6, <3>1
    <3>3. (IF x > y THEN 0 ELSE y - x + 1) = Len(got)
      <4>1. PICK n : n = Len(got)
        OBVIOUS
      <4>2. n \in Nat /\ y = x + n - 1
        BY <1>0, <1>6, <3>1, <4>1
      <4> QED
        BY <3>2, <4>1, <4>2
    <3> QED
      BY <3>1, <3>2, <3>3, FS_Interval DEF Now
  <2>4. Cardinality(Filled0 \cup Now) = Cardinality(Filled0) + Cardinality(Now) - Cardinality(Filled0 \cap Now)
    BY <2>2, <2>3, FS_Union
  <2> QED
    <3>1. Cardinality(Filled0 \cap Now) = 0 /\ Cardinality(Filled0) = c.n /\ c.n \in Nat
      BY <1>1, <1>2, <1>11, FS_EmptySet
    <3> QED
      BY <1>6, <2>3, <2>4, <3>1
<1>13. Len(d.buf) = l
  <2>1. PICK b : b = d.buf
    OBVIOUS
  <2>2. DOMAIN b = 1..l /\ b = [k \in 1..l |-> b[k]]
    BY <2>1 DEF l
  <2>3. Len(b) = l
    BY <1>0, <2>2
  <2> QED
    BY <2>1, <2>3
<1>14. \A u \in d.todo : /\ u.kind = "read" /\ u.id * StripeSize + u.off = o + u.pos
                         /\ u.pos + u.len <= l
  BY <1>1
<1>15. d.n = Cardinality({k \in 1..l : d.buf[k] # NoByte})
  BY <1>10, <1>12
<1> QED
  BY <1>9, <1>13, <1>14, <1>15 DEF Got, l, o

\* A read that has all its stripes has read the file.
LEMMA GotAll ==
  ASSUME NEW f, IsFlat(f), NEW c \in Calls, c.todo = {}, Got(c, f)
  PROVE  /\ c.buf = [k \in 1..c.len |-> Wanted(f, c.off + k)]
         /\ c.n = IF c.off >= Len(f) THEN 0
                  ELSE IF c.off + c.len <= Len(f) THEN c.len ELSE Len(f) - c.off
<1> DEFINE l == c.len
           o == c.off
           m == IF o >= Len(f) THEN 0 ELSE IF o + l <= Len(f) THEN l ELSE Len(f) - o
<1>1. o \in Nat /\ l \in Nat /\ Len(f) \in Nat /\ f \in Seq(Byte) /\ c.buf \in Seq(Byte \cup {NoByte})
  BY MaxSizeFacts DEF Calls, IsFlat
<1>2. /\ Len(c.buf) = l /\ \A k \in 1..l : c.buf[k] = Wanted(f, o + k)
      /\ c.n = Cardinality({k \in 1..l : c.buf[k] # NoByte})
  BY DEF Got
<1>3. m \in Nat /\ m <= l /\ \A k \in 1..l : o + k <= Len(f) <=> k <= m
  BY <1>1
<1> HIDE DEF m, l, o
<1>4. \A k \in 1..l : Wanted(f, o + k) # NoByte <=> k <= m
  <2> SUFFICES ASSUME NEW k \in 1..l PROVE Wanted(f, o + k) # NoByte <=> k <= m
    OBVIOUS
  <2>1. o + k <= Len(f) => f[o + k] \in Byte
    BY <1>1
  <2> QED
    BY <1>3, <2>1, StoreAssumption DEF Wanted
<1>5. {k \in 1..l : c.buf[k] # NoByte} = 1..m
  <2>1. \A k \in 1..l : c.buf[k] # NoByte <=> k \in 1..m
    BY <1>1, <1>2, <1>3, <1>4
  <2>2. 1..m \subseteq 1..l
    BY <1>1, <1>3
  <2> QED
    BY <2>1, <2>2
<1>6. c.n = m
  <2>1. PICK n : n = Cardinality(1..m)
    OBVIOUS
  <2>2. n = IF 1 > m THEN 0 ELSE m - 1 + 1
    BY <1>3, <2>1, FS_Interval
  <2>3. n = m
    BY <1>3, <2>2
  <2>4. c.n = Cardinality(1..m)
    BY <1>2, <1>5
  <2> QED
    BY <2>1, <2>3, <2>4
<1>7. c.buf = [k \in 1..l |-> Wanted(f, o + k)]
  <2>1. PICK b : b = c.buf
    OBVIOUS
  <2>2. DOMAIN b = 1..l /\ b = [k \in DOMAIN b |-> b[k]]
    BY <1>1, <1>2, <2>1
  <2> QED
    BY <1>2, <2>1, <2>2
<1> QED
  BY <1>6, <1>7 DEF m, l, o

-----------------------------------------------------------------------------
\* The file that the lone process p sees.
LEMMA VisibleIs ==
  ASSUME NEW p, Proc = {p}
  PROVE  /\ Visible = IF call[p] = Idle THEN Contents ELSE before[p]
         /\ Visible' = IF call'[p] = Idle THEN Contents' ELSE before'[p]
<1>1. Quiet <=> call[p] = Idle
  BY DEF Quiet
<1>2. Quiet' <=> call'[p] = Idle
  BY DEF Quiet
<1>3. call[p] # Idle => (CHOOSE q \in Proc : call[q] # Idle) = p
  OBVIOUS
<1>4. call'[p] # Idle => (CHOOSE q \in Proc : call'[q] # Idle) = p
  OBVIOUS
<1>5. Visible = IF call[p] = Idle THEN Contents ELSE before[p]
  BY <1>1, <1>3 DEF Visible
<1>6. Visible' = IF call'[p] = Idle THEN Contents' ELSE before'[p]
  BY <1>2, <1>4 DEF Visible
<1> QED
  BY <1>5, <1>6

\* A step that leaves the stripes alone, within a call.
LEMMA FlatLocal ==
  ASSUME NEW p, Proc = {p}, Unlisted, FoundInv', UNCHANGED redis,
         before' = [q \in Proc |-> before'[q]], NEW c, c = call'[p], NEW f, f = before'[p],
         c # Idle, InCall(c, f)
  PROVE  FlatInv'
<1>1. stripe' = stripe /\ Registered' = Registered
  BY DEF redis, Registered
<1>2. Unlisted'
  BY <1>1 DEF Unlisted
<1>3. InCall(c, f)'
  BY <1>1 DEF InCall, Stands, Comes
<1> QED
  BY <1>2, <1>3 DEF FlatInv

\* A call begins: the file it finds is that of the stripes.
LEMMA FlatBegins ==
  ASSUME NEW p, Proc = {p}, FlatInv, FoundInv', NEW c, c.phase # "none", Begin(p, c),
         NEW f, f = Contents, InCall(c, f)
  PROVE  FlatInv' /\ Flat!Begin
<1>1. /\ call[p] = Idle /\ call' = [call EXCEPT ![p] = c] /\ UNCHANGED redis
      /\ before' = [before EXCEPT ![p] = f] /\ out' = None /\ before = [q \in Proc |-> before[q]]
      /\ call \in [Proc -> Calls] /\ Unlisted
  BY DEF Begin, FlatInv, FoundInv, Inv, TypeOK
<1>2. c # Idle
  BY DEF Idle
<1>3. c = call'[p] /\ f = before'[p] /\ before' = [q \in Proc |-> before'[q]]
  BY <1>1
<1>4. FlatInv'
  BY <1>1, <1>2, <1>3, FlatLocal
<1>5. Visible = f /\ Visible' = f
  BY <1>1, <1>2, <1>3, VisibleIs
<1>6. Flat!None = None
  BY DEF Flat!None, None
<1> QED
  BY <1>1, <1>4, <1>5, <1>6 DEF Flat!Begin

\* The calls a lone process makes.
LEMMA FlatStarts ==
  ASSUME NEW p, Proc = {p}, Lone, FlatInv, FoundInv', Call(p)
  PROVE  FlatInv' /\ Flat!Begin
<1>1. PICK f : f = Contents
  OBVIOUS
<1>2. call[p] = Idle
  BY DEF Call, CallRead, CallWrite, CallSearching, CallResize, CallGetSize, CallRemove, Begin
<1>3. /\ IsFlat(f) /\ Stands(f) /\ Size = Len(f) /\ MaxSize \in Nat /\ Len(f) \in Nat
      /\ Ops \subseteq {"write", "read", "remove", "size", "shrink", "grow"}
  <2>1. IsFlat(f) /\ Stands(f) /\ FoundInv /\ Unlisted
    BY <1>1, <1>2 DEF FlatInv
  <2>2. Size = Len(f)
    BY <2>1, ContentsAre
  <2> QED
    BY <2>1, <2>2, MaxSizeFacts DEF Lone, IsFlat
<1>4. ASSUME NEW off \in 0..MaxSize, NEW len \in 0..(MaxSize - off), CallRead(p, off, len)
      PROVE  FlatInv' /\ Flat!Begin
  <2>1. PICK T : T = Transfer("read", off, len, Zero)
    OBVIOUS
  <2>2. PICK b : b = [k \in 1..len |-> NoByte]
    OBVIOUS
  <2>3. PICK c : c = [Idle EXCEPT !.op = "read", !.phase = "stripes", !.off = off, !.len = len,
                                  !.todo = T, !.buf = b]
    OBVIOUS
  <2>4. /\ c.op = "read" /\ c.phase = "stripes" /\ c.off = off /\ c.len = len /\ c.val = Zero
        /\ c.todo = T /\ c.n = 0 /\ c.buf = b
    BY <2>3 DEF Idle
  <2>5. off \in Nat /\ len \in Nat /\ off + len <= MaxSize
    BY <1>3
  <2>6. Comes(T, f, f)
    BY <1>3, <2>1, <2>5, ReadBrings, ComesFrom
  <2>7. Got(c, f)
    BY <2>1, <2>2, <2>4, <2>5, GotNothing
  <2>8. Aim(c, f) = f
    BY <2>4 DEF Aim
  <2>9. Shape(c)
    BY <2>4 DEF Shape
  <2>10. InCall(c, f)
    BY <1>3, <2>4, <2>6, <2>7, <2>8, <2>9 DEF InCall
  <2>11. Begin(p, c)
    BY <1>4, <2>1, <2>2, <2>3 DEF CallRead
  <2> QED
    BY <1>1, <2>4, <2>10, <2>11, FlatBegins
<1>5. ASSUME NEW off \in 0..MaxSize, NEW len \in 0..(MaxSize - off), NEW v \in Byte,
             CallWrite(p, off, len, v)
      PROVE  FlatInv' /\ Flat!Begin
  <2>1. PICK T : T = Transfer("write", off, len, v)
    OBVIOUS
  <2>2. PICK c : c = [Idle EXCEPT !.op = "write", !.phase = "stripes", !.off = off, !.len = len,
                                  !.val = v, !.todo = T]
    OBVIOUS
  <2>3. /\ c.op = "write" /\ c.phase = "stripes" /\ c.off = off /\ c.len = len /\ c.val = v
        /\ c.todo = T /\ c.n = 0 /\ c.buf = <<>>
    BY <2>2 DEF Idle
  <2>4. off \in Nat /\ len \in Nat /\ off + len <= MaxSize /\ off <= Len(f)
    BY <1>3, <1>5 DEF CallWrite
  <2>5. PICK g : g = Overwritten(f, off, len, v)
    OBVIOUS
  <2>6. Comes(T, f, g) /\ IsFlat(g)
    <3>1. Brings(T, f, g)
      BY <1>3, <2>1, <2>4, <2>5, WriteBrings
    <3>2. IsFlat(g)
      BY <1>3, <2>4, <2>5, OverwrittenFacts
    <3> QED
      BY <1>3, <3>1, <3>2, ComesFrom
  <2>7. Aim(c, f) = g
    BY <2>3, <2>5 DEF Aim
  <2>8. Shape(c)
    BY <2>3 DEF Shape
  <2>a. \A t \in T : t.kind # "read"
    BY <2>1 DEF Transfer, Task
  <2>9. InCall(c, f)
    BY <1>3, <2>3, <2>6, <2>7, <2>8, <2>a DEF InCall
  <2>10. Begin(p, c)
    BY <1>5, <2>1, <2>2 DEF CallWrite
  <2> QED
    BY <1>1, <2>3, <2>9, <2>10, FlatBegins
<1>6. ASSUME NEW op, NEW len, CallSearching(p, op, len), op \in {"size", "remove", "resize"},
             op \in {"size", "remove"} => len = 0,
             op = "resize" => len <= Len(f) \/ Len(f) % StripeSize = 0
      PROVE  FlatInv' /\ Flat!Begin
  <2>1. PICK c : c = [Idle EXCEPT !.op = op, !.phase = "search", !.len = len, !.asked = Instance]
    OBVIOUS
  <2>2. /\ c.op = op /\ c.phase = "search" /\ c.off = 0 /\ c.len = len /\ c.val = Zero
        /\ c.n = 0 /\ c.buf = <<>>
    BY <2>1 DEF Idle
  <2>3. Shape(c)
    BY <1>6, <2>2 DEF Shape
  <2>4. InCall(c, f)
    BY <1>3, <1>6, <2>2, <2>3 DEF InCall
  <2>5. Begin(p, c)
    BY <1>6, <2>1 DEF CallSearching
  <2> QED
    BY <1>1, <2>2, <2>4, <2>5, FlatBegins
<1>7. ASSUME NEW new \in 0..MaxSize, CallResize(p, new) PROVE FlatInv' /\ Flat!Begin
  <2>1. CallSearching(p, "resize", new) /\ (new <= Len(f) \/ Len(f) % StripeSize = 0)
    BY <1>3, <1>7 DEF CallResize
  <2> QED
    BY <1>6, <2>1
<1>8. CASE CallGetSize(p)
  BY <1>6, <1>8 DEF CallGetSize
<1>9. CASE CallRemove(p)
  BY <1>6, <1>9 DEF CallRemove
<1> QED
  BY <1>4, <1>5, <1>7, <1>8, <1>9 DEF Call

\* Resize reads no stripe.
LEMMA ResizeKinds ==
  ASSUME NEW cur, NEW new, NEW t \in ResizeTasks(cur, new)
  PROVE  t.kind # "read"
BY DEF ResizeTasks, RemoveTasks, ZeroByte, Task

\* The last stripe found is the last one there is, and gives the size of the file.
LEMMA SearchEnds ==
  ASSUME FoundInv, NEW p \in Proc, Searched(p)
  PROVE  /\ call[p].last = Last(Registered) /\ call[p].last \in Ids
         /\ \A id \in Registered : id <= call[p].last
         /\ Size = IF call[p].last < 0 THEN 0
                   ELSE call[p].last * StripeSize + Len(stripe[call[p].last])
<1>1. PICK l : l = call[p].last
  OBVIOUS
<1>2. Registered \in SUBSET Ids /\ MaxStripe \in Nat /\ TypeOK
  BY RegisteredIds, StoreAssumption DEF FoundInv, Inv
<1>3. l \in Registered \cup {-1} /\ \A id \in Registered : id <= l
  BY <1>1 DEF FoundInv, Sought, Searched
<1>4. PICK n : n = Last(Registered)
  OBVIOUS
<1>5. n \in Ids /\ n \in Registered \cup {-1} /\ \A id \in Registered : id <= n
  BY <1>2, <1>4, LastFacts
<1>6. l \in Ids /\ l = n
  BY <1>2, <1>3, <1>5 DEF Ids
<1>7. Size = IF l < 0 THEN 0 ELSE l * StripeSize + Len(stripe[l])
  BY <1>4, <1>6 DEF Size
<1> QED
  BY <1>1, <1>3, <1>4, <1>6, <1>7

\* A call that looks for the last stripe: it finds it, and starts what brings the
\* file where it is to be.
LEMMA FlatSearches ==
  ASSUME NEW p, Proc = {p}, FlatInv, FoundInv',
         \/ \E i \in Instance : SearchInstance(p, i)
         \/ SizeOfNone(p) \/ Strlen(p) \/ StartRemoving(p)
  PROVE  FlatInv' /\ UNCHANGED <<Visible, out>>
<1>1. PICK c : c = call[p]
  OBVIOUS
<1>2. PICK f : f = before[p]
  OBVIOUS
<1>3. c.phase = "search" /\ c # Idle /\ UNCHANGED <<redis, out, before>> /\ p \in Proc
  <2>1. c.phase = "search" /\ UNCHANGED <<redis, out, before>>
    BY <1>1 DEF SearchInstance, SizeOfNone, Strlen, StartRemoving, Searched
  <2> QED
    BY <2>1 DEF Idle
<1>4. /\ IsFlat(f) /\ Stands(f) /\ c \in Calls /\ Unlisted /\ FoundInv /\ call \in [Proc -> Calls]
      /\ before = [q \in Proc |-> before[q]] /\ Sought(p)
      /\ c.op = "resize" => c.len <= Len(f) \/ Len(f) % StripeSize = 0
  BY <1>1, <1>2, <1>3 DEF FlatInv, InCall, FoundInv, Inv, TypeOK
<1>5. /\ c.op \in {"size", "remove", "resize"} /\ c.val = Zero /\ c.off = 0 /\ c.buf = <<>>
      /\ c.op \in {"size", "remove"} => c.len = 0
      /\ c.op # "size" => c.n = 0
  <2>1. Shape(c)
    BY <1>1, <1>2, <1>3 DEF FlatInv, InCall
  <2> QED
    BY <1>3, <2>1 DEF Shape
<1>6. Size = Len(f) /\ Len(f) \in Nat /\ MaxSize \in Nat /\ Len(f) <= MaxSize
  <2>1. Size = Len(f)
    BY <1>4, ContentsAre
  <2> QED
    BY <1>4, <2>1, MaxSizeFacts DEF IsFlat
<1>7. ASSUME NEW d, d.phase # "none", call' = [call EXCEPT ![p] = d], InCall(d, f)
      PROVE  FlatInv' /\ UNCHANGED <<Visible, out>>
  <2>1. d = call'[p] /\ d # Idle /\ f = before'[p] /\ before' = [q \in Proc |-> before'[q]]
    BY <1>2, <1>3, <1>4, <1>7 DEF Idle
  <2>2. FlatInv'
    BY <1>3, <1>4, <1>7, <2>1, FlatLocal
  <2>3. Visible = f /\ Visible' = f
    BY <1>1, <1>2, <1>3, <2>1, VisibleIs
  <2> QED
    BY <1>3, <2>2, <2>3
<1>8. ASSUME NEW i \in Instance, SearchInstance(p, i) PROVE FlatInv' /\ UNCHANGED <<Visible, out>>
  <2>1. PICK l : l = Last(reg[i] \cup {c.last})
    OBVIOUS
  <2>2. PICK d : d = [c EXCEPT !.asked = @ \ {i}, !.last = l]
    OBVIOUS
  <2>3. call' = [call EXCEPT ![p] = d]
    BY <1>1, <1>4, <1>8, <2>1, <2>2 DEF SearchInstance
  <2>4. /\ d.op = c.op /\ d.phase = "search" /\ d.off = c.off /\ d.len = c.len /\ d.val = c.val
        /\ d.n = c.n /\ d.buf = c.buf
    BY <1>3, <1>4, <2>2 DEF Calls
  <2>5. Shape(d)
    BY <1>5, <2>4 DEF Shape
  <2>6. InCall(d, f)
    BY <1>4, <2>4, <2>5 DEF InCall
  <2> QED
    BY <1>7, <2>3, <2>4, <2>6
<1>9. ASSUME Sized(p, Len(f)), c.op # "remove" PROVE FlatInv' /\ UNCHANGED <<Visible, out>>
  <2>1. PICK T : T = IF c.op = "resize" THEN ResizeTasks(Len(f), c.len) ELSE {}
    OBVIOUS
  <2>2. PICK n : n = IF c.op = "size" THEN Len(f) ELSE 0
    OBVIOUS
  <2>3. PICK d : d = [c EXCEPT !.phase = "stripes", !.n = n, !.todo = T]
    OBVIOUS
  <2>4. call' = [call EXCEPT ![p] = d]
    BY <1>1, <1>4, <1>9, <2>1, <2>2, <2>3 DEF Sized
  <2>5. /\ d.op = c.op /\ d.phase = "stripes" /\ d.off = c.off /\ d.len = c.len /\ d.val = c.val
        /\ d.n = n /\ d.buf = c.buf /\ d.todo = T
    BY <1>4, <2>3 DEF Calls
  <2>6. Shape(d)
    BY <1>5, <2>2, <2>5 DEF Shape
  <2>7. Comes(T, f, Aim(d, f)) /\ IsFlat(Aim(d, f))
    <3>1. CASE c.op = "resize"
      <4>1. T = ResizeTasks(Len(f), c.len) /\ Aim(d, f) = Resized(f, c.len) /\ c.len \in 0..MaxSize
        BY <1>4, <2>1, <2>5, <3>1 DEF Aim, Calls
      <4>2. Brings(T, f, Resized(f, c.len)) /\ IsFlat(Resized(f, c.len))
        BY <1>4, <3>1, <4>1, ResizeBrings
      <4>3. PICK g : g = Resized(f, c.len)
        OBVIOUS
      <4>4. Comes(T, f, g)
        BY <1>4, <4>2, <4>3, ComesFrom
      <4> QED
        BY <4>1, <4>2, <4>3, <4>4
    <3>2. CASE c.op = "size"
      <4>1. T = {} /\ Aim(d, f) = f
        BY <2>1, <2>5, <3>2 DEF Aim
      <4>2. Comes({}, f, f)
        BY <1>4 DEF Stands, Comes
      <4> QED
        BY <1>4, <4>1, <4>2
    <3> QED
      BY <1>5, <1>9, <3>1, <3>2
  <2>a. \A t \in T : t.kind # "read"
    BY <2>1, ResizeKinds
  <2>8. InCall(d, f)
    BY <1>4, <1>5, <1>9, <2>2, <2>5, <2>6, <2>7, <2>a DEF InCall
  <2> QED
    BY <1>7, <2>4, <2>5, <2>8
<1>10. CASE SizeOfNone(p)
  <2>1. Searched(p) /\ c.last < 0 /\ c.op # "remove" /\ Sized(p, 0)
    BY <1>1, <1>10 DEF SizeOfNone
  <2>2. Len(f) = 0
    BY <1>1, <1>3, <1>4, <1>6, <2>1, SearchEnds
  <2> QED
    BY <1>9, <2>1, <2>2
<1>11. CASE Strlen(p)
  <2>1. PICK l : l = c.last
    OBVIOUS
  <2>2. Searched(p) /\ l >= 0 /\ c.op # "remove" /\ Sized(p, l * StripeSize + Len(stripe[l]))
    BY <1>1, <1>11, <2>1 DEF Strlen
  <2>3. l \in Ids /\ Size = IF l < 0 THEN 0 ELSE l * StripeSize + Len(stripe[l])
    BY <1>1, <1>3, <1>4, <2>1, <2>2, SearchEnds
  <2>4. Len(f) = l * StripeSize + Len(stripe[l])
    BY <1>6, <2>2, <2>3, StoreAssumption DEF Ids
  <2> QED
    BY <1>9, <2>2, <2>4
<1>12. CASE StartRemoving(p)
  <2>1. PICK l : l = c.last
    OBVIOUS
  <2>2. PICK T : T = RemoveTasks(0..l)
    OBVIOUS
  <2>3. PICK d : d = [c EXCEPT !.phase = "stripes", !.todo = T]
    OBVIOUS
  <2>4. Searched(p) /\ c.op = "remove" /\ call' = [call EXCEPT ![p] = d]
    BY <1>1, <1>4, <1>12, <2>1, <2>2, <2>3 DEF StartRemoving
  <2>5. /\ d.op = c.op /\ d.phase = "stripes" /\ d.off = c.off /\ d.len = c.len /\ d.val = c.val
        /\ d.n = c.n /\ d.buf = c.buf /\ d.todo = T
    BY <1>4, <2>3 DEF Calls
  <2>6. Shape(d)
    BY <1>5, <2>4, <2>5 DEF Shape
  <2>7. l \in Ids /\ \A id \in Registered : id <= l
    BY <1>1, <1>3, <1>4, <2>1, <2>4, SearchEnds
  <2>8. ASSUME NEW id \in 0..MaxStripe, id > l PROVE StripeOf(f, id) = <<>>
    <3>1. id \notin Registered
      BY <2>7, <2>8, StoreAssumption DEF Ids
    <3> QED
      BY <1>4, <3>1 DEF Unlisted, Stands
  <2>9. Brings(T, f, <<>>) /\ IsFlat(<<>>)
    BY <1>4, <2>2, <2>7, <2>8, RemoveBrings
  <2>10. Comes(T, f, <<>>) /\ Aim(d, f) = <<>>
    BY <1>4, <2>4, <2>5, <2>9, ComesFrom DEF Aim
  <2>a. \A t \in T : t.kind # "read"
    BY <2>2 DEF RemoveTasks, Task
  <2>11. InCall(d, f)
    BY <1>4, <1>5, <2>4, <2>5, <2>6, <2>9, <2>10, <2>a DEF InCall
  <2> QED
    BY <1>7, <2>4, <2>5, <2>11
<1> QED
  BY <1>8, <1>10, <1>11, <1>12

\* A goroutine does its stripe: the file is nearer to what the call is to make of it.
LEMMA FlatStripes ==
  ASSUME NEW p, Proc = {p}, FlatInv, FoundInv', NEW t \in call[p].todo,
         WriteStripe(p, t) \/ ReadStripe(p, t) \/ RemoveStripe(p, t) \/ TrimStripe(p, t)
  PROVE  FlatInv' /\ UNCHANGED <<Visible, out>>
<1>1. PICK c : c = call[p]
  OBVIOUS
<1>2. PICK f : f = before[p]
  OBVIOUS
<1>3. PICK T : T = c.todo
  OBVIOUS
<1>4. PICK g : g = Aim(c, f)
  OBVIOUS
<1>5. /\ TypeOK /\ Fits /\ RegisteredIsStored /\ FoundInv /\ Unlisted /\ p \in Proc
      /\ before = [q \in Proc |-> before[q]] /\ Sought(p) /\ c # Idle
      /\ UNCHANGED <<out, before>>
  <2>1. /\ TypeOK /\ Fits /\ RegisteredIsStored /\ FoundInv /\ Unlisted /\ p \in Proc
        /\ before = [q \in Proc |-> before[q]] /\ Sought(p)
    BY DEF FlatInv, FoundInv, Inv
  <2>2. c # Idle
    BY <1>1 DEF Idle
  <2>3. UNCHANGED <<out, before>>
    BY DEF WriteStripe, ReadStripe, RemoveStripe, TrimStripe, Doing
  <2> QED
    BY <2>1, <2>2, <2>3
<1>6. /\ c \in Calls /\ call \in [Proc -> Calls] /\ stripe \in [Ids -> Seq(Byte)]
      /\ reg \in [Instance -> SUBSET Ids] /\ t \in Tasks /\ t \in T /\ t.id \in Ids
      /\ \A u \in T : u \in Tasks /\ u.off + u.len <= StripeSize /\ (u.kind # "trim" => u.id >= 0)
      /\ Home[t.id] \in Instance
  <2>1. /\ c \in Calls /\ call \in [Proc -> Calls] /\ stripe \in [Ids -> Seq(Byte)]
        /\ reg \in [Instance -> SUBSET Ids]
    BY <1>1, <1>5 DEF TypeOK
  <2>2. \A u \in T : u \in Tasks /\ u.off + u.len <= StripeSize /\ (u.kind # "trim" => u.id >= 0)
    BY <1>1, <1>3, <1>5, <2>1 DEF Fits, Calls
  <2>3. t \in T /\ t \in Tasks /\ t.id \in Ids
    BY <1>1, <1>3, <2>2 DEF Tasks
  <2> QED
    BY <2>1, <2>2, <2>3, StoreAssumption
<1>7. /\ c.phase = "stripes" /\ IsFlat(f) /\ IsFlat(g) /\ Comes(T, f, g) /\ Shape(c)
      /\ c.op # "read" => \A u \in T : u.kind # "read"
      /\ c.op = "size" => c.n = Len(f)
      /\ c.op = "read" => Got(c, f)
  <2>1. c.phase = "stripes"
    <3>1. c.phase # "search"
      BY <1>1, <1>5 DEF Sought
    <3>2. InCall(c, f)
      BY <1>1, <1>2, <1>5 DEF FlatInv
    <3>3. Shape(c)
      BY <3>2 DEF InCall
    <3> QED
      BY <3>1, <3>3 DEF Shape
  <2> QED
    BY <1>1, <1>2, <1>3, <1>4, <1>5, <2>1 DEF FlatInv, InCall
<1>8. ASSUME NEW d, d.op = c.op, d.phase = c.phase, d.off = c.off, d.len = c.len, d.val = c.val,
             d.todo = T \ {t}, call' = [call EXCEPT ![p] = d], Shape(d),
             d.op = "size" => d.n = c.n, d.op = "read" => Got(d, f),
             Unlisted', Comes(T \ {t}, f, g)'
      PROVE  FlatInv' /\ UNCHANGED <<Visible, out>>
  <2>1. d = call'[p] /\ f = before'[p] /\ before' = [q \in Proc |-> before'[q]] /\ d # Idle
    BY <1>2, <1>5, <1>6, <1>7, <1>8 DEF Idle
  <2>2. Aim(d, f) = g
    BY <1>4, <1>8 DEF Aim
  <2>3. PICK a : a = Aim(d, f)
    OBVIOUS
  <2>4. InCall(d, f)'
    <3>1. IsFlat(f) /\ Shape(d) /\ d.phase = "stripes" /\ Comes(d.todo, f, a)' /\ IsFlat(a)
      BY <1>7, <1>8, <2>2, <2>3
    <3>2. /\ d.op # "read" => \A u \in d.todo : u.kind # "read"
          /\ d.op = "size" => d.n = Len(f)
          /\ d.op = "read" => Got(d, f)
      BY <1>7, <1>8
    <3> QED
      BY <2>3, <3>1, <3>2 DEF InCall
  <2>5. FlatInv'
    BY <1>8, <2>1, <2>4 DEF FlatInv
  <2>6. Visible = f /\ Visible' = f
    BY <1>1, <1>2, <1>5, <2>1, VisibleIs
  <2> QED
    BY <1>5, <2>5, <2>6
<1>9. ASSUME Done(p, t), Unlisted', t.kind # "read",
             stripe' = [stripe EXCEPT ![t.id] = Effect(t, stripe[t.id])]
      PROVE  FlatInv' /\ UNCHANGED <<Visible, out>>
  <2>1. PICK d : d = [c EXCEPT !.todo = T \ {t}]
    OBVIOUS
  <2>2. call' = [call EXCEPT ![p] = d]
    BY <1>1, <1>3, <1>6, <1>9, <2>1 DEF Done
  <2>3. /\ d.op = c.op /\ d.phase = c.phase /\ d.off = c.off /\ d.len = c.len /\ d.val = c.val
        /\ d.n = c.n /\ d.buf = c.buf /\ d.todo = T \ {t}
    BY <1>6, <2>1 DEF Calls
  <2>4. c.op # "read"
    BY <1>3, <1>6, <1>7, <1>9 DEF Got
  <2>5. Shape(d)
    BY <1>7, <2>3 DEF Shape
  <2>6. Comes(T \ {t}, f, g)'
    BY <1>6, <1>7, <1>9, ComesOn
  <2> QED
    BY <1>8, <1>9, <2>2, <2>3, <2>4, <2>5, <2>6
<1>10. CASE WriteStripe(p, t)
  <2>1. /\ Done(p, t) /\ t.kind = "write"
        /\ reg' = [reg EXCEPT ![Home[t.id]] = @ \cup {t.id}]
    BY <1>10 DEF WriteStripe, Doing
  <2>2. stripe' = [stripe EXCEPT ![t.id] = Effect(t, stripe[t.id])]
    BY <1>10, <2>1 DEF WriteStripe, Effect
  <2>3. Unlisted'
    <3> SUFFICES ASSUME NEW id \in 0..MaxStripe, id \notin Registered' PROVE stripe'[id] = <<>>
      BY DEF Unlisted
    <3>1. t.id \in Registered' /\ Registered \subseteq Registered'
      BY <1>6, <2>1 DEF Registered
    <3> QED
      BY <1>5, <1>6, <2>2, <3>1 DEF Unlisted
  <2> QED
    BY <1>9, <2>1, <2>2, <2>3
<1>11. CASE RemoveStripe(p, t)
  <2>1. /\ Done(p, t) /\ t.kind = "remove"
        /\ reg' = [reg EXCEPT ![Home[t.id]] = @ \ {t.id}]
    BY <1>11 DEF RemoveStripe, Doing
  <2>2. stripe' = [stripe EXCEPT ![t.id] = <<>>]
    BY <1>11 DEF RemoveStripe
  <2>3. Effect(t, stripe[t.id]) = <<>>
    BY <2>1 DEF Effect
  <2>4. Unlisted'
    <3> SUFFICES ASSUME NEW id \in 0..MaxStripe, id \notin Registered' PROVE stripe'[id] = <<>>
      BY DEF Unlisted
    <3>1. id \in Ids
      BY StoreAssumption DEF Ids
    <3>2. id # t.id => id \notin Registered
      BY <1>6, <2>1 DEF Registered
    <3> QED
      BY <1>5, <1>6, <2>2, <3>1, <3>2 DEF Unlisted
  <2> QED
    BY <1>9, <2>1, <2>2, <2>3, <2>4
<1>12. CASE TrimStripe(p, t)
  <2>1. Done(p, t) /\ t.kind = "trim" /\ UNCHANGED reg
    BY <1>12 DEF TrimStripe, Doing
  <2>2. stripe' = [stripe EXCEPT ![t.id] = Effect(t, stripe[t.id])]
    BY <1>12, <2>1 DEF TrimStripe, Effect
  <2>3. t.id # -1 => t.id \in Registered
    <3>1. PICK m \in Ids : Whole(p, m)
      BY <1>5 DEF FoundInv
    <3> QED
      BY <2>1, <3>1 DEF Whole
  <2>4. Unlisted'
    <3> SUFFICES ASSUME NEW id \in 0..MaxStripe, id \notin Registered' PROVE stripe'[id] = <<>>
      BY DEF Unlisted
    <3>1. Registered' = Registered /\ id # -1
      BY <2>1, StoreAssumption DEF Registered
    <3>2. id # t.id
      BY <2>3, <3>1
    <3> QED
      BY <1>5, <1>6, <2>2, <3>1, <3>2 DEF Unlisted
  <2> QED
    BY <1>9, <2>1, <2>2, <2>4
<1>13. CASE ReadStripe(p, t)
  <2>1. PICK got : got = GetRange(stripe[t.id], t.off, t.len)
    OBVIOUS
  <2>2. PICK b : b = [k \in DOMAIN c.buf |->
                        IF t.pos < k /\ k <= t.pos + Len(got) THEN got[k - t.pos] ELSE c.buf[k]]
    OBVIOUS
  <2>3. PICK d : d = [c EXCEPT !.todo = T \ {t}, !.n = c.n + Len(got), !.buf = b]
    OBVIOUS
  <2>4. t.kind = "read" /\ UNCHANGED redis /\ call' = [call EXCEPT ![p] = d]
    BY <1>1, <1>3, <1>6, <1>13, <2>1, <2>2, <2>3 DEF ReadStripe, Doing
  <2>5. /\ d.op = c.op /\ d.phase = c.phase /\ d.off = c.off /\ d.len = c.len /\ d.val = c.val
        /\ d.n = c.n + Len(got) /\ d.buf = b /\ d.todo = T \ {t}
    BY <1>6, <2>3 DEF Calls
  <2>6. c.op = "read" /\ Got(c, f) /\ g = f
    BY <1>4, <1>6, <1>7, <2>4 DEF Aim
  <2>7. Shape(d)
    BY <1>7, <2>5, <2>6 DEF Shape
  <2>8. DOMAIN c.buf = 1..c.len
    <3>1. c.buf \in Seq(Byte \cup {NoByte}) /\ Len(c.buf) = c.len
      BY <1>6, <2>6 DEF Calls, Got
    <3> QED
      BY <3>1
  <2>9. \A u \in T : u.off + u.len <= StripeSize /\ u.id \in 0..MaxStripe
    <3>1. \A u \in T : u.kind = "read"
      BY <1>3, <2>6 DEF Got
    <3>2. \A u \in T : u.off + u.len <= StripeSize /\ u.id >= 0 /\ u.id \in Ids
      BY <1>6, <3>1 DEF Tasks
    <3> QED
      BY <3>2, StoreAssumption DEF Ids
  <2>10. Got(d, f)
    <3>1. /\ \A u \in c.todo : u.off + u.len <= StripeSize /\ u.id \in 0..MaxStripe
          /\ Comes(c.todo, f, f) /\ Got(c, f) /\ t \in c.todo /\ IsFlat(f) /\ c \in Calls
      BY <1>3, <1>6, <1>7, <2>6, <2>9
    <3>2. /\ d.todo = c.todo \ {t} /\ d.off = c.off /\ d.len = c.len /\ d.n = c.n + Len(got)
          /\ d.buf = [k \in 1..c.len |->
                        IF t.pos < k /\ k <= t.pos + Len(got) THEN got[k - t.pos] ELSE c.buf[k]]
      BY <1>3, <2>2, <2>5, <2>8
    <3> QED
      BY ONLY <2>1, <3>1, <3>2, GotMore
  <2>11. stripe' = stripe /\ Registered' = Registered
    BY <2>4 DEF redis, Registered
  <2>12. Unlisted'
    BY <1>5, <2>11 DEF Unlisted
  <2>13. Comes(T \ {t}, f, g)'
    <3>1. stripe' = [stripe EXCEPT ![t.id] = Effect(t, stripe[t.id])]
      BY <1>6, <2>4, <2>11 DEF Effect
    <3> QED
      BY <1>6, <1>7, <3>1, ComesOn
  <2> QED
    BY <1>8, <2>4, <2>5, <2>6, <2>7, <2>10, <2>12, <2>13
<1> QED
  BY <1>10, <1>11, <1>12, <1>13

\* A call returns: the stripes hold what it was to make of the file, and that is what
\* the call of FlatFile with the same arguments makes of it.
LEMMA FlatReturns ==
  ASSUME NEW p, Proc = {p}, FlatInv, FoundInv', Return(p)
  PROVE  FlatInv' /\ Flat!Next
<1>1. PICK c : c = call[p]
  OBVIOUS
<1>2. PICK f : f = before[p]
  OBVIOUS
<1>3. PICK g : g = Aim(c, f)
  OBVIOUS
<1>4. /\ c.phase = "stripes" /\ c.todo = {} /\ c # Idle /\ UNCHANGED redis /\ p \in Proc
      /\ out' = [op |-> c.op, off |-> c.off, len |-> c.len, val |-> c.val, n |-> c.n, buf |-> c.buf]
      /\ call' = [call EXCEPT ![p] = Idle] /\ before' = [before EXCEPT ![p] = <<>>]
  <2>1. c.phase = "stripes" /\ c.todo = {} /\ UNCHANGED redis
    BY <1>1 DEF Return
  <2>2. c # Idle
    BY <2>1 DEF Idle
  <2> QED
    BY <1>1, <2>1, <2>2 DEF Return
<1>5. /\ c \in Calls /\ call'[p] = Idle /\ FoundInv /\ Unlisted /\ InCall(c, f)
      /\ before' = [q \in Proc |-> before'[q]]
  <2>1. call \in [Proc -> Calls] /\ FoundInv /\ Unlisted /\ before = [q \in Proc |-> before[q]]
    BY DEF FlatInv, FoundInv, Inv, TypeOK
  <2>2. InCall(c, f)
    BY <1>1, <1>2, <1>4 DEF FlatInv
  <2> QED
    BY <1>1, <1>4, <2>1, <2>2
<1>6. /\ IsFlat(f) /\ IsFlat(g) /\ Shape(c) /\ Comes({}, f, g)
      /\ c.op = "size" => c.n = Len(f)
      /\ c.op = "read" => Got(c, f)
  BY <1>3, <1>4, <1>5 DEF InCall
<1>7. Stands(g) /\ Contents = g
  BY <1>5, <1>6, ComesTo, ContentsAre
<1>8. Contents' = g /\ stripe' = stripe /\ Registered' = Registered
  <2>1. Contents' = Contents
    BY <1>4 DEF redis, Contents, Size, Registered
  <2> QED
    BY <1>4, <1>7, <2>1 DEF redis, Registered
<1>9. FlatInv'
  <2>1. Unlisted'
    BY <1>5, <1>8 DEF Unlisted
  <2>2. Stands(g)'
    BY <1>7, <1>8 DEF Stands
  <2>3. IsFlat(Contents') /\ Stands(Contents)'
    BY <1>6, <1>8, <2>2
  <2> QED
    BY <1>5, <2>1, <2>3 DEF FlatInv
<1>10. Visible = f /\ Visible' = g
  BY <1>1, <1>2, <1>4, <1>5, <1>8, VisibleIs
<1>11. /\ c.off \in 0..MaxSize /\ c.len \in 0..MaxSize /\ c.val \in Byte
       /\ c.op \in {"write", "read", "size", "remove", "resize"}
       /\ c.op # "write" => c.val = Zero
       /\ c.op \notin {"write", "read"} => c.off = 0
       /\ c.op \in {"size", "remove"} => c.len = 0
       /\ c.op # "read" => c.buf = <<>>
       /\ c.op \notin {"read", "size"} => c.n = 0
  BY <1>4, <1>5, <1>6 DEF Calls, Shape
<1>12. CASE c.op = "write"
  <2>1. g = Overwritten(f, c.off, c.len, c.val)
    BY <1>3, <1>12 DEF Aim
  <2>2. Flat!Write(c.off, c.len, c.val)
    BY <1>4, <1>10, <1>11, <1>12, <2>1 DEF Flat!Write, Flat!Returned, Flat!ByteAt, Overwritten
  <2> QED
    BY <1>9, <1>11, <2>2 DEF Flat!Next
<1>13. CASE c.op = "read"
  <2>1. g = f
    BY <1>3, <1>13 DEF Aim
  <2>2. /\ c.buf = [k \in 1..c.len |-> IF c.off + k <= Len(f) THEN f[c.off + k] ELSE NoByte]
        /\ c.n = IF c.off >= Len(f) THEN 0
                 ELSE IF c.off + c.len <= Len(f) THEN c.len ELSE Len(f) - c.off
    BY <1>4, <1>5, <1>6, <1>13, GotAll DEF Wanted
  <2>3. Flat!Read(c.off, c.len)
    BY <1>4, <1>10, <1>11, <1>13, <2>1, <2>2 DEF Flat!Read, Flat!Returned
  <2> QED
    BY <1>9, <1>11, <2>3 DEF Flat!Next
<1>14. CASE c.op = "size"
  <2>1. g = f /\ c.n = Len(f)
    BY <1>3, <1>6, <1>14 DEF Aim
  <2>2. Flat!GetSize
    BY <1>4, <1>10, <1>11, <1>14, <2>1 DEF Flat!GetSize, Flat!Returned
  <2> QED
    BY <1>9, <2>2 DEF Flat!Next
<1>15. CASE c.op = "remove"
  <2>1. g = <<>>
    BY <1>3, <1>15 DEF Aim
  <2>2. Flat!Remove
    BY <1>4, <1>10, <1>11, <1>15, <2>1 DEF Flat!Remove, Flat!Returned
  <2> QED
    BY <1>9, <2>2 DEF Flat!Next
<1>16. CASE c.op = "resize"
  <2>1. g = Resized(f, c.len)
    BY <1>3, <1>16 DEF Aim
  <2>2. Flat!Resize(c.len)
    BY <1>4, <1>10, <1>11, <1>16, <2>1 DEF Flat!Resize, Flat!Returned, Flat!Upto, Flat!ByteAt, Resized
  <2> QED
    BY <1>9, <1>11, <2>2 DEF Flat!Next
<1> QED
  BY <1>9, <1>11, <1>12, <1>13, <1>14, <1>15, <1>16

\* The store is empty at first.
LEMMA FlatInit ==
  ASSUME Lone, Init
  PROVE  FlatInv /\ Flat!Init
<1>1. PICK p : Proc = {p}
  BY DEF Lone
<1>2. FoundInv
  BY InitFound DEF Lone, Alone
<1>3. /\ stripe = [id \in Ids |-> <<>>] /\ Registered = {} /\ call[p] = Idle /\ out = None
      /\ before = [q \in Proc |-> before[q]] /\ MaxStripe \in Nat
  BY <1>1, StoreAssumption DEF Init, Registered
<1>4. Unlisted
  BY <1>3 DEF Unlisted, Ids
<1>5. IsFlat(<<>>) /\ Stands(<<>>)
  <2>1. MaxSize \in Nat /\ StripeSize \in Nat
    BY MaxSizeFacts, StripeSizeAssumption
  <2>2. IsFlat(<<>>)
    BY <2>1 DEF IsFlat
  <2>3. ASSUME NEW id \in 0..MaxStripe PROVE stripe[id] = StripeOf(<<>>, id)
    <3>1. Portion(<<>>, id) = 0
      BY <2>2, StripeFacts, <1>3, <2>1
    <3> QED
      BY <1>3, <2>2, <3>1, EmptyStripe DEF Ids
  <2> QED
    BY <2>2, <2>3 DEF Stands
<1>6. Contents = <<>>
  BY <1>2, <1>4, <1>5, ContentsAre
<1>7. FlatInv
  BY <1>1, <1>2, <1>3, <1>4, <1>5, <1>6 DEF FlatInv
<1>8. Visible = <<>>
  BY <1>1, <1>3, <1>6, VisibleIs
<1>9. Flat!None = None
  BY DEF Flat!None, None
<1> QED
  BY <1>3, <1>7, <1>8, <1>9 DEF Flat!Init

\* Every step of the store is one of the flat file, or none.
LEMMA FlatNext ==
  ASSUME Lone, FlatInv, [Next]_vars
  PROVE  FlatInv' /\ [Flat!Next]_(Flat!vars)
<1>1. PICK p : Proc = {p}
  BY DEF Lone
<1>2. FoundInv'
  BY NextFound DEF Lone, Alone, FlatInv
<1>3. CASE UNCHANGED vars
  <2>1. UNCHANGED <<reg, stored, stripe, call, out, before>>
    BY <1>3 DEF vars
  <2>2. Registered' = Registered /\ Contents' = Contents
    BY <2>1 DEF Contents, Size, Registered
  <2>3. Unlisted'
    BY <2>1, <2>2 DEF FlatInv, Unlisted
  <2>4. before' = [q \in Proc |-> before'[q]]
    BY <2>1 DEF FlatInv
  <2>5. CASE call[p] = Idle
    <3>1. Stands(Contents)' /\ IsFlat(Contents')
      BY <1>1, <2>1, <2>2, <2>5 DEF FlatInv, Stands
    <3> QED
      BY <1>1, <1>2, <2>1, <2>2, <2>3, <2>4, <2>5, <3>1, VisibleIs DEF FlatInv, Flat!vars
  <2>6. CASE call[p] # Idle
    <3>1. PICK c, f : c = call[p] /\ f = before[p]
      OBVIOUS
    <3>2. InCall(c, f)
      BY <1>1, <2>6, <3>1 DEF FlatInv
    <3>3. FlatInv'
      BY <1>1, <1>2, <2>1, <2>4, <2>6, <3>1, <3>2, FlatLocal DEF redis, FlatInv
    <3> QED
      BY <1>1, <2>1, <2>6, <3>3, VisibleIs DEF Flat!vars
  <2> QED
    BY <2>5, <2>6
<1>4. CASE Call(p)
  <2>1. FlatInv' /\ Flat!Begin
    BY <1>1, <1>2, <1>4, FlatStarts
  <2> QED
    BY <2>1 DEF Flat!Next
<1>5. ASSUME \/ \E i \in Instance : SearchInstance(p, i)
             \/ SizeOfNone(p) \/ Strlen(p) \/ StartRemoving(p)
      PROVE  FlatInv' /\ [Flat!Next]_(Flat!vars)
  <2>1. FlatInv' /\ UNCHANGED <<Visible, out>>
    BY <1>1, <1>2, <1>5, FlatSearches
  <2> QED
    BY <2>1 DEF Flat!vars
<1>6. ASSUME NEW t \in call[p].todo,
             WriteStripe(p, t) \/ ReadStripe(p, t) \/ RemoveStripe(p, t) \/ TrimStripe(p, t)
      PROVE  FlatInv' /\ [Flat!Next]_(Flat!vars)
  <2>1. FlatInv' /\ UNCHANGED <<Visible, out>>
    BY <1>1, <1>2, <1>6, FlatStripes
  <2> QED
    BY <2>1 DEF Flat!vars
<1>7. CASE Return(p)
  BY <1>1, <1>2, <1>7, FlatReturns
<1>8. CASE Step(p)
  BY <1>5, <1>6, <1>7, <1>8 DEF Step
<1>9. ~ Crash(p)
  BY DEF Lone, Crash
<1> QED
  BY <1>1, <1>3, <1>4, <1>8, <1>9 DEF Next

\* A lone process that leaves no gap and grows no stripe that is part full sees a flat
\* file: whatever the goroutines of a call interleave to, it is one step that writes,
\* reads, measures, empties or resizes the file as the same call of FlatFile does.
\* Transfers have at most InitialCap stripes: ReadAt of more counts bytes of stripe 0
\* that it does not read (store.go:78).
THEOREM StoreIsFlat == Lone /\ Spec => IsFlatFile
<1>1. CASE Lone
  <2>1. Init => FlatInv /\ Flat!Init
    BY <1>1, FlatInit
  <2>2. FlatInv /\ [Next]_vars => FlatInv' /\ [Flat!Next]_(Flat!vars)
    BY <1>1, FlatNext
  <2> QED
    BY <2>1, <2>2, PTL DEF Spec, IsFlatFile, Flat!Spec
<1> QED
  BY <1>1
=============================================================================
