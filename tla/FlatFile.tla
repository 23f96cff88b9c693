------------------------------ MODULE FlatFile ------------------------------
(***************************************************************************)
(* What the store promises of one name: a flat sequence of bytes on which  *)
(* every call is one step (redisfs.DataStore, "flat sequences of bytes     *)
(* stripped accross instances").  out is the last call that returned, with *)
(* its arguments and its result, None while another is under way.          *)
(***************************************************************************)
EXTENDS Integers, Sequences

CONSTANTS Byte, Zero, NoByte, Offsets, Lengths
VARIABLES file, out
vars == <<file, out>>

ByteAt(k) == IF k <= Len(file) THEN file[k] ELSE Zero
Upto(n)   == [k \in 1..n |-> ByteAt(k)]
Returned(op, off, len, val, n, buf) ==
  out' = [op |-> op, off |-> off, len |-> len, val |-> val, n |-> n, buf |-> buf]

None == [op |-> "none", off |-> 0, len |-> 0, val |-> Zero, n |-> 0, buf |-> <<>>]
Init == file = <<>> /\ out = None
Begin == out' = None /\ UNCHANGED file

Write(off, len, v) ==
  LET size == IF len > 0 /\ off + len > Len(file) THEN off + len ELSE Len(file)
  IN  /\ Returned("write", off, len, v, 0, <<>>)
      /\ file' = [k \in 1..size |-> IF off < k /\ k <= off + len THEN v ELSE ByteAt(k)]

\* the bytes from off up to len of them or to the end of the file
Read(off, len) ==
  /\ Returned("read", off, len, Zero,
       IF off >= Len(file) THEN 0 ELSE IF off + len <= Len(file) THEN len ELSE Len(file) - off,
       [k \in 1..len |-> IF off + k <= Len(file) THEN file[off + k] ELSE NoByte])
  /\ UNCHANGED file

GetSize   == Returned("size", 0, 0, Zero, Len(file), <<>>) /\ UNCHANGED file
Remove    == Returned("remove", 0, 0, Zero, 0, <<>>) /\ file' = <<>>
Resize(n) == Returned("resize", 0, n, Zero, 0, <<>>) /\ file' = Upto(n)

Next == \/ \E off \in Offsets, len \in Lengths :
             Read(off, len) \/ \E v \in Byte : Write(off, len, v)
        \/ \E n \in Lengths : Resize(n)
        \/ GetSize \/ Remove \/ Begin
Spec == Init /\ [][Next]_vars
=============================================================================
