--------------------------- MODULE DisjointWriters ---------------------------
(***************************************************************************)
(* The processes of a parallel program on one shared file, each writing    *)
(* and reading its own segment of it (the N-to-1 pattern pdwfs is for:     *)
(* README.md, "ior ... -a MPIIO", segments of one file).  Segments need    *)
(* not be aligned with stripes, so that one stripe has several writers.    *)
(***************************************************************************)
EXTENDS DataStore

CONSTANT Segment            \* Segment[p]: the offsets process p transfers
ASSUME SegmentAssumption ==
  /\ Segment \in [Proc -> SUBSET (0..(MaxSize - 1))]
  /\ \A p, q \in Proc : p # q => Segment[p] \cap Segment[q] = {}

VARIABLE wrote              \* wrote[p][b]: the last byte p wrote at offset b
dvars == <<vars, wrote>>

DInit == Init /\ wrote = [p \in Proc |-> [b \in Segment[p] |-> NoByte]]

Span(off, len) == off..(off + len - 1)
Starting(p) ==
  \/ CallGetSize(p)
  \/ \E off, len \in 0..MaxSize :
       /\ len > 0 /\ Span(off, len) \subseteq Segment[p]
       /\ CallRead(p, off, len) \/ \E v \in Byte : CallWrite(p, off, len, v)
Returning(p) ==
  /\ Return(p)
  /\ wrote' = [wrote EXCEPT ![p] = [b \in Segment[p] |->
       IF call[p].op = "write" /\ b \in Span(call[p].off, call[p].len)
       THEN call[p].val ELSE @[b]]]
Working(p) == Step(p) /\ ~Return(p)

DNext == \E p \in Proc : \/ (Starting(p) \/ Working(p)) /\ UNCHANGED wrote
                         \/ Returning(p)
DSpec == DInit /\ [][DNext]_dvars

\* Between two calls of a process its segment holds what it wrote there last,
\* whatever the others are writing in the same stripes: SETRANGE is one command,
\* and SET is for whole stripes only (writeStripe).
NoLostWrite ==
  \A p \in Proc : call[p] = Idle =>
    \A b \in Segment[p] : wrote[p][b] # NoByte =>
      /\ b < Size
      /\ Contents[b + 1] = wrote[p][b]

\* A process that reads back bytes of its segment gets them, and in their place,
\* while the others write and the stripes are read one by one.
ReadsOwnWrites ==
  [][\A p \in Proc : Returns(p, "read") =>
       \A k \in 1..call[p].len :
         LET w == wrote[p][call[p].off + k - 1]
         IN  w # NoByte => call[p].buf[k] = w]_dvars
=============================================================================
