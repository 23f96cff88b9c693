-------------------------- MODULE MCDisjointWriters --------------------------
EXTENDS DisjointWriters
CONSTANTS p, q, i0, i1
MCHome == [id \in Ids |-> IF id % 2 = 0 THEN i0 ELSE i1]
\* stripes of 3 bytes: the segments meet inside stripe 0, q's ends in stripe 1
MCSegment == [r \in Proc |-> IF r = p THEN {0, 1} ELSE {2, 3, 4}]
\* all but the history no property reads: of before, the size found by a GetSize
NoHistory == <<redis, call, wrote,
  [r \in Proc |-> IF call[r].op = "size" THEN Len(before[r]) ELSE 0]>>
=============================================================================
