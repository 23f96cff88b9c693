-------------------------- MODULE PvTransferProofs --------------------------
(***************************************************************************)
(* For any files and options: what pv has passed on is in order, within    *)
(* its limits, and all there is when it ends without a sign of an error.   *)
(***************************************************************************)
EXTENDS PvTransfer, FiniteSetTheorems, SequenceTheorems, WellFoundedInduction, TLAPS

Byte == [file : Nat, at : Nat, zero : BOOLEAN]

\* The greatest of a bounded set of numbers is one of them.
LEMMA MaxFacts ==
  ASSUME NEW m \in Nat, NEW T \in SUBSET (1..m), T # {}
  PROVE  Max(T) \in T /\ \A x \in T : x <= Max(T)
<1> DEFINE U == {i \in Nat : \A x \in T : x <= i}
<1>1. m \in U
  OBVIOUS
<1>2. PICK i \in U : \A k \in U : <<k, i>> \notin OpToRel(<, Nat)
  <2>1. U \subseteq Nat /\ U # {}
    BY <1>1
  <2> QED
    BY <2>1, WFMin, NatLessThanWellFounded, Zenon
<1>3. \A k \in U : ~(k < i)
  BY <1>2 DEF OpToRel
<1>4. i \in T
  <2>1. SUFFICES ASSUME i \notin T PROVE FALSE
    OBVIOUS
  <2>2. PICK x \in T : TRUE
    OBVIOUS
  <2>3. i \in Nat /\ \A y \in T : y \in Nat /\ y <= i /\ y # i /\ y >= 1
    BY <2>1
  <2>4. i - 1 \in U
    BY <2>2, <2>3
  <2> QED
    BY <1>3, <2>3, <2>4
<1>5. \A x \in T : i >= x
  BY <1>2
<1> QED
  BY <1>4, <1>5 DEF Max

\* What is skipped is something, and not more than there is room for.
LEMMA SkipFacts ==
  ASSUME NEW errors \in Nat, NEW at \in Nat, NEW room \in Nat \ {0}
  PROVE  Skip(errors, at, room) \in 1..room
<1>1. ASSUME NEW a \in Nat \ {0} PROVE AtMost(a - (at % a), room) \in 1..room
  <2>1. at % a \in 0..a - 1
    OBVIOUS
  <2> QED
    BY <2>1 DEF AtMost
<1> DEFINE amount == CASE errors < 5        -> 1
                       [] errors \in 5..9   -> 2
                       [] errors \in 10..19 -> Shifted[errors - 9]
                       [] OTHER             -> 512
<1>2. amount \in Nat \ {0}
  <2>1. CASE errors < 5 \/ errors \in 5..9
    BY <2>1
  <2>2. CASE errors \in 10..19
    <3>1. errors - 9 \in 1..10
      BY <2>2
    <3>2. \A i \in 1..10 : Shifted[i] \in Nat \ {0}
      BY DEF Shifted
    <3> QED
      BY <2>2, <3>1, <3>2
  <2>3. CASE errors >= 20
    <3>1. errors \notin 5..9 /\ errors \notin 10..19 /\ ~(errors < 5)
      BY <2>3
    <3> QED
      BY <3>1
  <2> QED
    BY <2>1, <2>2, <2>3
<1>3. Skip(errors, at, room) = AtMost(amount - (at % amount), room)
  BY DEF Skip
<1> HIDE DEF amount
<1> QED
  BY <1>1, <1>2, <1>3

-----------------------------------------------------------------------------
(* Types *)

Types == /\ files \in Inputs /\ opt \in Options
         /\ pc \in {"open", "loop", "select", "read", "write", "count", "end"}
         /\ n \in 1..Len(files) /\ pos \in Nat
         /\ buf \in Seq(Byte) /\ out \in Seq(Byte)
         /\ rate \in Nat /\ target \in Int /\ allowed \in Int /\ to_write \in Int
         /\ written \in Nat /\ lines \in Nat /\ total \in Nat /\ read_errors \in Nat

LEMMA CallFacts ==
  ASSUME files \in Inputs, opt \in Options
  PROVE  /\ Len(files) \in Nat \ {0}
         /\ \A f \in 1..Len(files) : files[f].cells \in Seq(STRING) /\ Len(files[f].cells) \in Nat
         /\ opt.rate \in Nat /\ opt.size \in Nat
         /\ opt.line \in BOOLEAN /\ opt.stop \in BOOLEAN /\ opt.skip \in BOOLEAN
<1> DEFINE TheFiles == [cells : Cells, kind : STRING, fails : SUBSET Nat]
<1>1. files # <<>> /\ files \in Seq(TheFiles)
  BY InputsAssumption
<1>2. Len(files) \in Nat \ {0}
  BY <1>1, EmptySeq
<1>3. ASSUME NEW f \in 1..Len(files) PROVE files[f].cells \in Seq(STRING)
  <2>1. files[f] \in TheFiles
    BY <1>1, <1>3, ElementOfSeq
  <2> QED
    BY <2>1 DEF Cells
<1>4. opt \in [line : BOOLEAN, splice : BOOLEAN, skip : BOOLEAN, rate : Nat, stop : BOOLEAN, size : Nat]
  BY OptionsAssumption
<1>5. ASSUME NEW f \in 1..Len(files) PROVE Len(files[f].cells) \in Nat
  BY <1>3, LenProperties
<1> QED
  BY <1>2, <1>3, <1>4, <1>5

\* Counting lines gives a number, of not more than there are bytes.
LEMMA LinesFacts ==
  ASSUME NEW s \in Seq(Byte)
  PROVE  /\ LineEnds(s) \subseteq 1..Len(s) /\ IsFiniteSet(LineEnds(s))
         /\ Lines(s) \in Nat /\ Lines(s) <= Len(s)
<1>1. LineEnds(s) \subseteq 1..Len(s) /\ Len(s) \in Nat
  BY DEF LineEnds
<1>2. IsFiniteSet(1..Len(s)) /\ Cardinality(1..Len(s)) = Len(s)
  <2>1. 0 \in Int /\ 1 \in Int /\ Len(s) \in Int
    BY <1>1
  <2>2. IsFiniteSet(1..Len(s)) /\ Cardinality(1..Len(s)) = IF 1 > Len(s) THEN 0 ELSE Len(s) - 1 + 1
    BY <2>1, FS_Interval
  <2> QED
    BY <1>1, <2>2
<1>3. IsFiniteSet(LineEnds(s)) /\ Cardinality(LineEnds(s)) <= Cardinality(1..Len(s))
  BY <1>1, <1>2, FS_Subset
<1>4. Cardinality(LineEnds(s)) \in Nat
  BY <1>3, FS_CardinalityType
<1> QED
  BY <1>1, <1>2, <1>3, <1>4 DEF Lines

LEMMA ToLineFacts ==
  ASSUME buf \in Seq(Byte), to_write \in Int, to_write > 0, to_write <= Len(buf)
  PROVE  ToLine \in 1..to_write
<1> DEFINE ends == LineEnds(SubSeq(buf, 1, to_write))
<1>1. SubSeq(buf, 1, to_write) \in Seq(Byte) /\ Len(SubSeq(buf, 1, to_write)) = to_write
  BY SubSeqProperties
<1>2. ends \subseteq 1..to_write
  BY <1>1 DEF LineEnds
<1>3. ASSUME ends # {} PROVE Max(ends) \in 1..to_write
  <2>1. to_write \in Nat
    OBVIOUS
  <2> HIDE DEF ends
  <2>2. Max(ends) \in ends
    BY <1>2, <1>3, <2>1, MaxFacts
  <2> QED
    BY <1>2, <2>2
<1>4. ToLine = IF opt.line /\ ends # {} THEN Max(ends) ELSE to_write
  BY DEF ToLine
<1> HIDE DEF ends
<1> QED
  BY <1>3, <1>4

LEMMA CellsFacts ==
  ASSUME n \in Nat, NEW from \in Nat, NEW k \in Nat, NEW z \in BOOLEAN
  PROVE  /\ CellsAt(from, k, z) \in Seq(Byte) /\ Len(CellsAt(from, k, z)) = k
         /\ \A i \in 1..k : CellsAt(from, k, z)[i] = [file |-> n, at |-> from + i, zero |-> z]
<1>1. \A i \in 1..k : [file |-> n, at |-> from + i, zero |-> z] \in Byte
  BY DEF Byte
<1>2. CellsAt(from, k, z) \in [1..k -> Byte]
  BY <1>1 DEF CellsAt
<1> QED
  BY <1>2 DEF CellsAt

\* Cutting the buffer in two.
LEMMA CutFacts ==
  ASSUME NEW s \in Seq(Byte), NEW k \in 0..Len(s)
  PROVE  /\ SubSeq(s, 1, k) \in Seq(Byte) /\ Len(SubSeq(s, 1, k)) = k
         /\ \A i \in 1..k : SubSeq(s, 1, k)[i] = s[i]
         /\ SubSeq(s, k + 1, Len(s)) \in Seq(Byte) /\ Len(SubSeq(s, k + 1, Len(s))) = Len(s) - k
         /\ \A i \in 1..Len(s) - k : SubSeq(s, k + 1, Len(s))[i] = s[k + i]
         /\ SubSeq(s, 1, k) \o SubSeq(s, k + 1, Len(s)) = s
<1>1. Len(s) \in Nat
  OBVIOUS
<1>2. /\ SubSeq(s, 1, k) \in Seq(Byte) /\ Len(SubSeq(s, 1, k)) = k
      /\ \A i \in 1..k : SubSeq(s, 1, k)[i] = s[i]
  <2>1. \A i \in 1..k : s[i] \in Byte
    BY <1>1
  <2> QED
    BY <1>1, <2>1, SubSeqProperties
<1>3. /\ SubSeq(s, k + 1, Len(s)) \in Seq(Byte) /\ Len(SubSeq(s, k + 1, Len(s))) = Len(s) - k
      /\ \A i \in 1..Len(s) - k : SubSeq(s, k + 1, Len(s))[i] = s[k + i]
  <2>1. \A i \in k + 1..Len(s) : s[i] \in Byte
    BY <1>1
  <2> QED
    BY <1>1, <2>1, SubSeqProperties
<1>4. SubSeq(s, 1, k) \o SubSeq(s, k + 1, Len(s)) = s
  <2>1. PICK a \in Seq(Byte) : a = SubSeq(s, 1, k)
    BY <1>2
  <2>2. PICK b \in Seq(Byte) : b = SubSeq(s, k + 1, Len(s))
    BY <1>3
  <2>3. /\ Len(a) = k /\ \A i \in 1..k : a[i] = s[i]
        /\ Len(b) = Len(s) - k /\ \A i \in 1..Len(s) - k : b[i] = s[k + i]
    BY <1>2, <1>3, <2>1, <2>2
  <2>4. /\ a \o b \in Seq(Byte) /\ Len(a \o b) = Len(a) + Len(b)
        /\ \A i \in 1..Len(a) + Len(b) : (a \o b)[i] = IF i <= Len(a) THEN a[i] ELSE b[i - Len(a)]
    BY <2>1, <2>2, ConcatProperties
  <2>5. ASSUME NEW i \in 1..Len(s) PROVE (a \o b)[i] = s[i]
    <3>1. (a \o b)[i] = IF i <= k THEN a[i] ELSE b[i - k]
      BY <1>1, <2>3, <2>4
    <3>2. CASE i <= k
      BY <1>1, <2>3, <3>1, <3>2
    <3>3. CASE i > k
      <4>1. i - k \in 1..Len(s) - k /\ k + (i - k) = i
        BY <1>1, <3>3
      <4>2. b[i - k] = s[i]
        BY <2>3, <4>1
      <4> QED
        BY <1>1, <3>1, <3>3, <4>2
    <3>4. i <= k \/ i > k
      BY <1>1
    <3> QED
      BY <3>2, <3>3, <3>4
  <2>6. Len(a \o b) = Len(s)
    BY <1>1, <2>3, <2>4
  <2>7. a \o b = s
    BY <2>4, <2>5, <2>6, SeqEqual
  <2> QED
    BY <2>1, <2>2, <2>7
<1> QED
  BY <1>2, <1>3, <1>4

\* What may go out at once is in the buffer.
LEMMA AskedFacts ==
  ASSUME Types
  PROVE  ToWrite \in Int /\ ToWrite <= Len(buf) /\ Room \in Int
<1>1. Len(buf) \in Nat
  BY DEF Types
<1> QED
  BY <1>1, SizeAssumption DEF Types, ToWrite, AtMost, Room

LEMMA TickFacts ==
  ASSUME Types, NEW t \in Tick
  PROVE  /\ t \in Int /\ t >= target /\ (rate = 0 => t = target)
         /\ Can(t) \in Int /\ Cansend(t) \in Int
<1>1. t \in Int /\ t >= target /\ (rate = 0 => t = target)
  BY SizeAssumption DEF Types, Tick
<1>2. opt.size \in Nat
  BY CallFacts DEF Types
<1> QED
  BY <1>1, <1>2 DEF Types, Can, Cansend

\* The write step keeps to what the selection has asked for.
Asked == /\ pc = "read" => to_write = ToWrite /\ ~eof_in
         /\ pc \in {"read", "write"} => to_write <= Len(buf)

\* What a read that fails does.
LEMMA ErrorFacts ==
  ASSUME Types, ReadError
  PROVE  \E k \in Nat, m \in Nat :
           /\ lost' = (lost \/ k > 0)
           /\ \/ /\ opt.skip /\ m > 0 /\ pos' = pos + k + m /\ buf' = buf \o CellsAt(pos + k, m, TRUE)
                 /\ UNCHANGED <<eof_in, eof_out>>
              \/ pos' = pos + k /\ UNCHANGED buf /\ InputEnds(buf)
<1>1. Room \in Int
  BY AskedFacts
<1>2. PICK k \in 0..Room - 1 :
       /\ lost' = (lost \/ k > 0)
       /\ IF opt.skip /\ files[n].kind # "pipe"
          THEN LET amount == Skip(read_errors + 1, pos + k, Room)
                   skipped == IF files[n].kind = "device" /\ pos + k + amount > Len(File) THEN 1 ELSE amount
               IN  /\ buf' = buf \o CellsAt(pos + k, skipped, TRUE) /\ pos' = pos + k + skipped
                   /\ UNCHANGED <<eof_in, eof_out>>
          ELSE InputEnds(buf) /\ pos' = pos + k /\ UNCHANGED buf
  BY DEF ReadError
<1>3. k \in Nat
  BY <1>1
<1>4. CASE opt.skip /\ files[n].kind # "pipe"
  <2> DEFINE amount == Skip(read_errors + 1, pos + k, Room)
             skipped == IF files[n].kind = "device" /\ pos + k + amount > Len(File) THEN 1 ELSE amount
  <2>1. amount \in 1..Room
    <3>1. read_errors + 1 \in Nat /\ pos + k \in Nat /\ Room \in Nat \ {0}
      BY <1>1, <1>2 DEF Types
    <3> QED
      BY <3>1, SkipFacts
  <2>2. buf' = buf \o CellsAt(pos + k, skipped, TRUE) /\ pos' = pos + k + skipped /\ UNCHANGED <<eof_in, eof_out>>
    BY <1>2, <1>4
  <2>3. skipped \in Nat /\ skipped > 0
    BY <1>1, <2>1
  <2> HIDE DEF skipped
  <2> QED
    BY <1>2, <1>3, <1>4, <2>2, <2>3
<1>5. CASE ~(opt.skip /\ files[n].kind # "pipe")
  BY <1>2, <1>3, <1>5
<1> QED
  BY <1>4, <1>5

\* Every step keeps the types.
LEMMA TypesStep ==
  ASSUME Types, Asked, [Next]_vars
  PROVE  Types'
<1> DEFINE Counts == /\ rate' \in Nat /\ target' \in Int /\ allowed' \in Int /\ to_write' \in Int
                     /\ written' \in Nat /\ lines' \in Nat /\ total' \in Nat /\ read_errors' \in Nat
           Rest == /\ files' = files /\ opt' = opt /\ n' \in 1..Len(files)
                   /\ pc' \in {"open", "loop", "select", "read", "write", "count", "end"}
           Bytes == pos' \in Nat /\ buf' \in Seq(Byte) /\ out' \in Seq(Byte)
<1> USE DEF call, limits, turn, input, output, counts
<1>0. SUFFICES Counts /\ Rest /\ Bytes
  BY DEF Types
<1>17. n \in Nat /\ pos \in Nat
  BY CallFacts DEF Types
<1>1. CASE NextFile
  BY <1>1 DEF NextFile, Types
<1>2. CASE Turn
  <2>1. PICK t \in Tick :
          /\ target' = t /\ allowed' = IF NearSize(t) /\ Cansend(t) <= 0 THEN 0 ELSE Cansend(t)
          /\ lines' = IF NearSize(t) /\ Cansend(t) <= 0 THEN lines ELSE 0
          /\ pc' = IF NearSize(t) /\ Cansend(t) <= 0 THEN "count" ELSE "select"
    BY <1>2 DEF Turn
  <2>2. t \in Int /\ Cansend(t) \in Int
    BY TickFacts
  <2>3. /\ written' = 0
        /\ UNCHANGED <<call, n, pos, read_errors, lost, buf, rate, to_write, rd, wr, spliced, no_splice,
                       total, abort, status, output>>
    BY <1>2 DEF Turn
  <2> QED
    BY <2>1, <2>2, <2>3 DEF Types
<1>3. CASE LoopAborts \/ Abort \/ SelectFails \/ Interrupted
  <2>1. CASE LoopAborts
    BY <2>1 DEF LoopAborts, Types
  <2>2. CASE Abort
    BY <2>2 DEF Abort, Types
  <2>3. CASE SelectFails
    BY <2>3 DEF SelectFails, Types
  <2>4. CASE Interrupted
    BY <2>4 DEF Interrupted, Nothing, Types
  <2> QED
    BY <1>3, <2>1, <2>2, <2>3, <2>4
<1>4. CASE Remote
  BY <1>4, SizeAssumption DEF Remote, Types
<1>5. CASE Select
  BY <1>5, AskedFacts DEF Select, Types
<1>6. CASE Splice
  <2>1. CASE Nothing
    BY <1>6, <2>1 DEF Nothing, Types
  <2>2. CASE ~Nothing
    <3>1. PICK k \in 1..SpliceAtMost :
            /\ out' = out \o CellsAt(pos, k, FALSE) /\ pos' = pos + k /\ written' = k /\ read_errors' = 0
            /\ pc' = "write"
            /\ UNCHANGED <<call, n, eof_in, lost, eof_out, buf, limits, turn, no_splice, lines, total,
                           abort, status, closed, ended>>
      BY <1>6, <2>2 DEF Splice
    <3>2. SpliceAtMost \in Int
      BY AskedFacts DEF SpliceAtMost, Types
    <3>3. k \in Nat
      BY <3>2
    <3>4. CellsAt(pos, k, FALSE) \in Seq(Byte)
      BY <3>3, <1>17, CellsFacts
    <3>5. out' \in Seq(Byte)
      BY <3>1, <3>4, ConcatProperties DEF Types
    <3>6. pos' \in Nat
      BY <3>1, <3>3, <1>17
    <3> QED
      BY <3>1, <3>3, <3>5, <3>6 DEF Types
  <2> QED
    BY <2>1, <2>2
<1>7. CASE ReadSome
  <2>1. PICK k \in 1..Room : buf' = buf \o CellsAt(pos, k, FALSE) /\ pos' = pos + k
    BY <1>7 DEF ReadSome
  <2>2. k \in Nat
    BY AskedFacts
  <2>3. CellsAt(pos, k, FALSE) \in Seq(Byte)
    BY <2>2, <1>17, CellsFacts
  <2>4. buf' \in Seq(Byte)
    BY <2>1, <2>3, ConcatProperties DEF Types
  <2> QED
    <3>1. pos' \in Nat
      BY <2>1, <2>2, <1>17
    <3> QED
      BY <1>7, <2>1, <2>4, <3>1 DEF ReadSome, Types
<1>8. CASE ReadEnd \/ ReadTransient
  <2>1. CASE ReadEnd
    <3>1. UNCHANGED <<call, n, pos, read_errors, buf, limits, turn, counts, output>> /\ pc' = "write"
      BY <2>1 DEF ReadEnd
    <3> QED
      BY <3>1 DEF Types
  <2>2. CASE ReadTransient
    <3>1. /\ UNCHANGED <<call, n, pos, read_errors, buf, limits, turn, lines, total, output>>
          /\ pc' = "count" /\ written' = 0
      BY <2>2 DEF ReadTransient, Nothing
    <3> QED
      BY <3>1 DEF Types
  <2> QED
    BY <1>8, <2>1, <2>2
<1>9. CASE ReadError
  <2>1. PICK k \in Nat, m \in Nat :
          \/ pos' = pos + k + m /\ buf' = buf \o CellsAt(pos + k, m, TRUE)
          \/ pos' = pos + k /\ UNCHANGED buf
    BY <1>9, ErrorFacts
  <2>2. CellsAt(pos + k, m, TRUE) \in Seq(Byte) /\ pos + k \in Nat
    <3>1. pos + k \in Nat
      BY DEF Types
    <3> QED
      BY <3>1, <1>17, CellsFacts
  <2>3. pos' \in Nat /\ buf' \in Seq(Byte)
    <3>1. buf \o CellsAt(pos + k, m, TRUE) \in Seq(Byte)
      BY <2>2, ConcatProperties DEF Types
    <3>2. pos' \in Nat
      <4>1. pos' = pos + k + m \/ pos' = pos + k
        BY <2>1
      <4>2. pos + k + m \in Nat /\ pos + k \in Nat
        BY <1>17
      <4> QED
        BY <4>1, <4>2
    <3>3. buf' \in Seq(Byte)
      BY <2>1, <3>1 DEF Types
    <3> QED
      BY <3>2, <3>3
  <2> QED
    BY <1>9, <2>3 DEF ReadError, Types
<1>10. CASE NotYet \/ WriteNone
  BY <1>10 DEF NotYet, WriteNone, Types
<1>11. ASSUME Writes PROVE ToLine \in 1..to_write /\ to_write \in Int /\ to_write <= Len(buf)
  <2>1. to_write \in Int /\ to_write > 0 /\ to_write <= Len(buf) /\ buf \in Seq(Byte)
    BY <1>11 DEF Writes, Types, Asked
  <2> QED
    BY <2>1, ToLineFacts
<1>12. ASSUME Writes, NEW k \in Nat, k <= ToLine, Out(k)
       PROVE  out' \in Seq(Byte) /\ k \in 0..Len(buf)
  <2>1. k \in 0..Len(buf)
    BY <1>11, <1>12
  <2>2. SubSeq(buf, 1, k) \in Seq(Byte)
    BY <2>1, CutFacts DEF Types
  <2> QED
    BY <1>12, <2>1, <2>2, ConcatProperties DEF Types, Out
<1>13. CASE WriteSome
  <2>1. PICK k \in 1..ToLine :
          /\ Out(k) /\ buf' = SubSeq(buf, k + 1, Len(buf)) /\ written' = written + k
          /\ lines' = IF opt.line THEN Lines(SubSeq(buf, 1, k)) ELSE 0
    BY <1>13 DEF WriteSome
  <2>2. Writes
    BY <1>13 DEF WriteSome
  <2>3. k \in Nat /\ k <= ToLine
    BY <1>11, <2>2
  <2>4. out' \in Seq(Byte) /\ k \in 0..Len(buf)
    BY <1>12, <2>1, <2>2, <2>3
  <2>5. SubSeq(buf, 1, k) \in Seq(Byte) /\ buf' \in Seq(Byte)
    BY <2>1, <2>4, CutFacts DEF Types
  <2>6. lines' \in Nat
    BY <2>1, <2>5, LinesFacts
  <2> QED
    BY <1>13, <2>1, <2>3, <2>4, <2>5, <2>6 DEF WriteSome, Types
<1>14. CASE WritePipe \/ WriteError
  <2>1. PICK k \in 0..ToLine - 1 : Out(k)
    BY <1>14 DEF WritePipe, WriteError
  <2>2. Writes
    BY <1>14 DEF WritePipe, WriteError
  <2>3. k \in Nat /\ k <= ToLine
    BY <1>11, <2>2
  <2>4. out' \in Seq(Byte)
    BY <1>12, <2>1, <2>2, <2>3
  <2>5. CASE WritePipe
    BY <2>4, <2>5 DEF WritePipe, Types
  <2>6. CASE WriteError
    BY <2>4, <2>6 DEF WriteError, Types
  <2> QED
    BY <1>14, <2>5, <2>6
<1>15. CASE Count
  <2>1. Sent \in Nat
    BY DEF Sent, Types
  <2> QED
    BY <1>15, <2>1 DEF Count, Counting, Types
<1>16. CASE UNCHANGED vars
  BY <1>16 DEF vars, Types
<1> QED
  BY <1>1, <1>2, <1>3, <1>4, <1>5, <1>6, <1>7, <1>8, <1>9, <1>10, <1>13, <1>14, <1>15, <1>16
     DEF Next, Step, Read, Write

LEMMA AskedStep ==
  ASSUME Types, Asked, [Next]_vars
  PROVE  Asked'
<1> USE DEF call, limits, turn, input, output, counts
<1>1. ASSUME NEW from \in Nat, NEW k \in Nat, NEW z \in BOOLEAN, buf' = buf \o CellsAt(from, k, z)
      PROVE  Len(buf) \in Nat /\ Len(buf') \in Nat /\ Len(buf) <= Len(buf')
  <2>1. n \in Nat
    BY CallFacts DEF Types
  <2>2. CellsAt(from, k, z) \in Seq(Byte) /\ Len(CellsAt(from, k, z)) = k
    <3>1. from \in Nat /\ k \in Nat /\ z \in BOOLEAN
      OBVIOUS
    <3> QED
      BY <2>1, <3>1, CellsFacts
  <2>3. buf \in Seq(Byte)
    BY DEF Types
  <2> QED
    BY <1>1, <2>2, <2>3, ConcatProperties
<1>2. CASE Select
  <2>1. rd' \in {FALSE, ~eof_in /\ Room > 0} /\ pc' = (IF rd' THEN "read" ELSE "write")
    BY <1>2 DEF Select
  <2>2. (pc' = "read" /\ ~eof_in) \/ pc' = "write"
    BY <2>1, Zenon
  <2>3. to_write' = ToWrite /\ UNCHANGED <<rate, allowed, buf, eof_in>>
    BY <1>2 DEF Select
  <2>4. ToWrite' = ToWrite
    BY <2>3 DEF ToWrite, Limited
  <2> QED
    BY <2>2, <2>3, <2>4, AskedFacts DEF Asked
<1>3. CASE ReadSome
  <2>1. PICK k \in 1..Room : buf' = buf \o CellsAt(pos, k, FALSE)
    BY <1>3 DEF ReadSome
  <2>2. k \in Nat /\ pos \in Nat
    BY AskedFacts DEF Types
  <2>3. Len(buf) \in Nat /\ Len(buf') \in Nat /\ Len(buf) <= Len(buf')
    BY <1>1, <2>1, <2>2
  <2>4. to_write \in Int /\ to_write <= Len(buf) /\ to_write' = to_write /\ pc' = "write"
    BY <1>3 DEF ReadSome, Types, Asked
  <2> QED
    BY <2>3, <2>4 DEF Asked
<1>4. CASE ReadError
  <2>1. PICK k \in Nat, m \in Nat :
          \/ buf' = buf \o CellsAt(pos + k, m, TRUE)
          \/ UNCHANGED buf
    BY <1>4, ErrorFacts
  <2>2. pos + k \in Nat /\ Len(buf) \in Nat
    BY DEF Types
  <2>3. Len(buf) \in Nat /\ Len(buf') \in Nat /\ Len(buf) <= Len(buf')
    <3>1. CASE buf' = buf \o CellsAt(pos + k, m, TRUE)
      BY <1>1, <2>2, <3>1
    <3>2. CASE buf' = buf
      BY <2>2, <3>2
    <3> QED
      BY <2>1, <3>1, <3>2
  <2>4. to_write \in Int /\ to_write <= Len(buf) /\ to_write' = to_write /\ pc' = "write"
    BY <1>4 DEF ReadError, Types, Asked
  <2> QED
    BY <2>3, <2>4 DEF Asked
<1>5. CASE Splice \/ ReadEnd
  <2>1. CASE Splice
    <3>1. UNCHANGED <<buf, to_write>> /\ pc = "read" /\ pc' \in {"write", "count"}
      BY <2>1 DEF Splice, Nothing
    <3> QED
      BY <3>1 DEF Asked
  <2>2. CASE ReadEnd
    BY <2>2 DEF ReadEnd, Asked
  <2> QED
    BY <1>5, <2>1, <2>2
<1>6. CASE Abort \/ UNCHANGED vars
  <2>1. UNCHANGED <<buf, to_write, pc, rate, allowed, eof_in>>
    BY <1>6 DEF Abort, vars
  <2>2. ToWrite' = ToWrite
    BY <2>1 DEF ToWrite, Limited
  <2> QED
    BY <2>1, <2>2 DEF Asked
<1>7. CASE NextFile \/ Turn \/ LoopAborts \/ Remote
  <2>1. pc' \notin {"read", "write"}
    BY <1>7 DEF NextFile, Turn, LoopAborts, Remote
  <2> QED
    BY <2>1 DEF Asked
<1>8. CASE Interrupted \/ SelectFails \/ ReadTransient \/ Write \/ Count
  <2>1. pc' \notin {"read", "write"}
    BY <1>8 DEF Interrupted, SelectFails, ReadTransient, Nothing, Write, NotYet, WriteSome, WriteNone,
                WritePipe, WriteError, Count
  <2> QED
    BY <2>1 DEF Asked
<1> QED
  BY <1>2, <1>3, <1>4, <1>5, <1>6, <1>7, <1>8 DEF Next, Step, Read

-----------------------------------------------------------------------------
(* What goes out is in order *)

\* What has been read is in order, and zeros are there only if they may be.
Passed(s) == Ordered(s) /\ \A i \in 1..Len(s) : s[i].zero => opt.skip

\* What comes next in s is the cell of file f behind the first p.
Fed(s, f, p) == IF s = <<>> THEN p = 0
                ELSE \/ s[Len(s)].file = f /\ s[Len(s)].at = p
                     \/ s[Len(s)].file < f /\ p = 0
Left(s, f) == s # <<>> => s[Len(s)].file < f

\* Out of the output and the buffer nothing is missing, and none is there twice,
\* as long as there is somebody to write to.
Chained == ~lost => /\ Passed(out)
                    /\ ~closed /\ pc # "end" => /\ Passed(out \o buf)
                                                /\ IF pc = "open" THEN Left(out \o buf, n)
                                                   ELSE Fed(out \o buf, n, pos)

LEMMA FedMore ==
  ASSUME n \in Nat, pos \in Nat, NEW s \in Seq(Byte), NEW k \in Nat, NEW z \in BOOLEAN,
         Passed(s), Fed(s, n, pos), z => opt.skip
  PROVE  Passed(s \o CellsAt(pos, k, z)) /\ Fed(s \o CellsAt(pos, k, z), n, pos + k)
<1>0. /\ CellsAt(pos, k, z) \in Seq(Byte) /\ Len(CellsAt(pos, k, z)) = k
      /\ \A i \in 1..k : CellsAt(pos, k, z)[i] = [file |-> n, at |-> pos + i, zero |-> z]
  BY CellsFacts
<1>1. PICK c \in Seq(Byte) : c = CellsAt(pos, k, z)
  BY <1>0
<1>2. Len(c) = k /\ \A i \in 1..k : c[i] = [file |-> n, at |-> pos + i, zero |-> z]
  BY <1>0, <1>1
<1>3. PICK t \in Seq(Byte) : t = s \o c
  BY ConcatProperties
<1>4. /\ Len(s) \in Nat /\ Len(t) = Len(s) + k
      /\ \A i \in 1..Len(t) : t[i] = IF i <= Len(s) THEN s[i] ELSE c[i - Len(s)]
  <2>1. Len(s \o c) = Len(s) + Len(c) /\ \A i \in 1..Len(s) + Len(c) :
           (s \o c)[i] = IF i <= Len(s) THEN s[i] ELSE c[i - Len(s)]
    BY ConcatProperties
  <2> QED
    BY <1>2, <1>3, <2>1
<1>5. ASSUME NEW i \in 1..k
      PROVE  t[Len(s) + i].file = n /\ t[Len(s) + i].at = pos + i /\ t[Len(s) + i].zero = z
  <2>1. Len(s) + i \in 1..Len(t) /\ ~(Len(s) + i <= Len(s)) /\ (Len(s) + i) - Len(s) = i
    BY <1>4
  <2>2. t[Len(s) + i] = c[i]
    BY <1>4, <2>1
  <2> QED
    BY <1>2, <2>2
<1>6. \A i \in 1..Len(s) : t[i] = s[i]
  BY <1>4
<1>7. ASSUME NEW i \in 1..Len(t), t[i].zero PROVE opt.skip
  <2>1. CASE i <= Len(s)
    BY <1>4, <1>6, <1>7, <2>1 DEF Passed
  <2>2. CASE i > Len(s)
    <3>1. i - Len(s) \in 1..k /\ Len(s) + (i - Len(s)) = i
      BY <1>4, <2>2
    <3>2. t[i].zero = z
      BY <1>5, <3>1
    <3> QED
      BY <1>7, <3>2
  <2> QED
    BY <1>4, <2>1, <2>2
<1>8. ASSUME t # <<>> PROVE t[1].at = 1
  <2>1. CASE Len(s) > 0
    BY <1>4, <1>6, <2>1 DEF Passed, Ordered
  <2>2. CASE Len(s) = 0
    <3>1. s = <<>> /\ pos = 0
      BY <2>2 DEF Fed
    <3>2. k > 0
      BY <1>4, <1>8, <2>2
    <3>3. 1 \in 1..k /\ Len(s) + 1 = 1
      BY <3>2, <2>2
    <3>4. t[1].at = pos + 1
      BY <1>5, <3>3
    <3> QED
      BY <3>1, <3>4
  <2> QED
    BY <1>4, <2>1, <2>2
<1>9. ASSUME NEW i \in 1..Len(t) - 1 PROVE Before(t[i], t[i + 1])
  <2>1. CASE i + 1 <= Len(s)
    <3>1. i \in 1..Len(s) /\ i + 1 \in 1..Len(s) /\ i \in 1..Len(s) - 1
      BY <1>4, <2>1
    <3>2. Before(s[i], s[i + 1])
      BY <3>1 DEF Passed, Ordered
    <3> QED
      BY <1>6, <3>1, <3>2
  <2>2. CASE i = Len(s)
    <3>1. 1 \in 1..k /\ i \in 1..Len(s) /\ s # <<>>
      BY <1>4, <2>2
    <3>2. t[i + 1].file = n /\ t[i + 1].at = pos + 1 /\ t[i] = s[i]
      BY <1>5, <1>6, <2>2, <3>1
    <3>3. \/ s[i].file = n /\ s[i].at = pos
          \/ s[i].file < n /\ pos = 0
      BY <2>2, <3>1 DEF Fed
    <3> QED
      BY <3>2, <3>3 DEF Before
  <2>3. CASE i > Len(s)
    <3>1. /\ i - Len(s) \in 1..k /\ Len(s) + (i - Len(s)) = i
          /\ i - Len(s) + 1 \in 1..k /\ Len(s) + (i - Len(s) + 1) = i + 1
      BY <1>4, <2>3
    <3>2. t[i].file = n /\ t[i].at = pos + (i - Len(s))
      BY <1>5, <3>1
    <3>3. t[i + 1].file = n /\ t[i + 1].at = pos + (i - Len(s) + 1)
      BY <1>5, <3>1
    <3> QED
      BY <1>4, <3>2, <3>3 DEF Before
  <2> QED
    BY <1>4, <2>1, <2>2, <2>3
<1>10. Fed(t, n, pos + k)
  <2>1. CASE k = 0
    <3>1. c = <<>>
      BY <1>2, <2>1, EmptySeq
    <3>2. t = s
      BY <1>3, <3>1, ConcatEmptySeq
    <3> QED
      BY <2>1, <3>2
  <2>2. CASE k > 0
    <3>1. k \in 1..k /\ Len(t) = Len(s) + k /\ t # <<>>
      BY <1>4, <2>2
    <3>2. t[Len(t)].file = n /\ t[Len(t)].at = pos + k
      BY <1>5, <3>1
    <3> QED
      BY <3>1, <3>2 DEF Fed
  <2> QED
    BY <2>1, <2>2
<1> QED
  BY <1>1, <1>3, <1>7, <1>8, <1>9, <1>10 DEF Passed, Ordered

LEMMA PassedPart ==
  ASSUME NEW s \in Seq(Byte), NEW t \in Seq(Byte), Passed(s \o t)
  PROVE  Passed(s)
<1>1. PICK u \in Seq(Byte) : u = s \o t
  BY ConcatProperties
<1>2. /\ Len(s) \in Nat /\ Len(t) \in Nat /\ Len(u) = Len(s) + Len(t)
      /\ \A i \in 1..Len(s) + Len(t) : u[i] = IF i <= Len(s) THEN s[i] ELSE t[i - Len(s)]
  BY <1>1, ConcatProperties
<1>3. \A i \in 1..Len(s) : u[i] = s[i] /\ i \in 1..Len(u)
  BY <1>2
<1>4. /\ u # <<>> => u[1].at = 1
      /\ \A i \in 1..Len(u) - 1 : Before(u[i], u[i + 1])
      /\ \A i \in 1..Len(u) : u[i].zero => opt.skip
  BY <1>1 DEF Passed, Ordered
<1>5. ASSUME s # <<>> PROVE s[1].at = 1
  <2>1. 1 \in 1..Len(s) /\ u # <<>>
    BY <1>2, <1>5
  <2> QED
    BY <1>3, <1>4, <2>1
<1>6. ASSUME NEW i \in 1..Len(s) - 1 PROVE Before(s[i], s[i + 1])
  <2>1. i \in 1..Len(s) /\ i + 1 \in 1..Len(s) /\ i \in 1..Len(u) - 1
    BY <1>2
  <2>2. u[i] = s[i] /\ u[i + 1] = s[i + 1] /\ Before(u[i], u[i + 1])
    BY <1>3, <1>4, <2>1
  <2> QED
    BY <2>2
<1>7. ASSUME NEW i \in 1..Len(s), s[i].zero PROVE opt.skip
  BY <1>3, <1>4, <1>7
<1> QED
  BY <1>5, <1>6, <1>7 DEF Passed, Ordered

\* What a write moves from the buffer to the output.
LEMMA OutFacts ==
  ASSUME Types, NEW k \in 0..Len(buf)
  PROVE  /\ out \o SubSeq(buf, 1, k) \in Seq(Byte)
         /\ (out \o SubSeq(buf, 1, k)) \o SubSeq(buf, k + 1, Len(buf)) = out \o buf
<1>1. out \in Seq(Byte) /\ buf \in Seq(Byte)
  BY DEF Types
<1>2. PICK a \in Seq(Byte) : a = SubSeq(buf, 1, k)
  BY <1>1, CutFacts
<1>3. PICK b \in Seq(Byte) : b = SubSeq(buf, k + 1, Len(buf))
  BY <1>1, CutFacts
<1>4. a \o b = buf
  BY <1>1, <1>2, <1>3, CutFacts
<1>5. (out \o a) \o b = out \o (a \o b)
  BY <1>1, ConcatAssociative
<1>6. out \o a \in Seq(Byte)
  BY <1>1, ConcatProperties
<1> QED
  BY <1>2, <1>3, <1>4, <1>5, <1>6

\* How much a write step writes.
LEMMA WriteFacts ==
  ASSUME Types, Asked, Writes, NEW k \in Int, 0 <= k, k <= ToLine
  PROVE  k \in 0..Len(buf) /\ k <= to_write /\ to_write \in Int /\ to_write <= Len(buf)
<1>1. to_write \in Int /\ to_write > 0 /\ to_write <= Len(buf) /\ buf \in Seq(Byte)
  BY DEF Writes, Types, Asked
<1>2. ToLine \in 1..to_write
  BY <1>1, ToLineFacts
<1> QED
  BY <1>1, <1>2

\* Where there is something to move from the input to the output, nothing waits in
\* the buffer.
LEMMA SpliceEmpty ==
  ASSUME Types, Asked, pc = "read", to_write = 0, SpliceAtMost \in Int, SpliceAtMost > 0
  PROVE  buf = <<>>
<1>1. ToWrite = 0
  BY DEF Asked
<1>2. buf \in Seq(Byte) /\ Len(buf) \in Nat /\ (Limited => allowed > 0)
  BY DEF SpliceAtMost, Types
<1>3. Len(buf) = 0
  BY <1>1, <1>2 DEF ToWrite, AtMost, Types
<1> QED
  BY <1>2, <1>3, EmptySeq

LEMMA ChainedStep ==
  ASSUME Types, Asked, Chained, [Next]_vars
  PROVE  Chained'
<1> USE DEF call, limits, turn, input, output, counts
<1>0. /\ n \in Nat /\ pos \in Nat /\ out \in Seq(Byte) /\ buf \in Seq(Byte)
      /\ out \o buf \in Seq(Byte)
  <2>1. n \in Nat /\ pos \in Nat /\ out \in Seq(Byte) /\ buf \in Seq(Byte)
    BY CallFacts DEF Types
  <2> QED
    BY <2>1, ConcatProperties
\* nothing moves
<1>1. ASSUME UNCHANGED <<opt, n, pos, buf, out, lost, closed>>, pc # "end", pc' = "open" <=> pc = "open"
      PROVE  Chained'
  <2>1. lost \/ (Passed(out) /\ (closed \/ (Passed(out \o buf) /\
           IF pc = "open" THEN Left(out \o buf, n) ELSE Fed(out \o buf, n, pos))))
    BY <1>1 DEF Chained
  <2> QED
    BY <1>1, <2>1 DEF Chained, Passed, Left, Fed
\* pv ends
<1>2. ASSUME opt' = opt, out' = out, lost' = lost, pc' = "end"
      PROVE  Chained'
  BY <1>2 DEF Chained, Passed
\* some of the buffer goes out
<1>3. ASSUME NEW k \in 0..Len(buf), out' = out \o SubSeq(buf, 1, k), pc = "write", ~closed, ~lost
      PROVE  /\ Passed(out') /\ Passed(out \o buf) /\ Fed(out \o buf, n, pos)
             /\ out' \o SubSeq(buf, k + 1, Len(buf)) = out \o buf
  <2>1. Passed(out \o buf) /\ Fed(out \o buf, n, pos)
    BY <1>3 DEF Chained
  <2>2. out' \in Seq(Byte) /\ out' \o SubSeq(buf, k + 1, Len(buf)) = out \o buf
    BY <1>3, OutFacts
  <2>3. SubSeq(buf, k + 1, Len(buf)) \in Seq(Byte)
    BY <1>0, CutFacts
  <2>4. Passed(out' \o SubSeq(buf, k + 1, Len(buf)))
    BY <2>1, <2>2
  <2>5. PICK s \in Seq(Byte) : s = out'
    BY <2>2
  <2>6. Passed(s)
    BY <2>3, <2>4, <2>5, PassedPart
  <2> QED
    BY <2>1, <2>2, <2>5, <2>6
\* some of the input comes in
<1>4. ASSUME NEW k \in Nat, NEW z \in BOOLEAN, z => opt.skip, pc = "read", ~closed, ~lost,
             (out \o buf)' = (out \o buf) \o CellsAt(pos, k, z), pos' = pos + k, Passed(out'),
             UNCHANGED <<opt, n>>, pc' # "open"
      PROVE  Chained'
  <2>1. Passed(out \o buf) /\ Fed(out \o buf, n, pos)
    BY <1>4 DEF Chained
  <2>2. Passed((out \o buf) \o CellsAt(pos, k, z)) /\ Fed((out \o buf) \o CellsAt(pos, k, z), n, pos + k)
    BY <1>0, <1>4, <2>1, FedMore
  <2>3. Passed((out \o buf)') /\ Fed((out \o buf)', n, pos')
    BY <1>4, <2>2
  <2> QED
    BY <1>4, <2>3 DEF Chained, Passed, Fed
<1>5. CASE NextFile
  <2>1. UNCHANGED <<opt, n, buf, out, lost, closed>> /\ pc = "open" /\ pos' = 0 /\ pc' \in {"loop", "end"}
    BY <1>5 DEF NextFile
  <2>2. Left(out \o buf, n) => Fed(out \o buf, n, 0)
    BY DEF Left, Fed
  <2> QED
    BY <2>1, <2>2 DEF Chained, Passed, Fed
<1>6. CASE Turn
  <2>1. pc = "loop" /\ pc' \in {"count", "select"} /\ UNCHANGED <<opt, n, pos, buf, out, lost, closed>>
    BY <1>6 DEF Turn
  <2> QED
    BY <1>1, <2>1
<1>7. CASE Select
  <2>1. pc = "select" /\ UNCHANGED <<opt, n, pos, buf, out, lost, closed>>
    BY <1>7 DEF Select
  <2>2. pc' \in {"read", "write"}
    <3>1. pc' = IF rd' THEN "read" ELSE "write"
      BY <1>7 DEF Select
    <3> QED
      BY <3>1
  <2> QED
    BY <1>1, <2>1, <2>2
<1>8. CASE Remote \/ Abort \/ Interrupted \/ ReadTransient
  <2>1. UNCHANGED <<opt, n, pos, buf, out, lost, closed>> /\ pc # "end" /\ (pc' = "open" <=> pc = "open")
    BY <1>8 DEF Remote, Abort, Interrupted, ReadTransient, Nothing
  <2> QED
    BY <1>1, <2>1
<1>9. CASE ReadEnd \/ NotYet \/ WriteNone
  <2>1. UNCHANGED <<opt, n, pos, buf, out, lost, closed>> /\ pc # "end" /\ (pc' = "open" <=> pc = "open")
    BY <1>9 DEF ReadEnd, NotYet, WriteNone, Writes
  <2> QED
    BY <1>1, <2>1
<1>10. CASE LoopAborts \/ SelectFails
  BY <1>2, <1>10 DEF LoopAborts, SelectFails
<1>11. CASE Splice
  <2>1. CASE Nothing
    <3>1. UNCHANGED <<opt, n, pos, buf, out, lost, closed>> /\ pc = "read" /\ pc' = "count"
      BY <1>11, <2>1 DEF Splice, Nothing
    <3> QED
      BY <1>1, <3>1
  <2>2. CASE ~Nothing
    <3>1. PICK k \in 1..SpliceAtMost :
            /\ out' = out \o CellsAt(pos, k, FALSE) /\ pos' = pos + k /\ pc' = "write"
            /\ UNCHANGED <<opt, n, lost, buf, closed>>
      BY <1>11, <2>2 DEF Splice
    <3>2. SpliceAtMost \in Int /\ k \in Nat /\ SpliceAtMost > 0
      BY AskedFacts, <3>1 DEF SpliceAtMost, Types
    <3>3. pc = "read" /\ to_write = 0 /\ ~closed
      BY <1>11 DEF Splice, CanSplice
    <3>4. buf = <<>>
      BY <3>2, <3>3, SpliceEmpty
    <3>5. PICK c \in Seq(Byte) : c = CellsAt(pos, k, FALSE)
      BY <1>0, <3>2, CellsFacts
    <3>6. out \o buf = out /\ (out \o buf)' = out'
      <4>1. out' \in Seq(Byte)
        BY <1>0, <3>1, <3>5, ConcatProperties
      <4> QED
        BY <1>0, <3>1, <3>4, <4>1, ConcatEmptySeq
    <3>7. CASE lost
      BY <3>1, <3>7 DEF Chained
    <3>8. CASE ~lost
      <4>1. Passed(out) /\ Fed(out, n, pos)
        BY <3>3, <3>6, <3>8 DEF Chained
      <4>2. Passed(out')
        BY <1>0, <3>1, <3>2, <4>1, FedMore
      <4> QED
        BY <1>4, <3>1, <3>2, <3>3, <3>6, <3>8, <4>2
    <3> QED
      BY <3>7, <3>8
  <2> QED
    BY <2>1, <2>2
\* Bytes are added to the buffer.
<1>12. ASSUME NEW k \in Nat, NEW z \in BOOLEAN, z => opt.skip, pc = "read", pc' = "write",
              buf' = buf \o CellsAt(pos, k, z), pos' = pos + k, UNCHANGED <<opt, n, out, lost, closed>>
       PROVE  Chained'
  <2>1. CellsAt(pos, k, z) \in Seq(Byte)
    BY <1>0, CellsFacts
  <2>2. (out \o buf)' = (out \o buf) \o CellsAt(pos, k, z)
    <3>1. (out \o buf)' = out \o (buf \o CellsAt(pos, k, z))
      BY <1>12
    <3>2. (out \o buf) \o CellsAt(pos, k, z) = out \o (buf \o CellsAt(pos, k, z))
      BY <1>0, <2>1, ConcatAssociative
    <3> QED
      BY <3>1, <3>2
  <2>3. CASE lost
    BY <1>12, <2>3 DEF Chained
  <2>4. CASE closed
    BY <1>12, <2>4 DEF Chained, Passed
  <2>5. CASE ~lost /\ ~closed
    <3>1. Passed(out')
      BY <1>12, <2>5 DEF Chained
    <3> QED
      BY <1>4, <1>12, <2>2, <2>5, <3>1
  <2> QED
    BY <2>3, <2>4, <2>5
<1>13. CASE ReadSome
  <2>1. PICK k \in 1..Room : buf' = buf \o CellsAt(pos, k, FALSE) /\ pos' = pos + k
    BY <1>13 DEF ReadSome
  <2>2. k \in Nat
    BY AskedFacts
  <2>3. pc = "read" /\ pc' = "write" /\ UNCHANGED <<opt, n, out, lost, closed>>
    BY <1>13 DEF ReadSome
  <2> QED
    BY <1>12, <2>1, <2>2, <2>3
<1>14. CASE ReadError
  <2>1. PICK k \in Nat, m \in Nat :
          /\ lost' = (lost \/ k > 0)
          /\ \/ opt.skip /\ m > 0 /\ pos' = pos + k + m /\ buf' = buf \o CellsAt(pos + k, m, TRUE)
             \/ pos' = pos + k /\ UNCHANGED buf
    BY <1>14, ErrorFacts
  <2>2. pc = "read" /\ pc' = "write" /\ UNCHANGED <<opt, n, out, closed>>
    BY <1>14 DEF ReadError
  <2>3. CASE lost'
    BY <2>3 DEF Chained
  <2>4. CASE ~lost'
    <3>1. ~lost /\ k = 0
      <4>1. ~lost /\ ~(k > 0)
        BY <2>1, <2>4, Zenon
      <4> QED
        BY <4>1
    <3>2. CASE opt.skip /\ m > 0 /\ pos' = pos + k + m /\ buf' = buf \o CellsAt(pos + k, m, TRUE)
      <4>1. pos + k = pos /\ pos + k + m = pos + m
        BY <1>0, <3>1
      <4>2. pos' = pos + m /\ buf' = buf \o CellsAt(pos, m, TRUE) /\ opt.skip
        BY <3>2, <4>1
      <4>3. PICK z \in BOOLEAN : z = TRUE
        OBVIOUS
      <4>4. CASE closed
        BY <2>2, <3>1, <4>4 DEF Chained, Passed
      <4>5. CASE ~closed
        <5>1. CellsAt(pos, m, TRUE) \in Seq(Byte)
          BY <1>0, CellsFacts
        <5>2. (out \o buf)' = (out \o buf) \o CellsAt(pos, m, TRUE)
          <6>1. (out \o buf) \o CellsAt(pos, m, TRUE) = out \o (buf \o CellsAt(pos, m, TRUE))
            <7>1. PICK c \in Seq(Byte) : c = CellsAt(pos, m, TRUE)
              BY <5>1
            <7>2. (out \o buf) \o c = out \o (buf \o c)
              <8>1. c \in Seq(Byte) /\ out \in Seq(Byte) /\ buf \in Seq(Byte)
                BY <1>0, <7>1
              <8> QED
                BY <8>1, ConcatAssociative
            <7> QED
              BY <7>1, <7>2
          <6> QED
            BY <2>2, <4>2, <6>1
        <5>3. Passed(out')
          BY <2>2, <3>1 DEF Chained
        <5> QED
          BY <1>4, <2>2, <3>1, <4>2, <4>5, <5>2, <5>3
      <4> QED
        BY <4>4, <4>5
    <3>3. CASE pos' = pos + k /\ UNCHANGED buf
      <4>1. pos' = pos
        BY <1>0, <3>1, <3>3
      <4> QED
        BY <2>2, <3>1, <3>3, <4>1 DEF Chained, Passed, Fed
    <3> QED
      BY <2>1, <3>2, <3>3
  <2> QED
    BY <2>3, <2>4
<1>15. CASE WriteSome
  <2>1. PICK k \in 1..ToLine : Out(k) /\ buf' = SubSeq(buf, k + 1, Len(buf))
    BY <1>15 DEF WriteSome
  <2>2. Writes /\ ~closed /\ pc' = "count" /\ UNCHANGED <<opt, n, pos, lost, closed>>
    BY <1>15 DEF WriteSome
  <2>3. pc = "write" /\ k \in 0..Len(buf)
    BY <2>2, WriteFacts DEF Writes
  <2>4. CASE lost
    BY <2>2, <2>4 DEF Chained
  <2>5. CASE ~lost
    <3>1. /\ Passed(out') /\ Passed(out \o buf) /\ Fed(out \o buf, n, pos)
          /\ out' \o buf' = out \o buf
      BY <1>3, <2>1, <2>2, <2>3, <2>5 DEF Out
    <3> QED
      BY <2>2, <3>1 DEF Chained, Passed, Fed
  <2> QED
    BY <2>4, <2>5
<1>16. CASE WritePipe
  <2>1. PICK k \in 0..ToLine - 1 : Out(k) /\ (closed => k = 0)
    BY <1>16 DEF WritePipe
  <2>2. Writes /\ pc' = "count" /\ UNCHANGED <<opt, lost>> /\ closed'
    BY <1>16 DEF WritePipe
  <2>3. pc = "write" /\ k \in 0..Len(buf)
    <3>1. ToLine \in Int
      BY <1>0, <2>2, ToLineFacts DEF Writes, Types, Asked
    <3> QED
      BY <2>2, <3>1, WriteFacts DEF Writes
  <2>4. CASE closed
    <3>1. SubSeq(buf, 1, k) = <<>>
      BY <1>0, <2>1, <2>3, <2>4, CutFacts, EmptySeq
    <3>2. out' = out
      BY <1>0, <2>1, <3>1, ConcatEmptySeq DEF Out
    <3> QED
      BY <2>2, <3>2 DEF Chained, Passed
  <2>5. CASE lost
    BY <2>2, <2>5 DEF Chained
  <2>6. CASE ~lost /\ ~closed
    <3>1. Passed(out')
      BY <1>3, <2>1, <2>3, <2>6 DEF Out
    <3> QED
      BY <2>2, <3>1 DEF Chained, Passed
  <2> QED
    BY <2>4, <2>5, <2>6
<1>17. CASE WriteError
  <2>1. PICK k \in 0..ToLine - 1 : Out(k)
    BY <1>17 DEF WriteError
  <2>2. Writes /\ ~closed /\ pc' = "end" /\ UNCHANGED <<opt, lost>>
    BY <1>17 DEF WriteError
  <2>3. pc = "write" /\ k \in 0..Len(buf)
    <3>1. ToLine \in Int
      BY <1>0, <2>2, ToLineFacts DEF Writes, Types, Asked
    <3> QED
      BY <2>2, <3>1, WriteFacts DEF Writes
  <2>4. CASE lost
    BY <2>2, <2>4 DEF Chained
  <2>5. CASE ~lost
    <3>1. Passed(out')
      BY <1>3, <2>1, <2>2, <2>3, <2>5 DEF Out
    <3> QED
      BY <2>2, <3>1 DEF Chained, Passed
  <2> QED
    BY <2>4, <2>5
<1>18. CASE Count
  <2>1. UNCHANGED <<opt, pos, buf, out, lost, closed>> /\ pc = "count"
    BY <1>18 DEF Count
  <2>2. (pc' = "open" /\ n' = n + 1) \/ (pc' \in {"end", "loop"} /\ n' = n)
    BY <1>18 DEF Count
  <2>3. Fed(out \o buf, n, pos) => Left(out \o buf, n + 1)
    <3>1. PICK s \in Seq(Byte) : s = out \o buf
      BY <1>0
    <3>2. ASSUME Fed(s, n, pos), s # <<>> PROVE s[Len(s)].file < n + 1
      <4>1. s[Len(s)] \in Byte
        BY <3>2
      <4>2. s[Len(s)].file \in Nat
        BY <4>1 DEF Byte
      <4> QED
        BY <1>0, <3>2, <4>2 DEF Fed
    <3> QED
      BY <3>1, <3>2 DEF Left
  <2> QED
    BY <2>1, <2>2, <2>3 DEF Chained, Passed, Left, Fed
<1>19. CASE UNCHANGED vars
  BY <1>19 DEF vars, Chained, Passed, Left, Fed
<1> QED
  BY <1>5, <1>6, <1>7, <1>8, <1>9, <1>10, <1>11, <1>13, <1>14, <1>15, <1>16, <1>17, <1>18, <1>19
     DEF Next, Step, Read, Write

LEMMA Start ==
  ASSUME Init
  PROVE  Types /\ Asked /\ Chained
<1>1. opt.rate \in Nat /\ Len(files) \in Nat \ {0}
  BY CallFacts DEF Init
<1>2. <<>> \in Seq(Byte) /\ Len(<<>>) = 0 /\ <<>> \o <<>> = <<>>
  BY EmptySeq, ConcatEmptySeq
<1>3. Types
  BY <1>1, <1>2 DEF Init, Types
<1>4. Asked
  BY DEF Init, Asked
<1>5. out = <<>> /\ buf = <<>> /\ pc = "open"
  BY DEF Init
<1>6. Chained
  BY <1>2, <1>5 DEF Chained, Passed, Ordered, Left
<1> QED
  BY <1>3, <1>4, <1>6

\* For any files and options, and whatever the input and the output do, what pv
\* passes on is in the order of the files, without a gap and none twice (InOrder).
THEOREM OrderKept == Spec => []InOrder
<1>1. Init => Types /\ Asked /\ Chained
  BY Start
<1>2. Types /\ Asked /\ Chained /\ [Next]_vars => (Types /\ Asked /\ Chained)'
  BY TypesStep, AskedStep, ChainedStep
<1>3. Chained => InOrder
  BY DEF Chained, Passed, InOrder
<1> QED
  BY <1>1, <1>2, <1>3, PTL DEF Spec

-----------------------------------------------------------------------------
(* What is counted *)

LEMMA ShiftFacts ==
  ASSUME NEW S \in SUBSET Nat, IsFiniteSet(S), NEW m \in Nat
  PROVE  /\ IsFiniteSet({m + i : i \in S})
         /\ Cardinality({m + i : i \in S}) = Cardinality(S)
<1> DEFINE T == {m + i : i \in S}
           f == [i \in S |-> m + i]
<1>1. f \in [S -> T]
  OBVIOUS
<1>2. \A a, b \in S : f[a] = f[b] => a = b
  OBVIOUS
<1>3. \A x \in T : \E i \in S : f[i] = x
  OBVIOUS
<1> HIDE DEF f, T
<1>4. f \in Bijection(S, T)
  BY <1>1, <1>2, <1>3 DEF Bijection, Injection, Surjection, IsInjective
<1>5. ExistsBijection(S, T)
  BY <1>4 DEF ExistsBijection
<1>6. IsFiniteSet(T) /\ Cardinality(T) = Cardinality(S)
  BY <1>5, FS_Bijection
<1> QED
  BY <1>6 DEF T

\* The lines in two parts are not more than in each, and as many unless a zero hides
\* those of the second.
LEMMA LinesMore ==
  ASSUME NEW s \in Seq(Byte), NEW t \in Seq(Byte)
  PROVE  /\ Lines(s \o t) <= Lines(s) + Lines(t)
         /\ (\A i \in 1..Len(s) : Cell(s[i]) # "zero") => Lines(s \o t) = Lines(s) + Lines(t)
<1>1. PICK u \in Seq(Byte) : u = s \o t
  BY ConcatProperties
<1>2. /\ Len(s) \in Nat /\ Len(t) \in Nat /\ Len(u) = Len(s) + Len(t)
      /\ \A i \in 1..Len(s) + Len(t) : u[i] = IF i <= Len(s) THEN s[i] ELSE t[i - Len(s)]
  BY <1>1, ConcatProperties
<1>3. \A i \in 1..Len(s) : u[i] = s[i]
  BY <1>2
<1>4. ASSUME NEW i \in 1..Len(t) PROVE u[Len(s) + i] = t[i] /\ Len(s) + i \in 1..Len(u)
  <2>1. Len(s) + i \in 1..Len(s) + Len(t) /\ ~(Len(s) + i <= Len(s)) /\ (Len(s) + i) - Len(s) = i
    BY <1>2
  <2> QED
    BY <1>2, <2>1
<1>5. PICK m \in Nat : m = Len(s)
  BY <1>2
<1>6. PICK A \in SUBSET (1..Len(s)) : A = LineEnds(s)
  BY LinesFacts
<1>7. PICK B \in SUBSET (1..Len(t)) : B = LineEnds(t)
  BY LinesFacts
<1>8. PICK C : C = {m + i : i \in B}
  OBVIOUS
<1>9. /\ IsFiniteSet(A) /\ Cardinality(A) = Lines(s) /\ IsFiniteSet(C) /\ Cardinality(C) = Lines(t)
      /\ Lines(s) \in Nat /\ Lines(t) \in Nat
  <2>1. B \in SUBSET Nat /\ IsFiniteSet(B)
    BY <1>2, <1>7, LinesFacts
  <2>2. IsFiniteSet(C) /\ Cardinality(C) = Cardinality(B)
    BY <1>8, <2>1, ShiftFacts
  <2> QED
    BY <1>6, <1>7, <2>2, LinesFacts DEF Lines
<1>10. A \cap C = {}
  <2>1. \A i \in C : i > m
    BY <1>2, <1>7, <1>8
  <2> QED
    BY <1>2, <1>5, <1>6, <2>1
<1>11. IsFiniteSet(A \cup C) /\ Cardinality(A \cup C) = Lines(s) + Lines(t)
  <2>1. IsFiniteSet(A \cup C) /\ Cardinality(A \cup C) = Cardinality(A) + Cardinality(C) - Cardinality({})
    BY <1>9, <1>10, FS_Union
  <2>2. Cardinality({}) = 0
    BY FS_EmptySet
  <2> QED
    BY <1>9, <2>1, <2>2
<1>12. LineEnds(u) \subseteq A \cup C
  <2>1. SUFFICES ASSUME NEW i \in LineEnds(u) PROVE i \in A \cup C
    OBVIOUS
  <2>2. i \in 1..Len(u) /\ Cell(u[i]) = "nl" /\ \A j \in 1..i : Cell(u[j]) # "zero"
    BY <2>1 DEF LineEnds
  <2>3. CASE i <= Len(s)
    <3>1. i \in 1..Len(s) /\ \A j \in 1..i : j \in 1..Len(s)
      BY <1>2, <2>2, <2>3
    <3>2. Cell(s[i]) = "nl" /\ \A j \in 1..i : Cell(s[j]) # "zero"
      BY <1>3, <2>2, <3>1
    <3>3. i \in LineEnds(s)
      BY <3>1, <3>2 DEF LineEnds
    <3> QED
      BY <1>6, <3>3
  <2>4. CASE i > Len(s)
    <3>1. PICK k \in 1..Len(t) : i = Len(s) + k
      <4>1. i - Len(s) \in 1..Len(t) /\ i = Len(s) + (i - Len(s))
        BY <1>2, <2>2, <2>4
      <4> QED
        BY <4>1
    <3>2. Cell(t[k]) = "nl"
      BY <1>4, <2>2, <3>1
    <3>3. ASSUME NEW j \in 1..k PROVE Cell(t[j]) # "zero"
      <4>1. j \in 1..Len(t) /\ Len(s) + j \in 1..i
        BY <1>2, <3>1
      <4> QED
        BY <1>4, <2>2, <4>1
    <3>4. k \in LineEnds(t)
      BY <3>2, <3>3 DEF LineEnds
    <3> QED
      BY <1>5, <1>7, <1>8, <3>1, <3>4
  <2> QED
    BY <1>2, <2>2, <2>3, <2>4
<1>13. Lines(u) <= Lines(s) + Lines(t)
  <2>1. Cardinality(LineEnds(u)) <= Cardinality(A \cup C)
    BY <1>11, <1>12, FS_Subset
  <2> QED
    BY <1>11, <2>1 DEF Lines
<1>14. ASSUME \A i \in 1..Len(s) : Cell(s[i]) # "zero" PROVE A \cup C \subseteq LineEnds(u)
  <2>1. ASSUME NEW i \in A PROVE i \in LineEnds(u)
    <3>1. i \in 1..Len(s) /\ Cell(s[i]) = "nl" /\ \A j \in 1..i : Cell(s[j]) # "zero"
      BY <1>6, <2>1 DEF LineEnds
    <3>2. i \in 1..Len(u) /\ \A j \in 1..i : j \in 1..Len(s)
      BY <1>2, <3>1
    <3> QED
      BY <1>3, <3>1, <3>2 DEF LineEnds
  <2>2. ASSUME NEW i \in C PROVE i \in LineEnds(u)
    <3>1. PICK k \in LineEnds(t) : i = Len(s) + k
      BY <1>5, <1>7, <1>8
    <3>2. k \in 1..Len(t) /\ Cell(t[k]) = "nl" /\ \A j \in 1..k : Cell(t[j]) # "zero"
      BY <3>1 DEF LineEnds
    <3>3. i \in 1..Len(u) /\ Cell(u[i]) = "nl"
      BY <1>4, <3>1, <3>2
    <3>4. ASSUME NEW j \in 1..i PROVE Cell(u[j]) # "zero"
      <4>1. CASE j <= Len(s)
        <5>1. j \in 1..Len(s)
          BY <1>2, <4>1
        <5> QED
          BY <1>3, <1>14, <5>1
      <4>2. CASE j > Len(s)
        <5>1. PICK h \in 1..k : j = Len(s) + h
          <6>1. j - Len(s) \in 1..k /\ j = Len(s) + (j - Len(s))
            BY <1>2, <3>1, <3>2, <4>2
          <6> QED
            BY <6>1
        <5>2. h \in 1..Len(t)
          BY <1>2, <3>2
        <5>3. u[j] = t[h]
          BY <1>4, <5>1, <5>2
        <5> QED
          BY <3>2, <5>3
      <4> QED
        BY <1>2, <4>1, <4>2
    <3> QED
      BY <3>3, <3>4 DEF LineEnds
  <2> QED
    BY <2>1, <2>2
<1>15. ASSUME \A i \in 1..Len(s) : Cell(s[i]) # "zero" PROVE Lines(u) = Lines(s) + Lines(t)
  <2>1. LineEnds(u) = A \cup C
    BY <1>12, <1>14, <1>15
  <2> QED
    BY <1>11, <2>1 DEF Lines
<1> QED
  BY <1>1, <1>13, <1>15

\* The same of what pv counts.
LEMMA AmountMore ==
  ASSUME NEW s \in Seq(Byte), NEW t \in Seq(Byte)
  PROVE  /\ Amount(s) \in Nat /\ Amount(t) \in Nat /\ Amount(t) <= Len(t)
         /\ Amount(s \o t) \in Nat /\ Amount(s \o t) <= Amount(s) + Amount(t)
         /\ Uncounted(s) \/ Amount(s \o t) = Amount(s) + Amount(t)
         /\ Uncounted(s) => Uncounted(s \o t)
<1>1. /\ s \o t \in Seq(Byte) /\ Len(s \o t) = Len(s) + Len(t) /\ Len(s) \in Nat /\ Len(t) \in Nat
      /\ \A i \in 1..Len(s) : (s \o t)[i] = s[i]
  BY ConcatProperties
<1>2. /\ Lines(s) \in Nat /\ Lines(t) \in Nat /\ Lines(t) <= Len(t) /\ Lines(s \o t) \in Nat
      /\ Lines(s \o t) <= Lines(s) + Lines(t)
  BY <1>1, LinesFacts, LinesMore
<1>3. ASSUME ~Uncounted(s) PROVE Amount(s \o t) = Amount(s) + Amount(t)
  <2>1. CASE opt.line
    <3>1. \A i \in 1..Len(s) : Cell(s[i]) # "zero"
      BY <1>3, <2>1 DEF Uncounted
    <3>2. Lines(s \o t) = Lines(s) + Lines(t)
      BY <3>1, LinesMore
    <3> QED
      BY <2>1, <3>2 DEF Amount
  <2>2. CASE ~opt.line
    BY <1>1, <2>2 DEF Amount
  <2> QED
    BY <2>1, <2>2
<1>4. ASSUME Uncounted(s) PROVE Uncounted(s \o t)
  <2>1. PICK i \in 1..Len(s) : opt.line /\ Cell(s[i]) = "zero"
    BY <1>4 DEF Uncounted
  <2>2. i \in 1..Len(s \o t) /\ (s \o t)[i] = s[i]
    BY <1>1
  <2> QED
    BY <2>1, <2>2 DEF Uncounted
<1> QED
  BY <1>1, <1>2, <1>3, <1>4 DEF Amount

-----------------------------------------------------------------------------
(* pv keeps to its limits *)

\* From here on: of the options, which do not change.
USE DEF Stops
\* Lines have been counted twice: after the size to stop at was reached.
Twice(x) == opt.line /\ Stops /\ x > opt.size
\* A transfer may move what its turn has allowed, and has moved nothing before.
Allowed == pc \in {"select", "read", "write"} =>
             /\ lines = 0 /\ (written = 0 \/ (pc = "write" /\ spliced))
             /\ rate > 0 => allowed <= target
             /\ Stops => Limited /\ allowed <= opt.size - total
             /\ Limited /\ pc # "select" => to_write <= allowed
\* What was sent, the rate has allowed.
Paid == /\ target >= 0 \/ Twice(total)
        /\ pc \in {"write", "count"} /\ rate > 0 => Sent = 0 \/ Sent <= target \/ Twice(total + Sent)

\* One turn of the loop of pv_main_loop.
LEMMA TurnFacts ==
  ASSUME Types, Turn
  PROVE  /\ target' \in Int /\ target' >= target /\ pc = "loop" /\ ~abort
         /\ written' = 0 /\ UNCHANGED <<call, n, pos, buf, rate, total, out, closed, lost, ended, spliced, status>>
         /\ \/ /\ pc' = "select" /\ lines' = 0 /\ (eof_in' <=> eof_in) /\ (eof_out' <=> eof_out)
               /\ rate > 0 => allowed' <= target'
               /\ Stops => (rate > 0 \/ allowed' > 0) /\ allowed' <= opt.size - total
            \/ pc' = "count" /\ lines' = lines /\ Stops /\ total >= opt.size
<1> USE DEF call, output
<1>1. PICK t \in Tick : LET done == NearSize(t) /\ Cansend(t) <= 0
                        IN  /\ target' = t /\ allowed' = IF done THEN 0 ELSE Cansend(t)
                            /\ eof_in' = (eof_in \/ done) /\ eof_out' = (eof_out \/ done)
                            /\ lines' = IF done THEN lines ELSE 0
                            /\ pc' = IF done THEN "count" ELSE "select"
  BY DEF Turn
<1>2. /\ pc = "loop" /\ ~abort /\ written' = 0
      /\ UNCHANGED <<call, n, pos, buf, rate, total, out, closed, lost, ended, spliced, status>>
  BY DEF Turn
<1>3. t \in Int /\ t >= target /\ target' = t /\ Can(t) \in Int /\ Cansend(t) \in Int
  BY <1>1, TickFacts
<1>4. opt.size \in Nat /\ total \in Nat /\ rate \in Nat
  BY CallFacts DEF Types
<1>5. CASE NearSize(t) /\ Cansend(t) <= 0
  <2>1. pc' = "count" /\ lines' = lines
    BY <1>1, <1>5
  <2>2. Stops /\ Cansend(t) = opt.size - total
    BY <1>5 DEF NearSize, Cansend
  <2> QED
    BY <1>2, <1>3, <1>4, <1>5, <2>1, <2>2
<1>6. CASE ~(NearSize(t) /\ Cansend(t) <= 0)
  <2>1. pc' = "select" /\ lines' = 0 /\ allowed' = Cansend(t)
    BY <1>1, <1>6
  <2>2. (eof_in' <=> eof_in) /\ (eof_out' <=> eof_out)
    <3>1. (eof_in' = (eof_in \/ (NearSize(t) /\ Cansend(t) <= 0))) /\ (eof_out' = (eof_out \/ (NearSize(t) /\ Cansend(t) <= 0)))
      BY <1>1
    <3> QED
      BY <1>6, <3>1, Zenon
  <2>3. CASE NearSize(t)
    <3>1. /\ Cansend(t) = opt.size - total /\ Cansend(t) > 0
          /\ opt.size < total + Can(t) \/ (Can(t) = 0 /\ rate = 0)
      BY <1>3, <1>6, <2>3 DEF NearSize, Cansend
    <3>2. rate > 0 => Cansend(t) <= t
      BY <1>3, <1>4, <3>1 DEF Can
    <3> QED
      BY <1>2, <1>3, <1>4, <2>1, <2>2, <3>1, <3>2
  <2>4. CASE ~NearSize(t)
    <3>1. Cansend(t) = Can(t)
      BY <2>4 DEF Cansend
    <3>2. Stops => rate > 0 /\ Can(t) <= opt.size - total
      BY <1>3, <1>4, <2>4 DEF NearSize, Can
    <3>3. rate > 0 => Can(t) <= t
      BY <1>3 DEF Can
    <3> QED
      BY <1>2, <1>3, <1>4, <2>1, <2>2, <3>1, <3>2, <3>3
  <2> QED
    BY <2>3, <2>4
<1> QED
  BY <1>5, <1>6

\* One write.
LEMMA WroteFacts ==
  ASSUME Types, Asked, Allowed, WriteSome
  PROVE  \E k \in Nat :
           /\ k \in 0..Len(buf) /\ k > 0
           /\ out' = out \o SubSeq(buf, 1, k) /\ buf' = SubSeq(buf, k + 1, Len(buf))
           /\ written' = k /\ lines' = (IF opt.line THEN Lines(SubSeq(buf, 1, k)) ELSE 0)
           /\ Sent' \in Nat /\ Sent' <= k /\ Sent' = Amount(SubSeq(buf, 1, k))
           /\ k <= to_write /\ (Limited => k <= allowed)
           /\ OutputEnds(k)
           /\ pc = "write" /\ pc' = "count" /\ ~closed
           /\ UNCHANGED <<files, opt, n, pos, eof_in, rate, target, total, closed, lost, ended, status, spliced>>
<1> USE DEF call, limits, turn, input, output, counts
<1>1. PICK k \in 1..ToLine :
        /\ Out(k) /\ buf' = SubSeq(buf, k + 1, Len(buf)) /\ written' = written + k
        /\ lines' = (IF opt.line THEN Lines(SubSeq(buf, 1, k)) ELSE 0)
        /\ OutputEnds(k)
  BY DEF WriteSome
<1>2. /\ Writes /\ pc = "write" /\ ~spliced /\ pc' = "count" /\ ~closed
      /\ UNCHANGED <<files, opt, n, pos, eof_in, rate, target, total, closed, lost, ended, status, spliced>>
  BY DEF WriteSome, Writes
<1>3. k \in Nat /\ k > 0 /\ k \in 0..Len(buf) /\ k <= to_write /\ to_write \in Int
  BY <1>2, WriteFacts
<1>4. written = 0 /\ written' = k
  BY <1>1, <1>2, <1>3 DEF Allowed
<1>5. SubSeq(buf, 1, k) \in Seq(Byte) /\ Len(SubSeq(buf, 1, k)) = k
  BY <1>3, CutFacts DEF Types
<1>6. Lines(SubSeq(buf, 1, k)) \in Nat /\ Lines(SubSeq(buf, 1, k)) <= k
  BY <1>5, LinesFacts
<1>7. Sent' = Amount(SubSeq(buf, 1, k))
  BY <1>1, <1>2, <1>4, <1>5 DEF Sent, Amount
<1>8. Sent' \in Nat /\ Sent' <= k
  BY <1>3, <1>5, <1>6, <1>7 DEF Amount
<1>9. Limited => k <= allowed
  BY <1>2, <1>3 DEF Allowed, Types
<1> QED
  BY <1>1, <1>2, <1>3, <1>4, <1>7, <1>8, <1>9 DEF Out

\* A write that fails for good, or for want of a reader.
LEMMA FailedFacts ==
  ASSUME Types, Asked, Allowed, WritePipe \/ WriteError
  PROVE  \E k \in Nat :
           /\ k \in 0..Len(buf) /\ out' = out \o SubSeq(buf, 1, k) /\ (closed => k = 0)
           /\ k <= to_write /\ (Limited => k <= allowed)
           /\ pc = "write" /\ written = 0 /\ lines = 0
           /\ UNCHANGED <<files, opt, buf, rate, target, total, lines, lost>>
           /\ \/ WriteError /\ pc' = "end"
              \/ WritePipe /\ pc' = "count" /\ written' = 0 /\ closed'
<1> USE DEF call, limits, turn, input, output, counts
<1>1. PICK k \in 0..ToLine - 1 : Out(k) /\ (closed => k = 0)
  BY DEF WritePipe, WriteError
<1>2. /\ Writes /\ pc = "write" /\ ~spliced
      /\ UNCHANGED <<files, opt, buf, rate, target, total, lines, lost>>
      /\ \/ WriteError /\ pc' = "end"
         \/ WritePipe /\ pc' = "count" /\ written' = 0 /\ closed'
  BY DEF WritePipe, WriteError, Writes
<1>3. ToLine \in Int
  BY <1>2, ToLineFacts DEF Writes, Types, Asked
<1>4. k \in Nat /\ k \in 0..Len(buf) /\ k <= to_write /\ to_write \in Int
  BY <1>2, <1>3, WriteFacts
<1>5. written = 0 /\ lines = 0 /\ (Limited => k <= allowed)
  BY <1>2, <1>4 DEF Allowed, Types
<1> QED
  BY <1>1, <1>2, <1>4, <1>5 DEF Out

\* One splice that moves something.
LEMMA SplicedFacts ==
  ASSUME Types, Asked, Allowed, Splice, ~Nothing
  PROVE  \E k \in Nat :
           /\ out' = out \o CellsAt(pos, k, FALSE) /\ pos' = pos + k /\ written' = k /\ Sent' = k /\ Readable(k)
           /\ k > 0 /\ (Limited => k <= allowed) /\ ~opt.line /\ buf = <<>> /\ ~closed /\ spliced'
           /\ pc = "read" /\ pc' = "write"
           /\ UNCHANGED <<files, opt, n, eof_in, eof_out, lost, buf, rate, target, allowed, to_write, lines, total,
                          status, closed, ended>>
<1> USE DEF call, limits, turn, input, output, counts
<1>1. PICK k \in 1..SpliceAtMost :
        /\ Readable(k) /\ out' = out \o CellsAt(pos, k, FALSE)
        /\ pos' = pos + k /\ written' = k /\ read_errors' = 0 /\ pc' = "write"
        /\ UNCHANGED <<call, n, eof_in, lost, eof_out, buf, limits, turn, no_splice, lines, total,
                       abort, status, closed, ended>>
  BY DEF Splice
<1>2. SpliceAtMost \in Int
  BY AskedFacts DEF SpliceAtMost, Types
<1>3. k \in Nat /\ k > 0 /\ (Limited => k <= allowed)
  BY <1>2 DEF SpliceAtMost
<1>4. pc = "read" /\ ~opt.line /\ to_write = 0 /\ ~closed /\ spliced'
  BY DEF Splice, CanSplice
<1>5. Sent' = k
  BY <1>1, <1>4 DEF Sent
<1>6. buf = <<>>
  BY <1>2, <1>3, <1>4, SpliceEmpty
<1> QED
  BY <1>1, <1>3, <1>4, <1>5, <1>6

\* A transfer stays within what its turn has allowed.
LEMMA AllowedStep ==
  ASSUME Types, Asked, Allowed, [Next]_vars
  PROVE  Allowed'
<1> USE DEF call, limits, turn, input, output, counts
<1>1. CASE pc' \notin {"select", "read", "write"}
  BY <1>1 DEF Allowed
<1>2. CASE Turn
  BY <1>2, TurnFacts DEF Allowed, Limited
\* the counts stay
<1>3. ASSUME pc \in {"select", "read", "write"}, UNCHANGED <<opt, lines, written, rate, target, allowed, total>>,
             pc' \in {"read", "write"}, to_write' <= allowed \/ ~Limited, written = 0 \/ (pc' = "write" /\ spliced')
      PROVE  Allowed'
  <2>1. /\ lines = 0
        /\ rate > 0 => allowed <= target
        /\ Stops => Limited /\ allowed <= opt.size - total
    BY <1>3 DEF Allowed
  <2>2. Limited' <=> Limited
    BY <1>3 DEF Limited
  <2> QED
    BY <1>3, <2>1, <2>2 DEF Allowed
<1>4. CASE Select
  <2>1. pc = "select" /\ UNCHANGED <<opt, lines, written, rate, target, allowed, total>> /\ to_write' = ToWrite
    BY <1>4 DEF Select
  <2>2. pc' \in {"read", "write"}
    <3>1. pc' = IF rd' THEN "read" ELSE "write"
      BY <1>4 DEF Select
    <3> QED
      BY <3>1
  <2>3. Limited => ToWrite <= allowed
    <3>1. Len(buf) \in Nat /\ allowed \in Int
      BY DEF Types
    <3> QED
      BY <3>1 DEF ToWrite, AtMost
  <2>4. written = 0
    BY <2>1 DEF Allowed
  <2> QED
    BY <1>3, <2>1, <2>2, <2>3, <2>4
<1>5. CASE ReadSome \/ ReadEnd \/ ReadError
  <2>1. /\ pc = "read" /\ pc' = "write"
        /\ UNCHANGED <<opt, lines, written, rate, target, allowed, total, to_write>>
    BY <1>5 DEF ReadSome, ReadEnd, ReadError
  <2>2. written = 0 /\ (Limited => to_write <= allowed)
    BY <2>1 DEF Allowed
  <2> QED
    BY <1>3, <2>1, <2>2
<1>6. CASE Splice
  <2>1. CASE Nothing
    BY <1>1, <2>1 DEF Nothing
  <2>2. CASE ~Nothing
    <3>1. /\ pc = "read" /\ pc' = "write" /\ spliced' /\ to_write' = to_write
          /\ UNCHANGED <<opt, rate, target, allowed, lines, total>>
      BY <1>6, <2>2, SplicedFacts
    <3>2. /\ lines = 0 /\ (rate > 0 => allowed <= target)
          /\ Stops => Limited /\ allowed <= opt.size - total
          /\ Limited => to_write <= allowed
      BY <3>1 DEF Allowed
    <3>3. Limited' <=> Limited
      BY <3>1 DEF Limited
    <3> QED
      BY <3>1, <3>2, <3>3 DEF Allowed
  <2> QED
    BY <2>1, <2>2
<1>7. CASE Abort \/ UNCHANGED vars
  <2>1. UNCHANGED <<pc, opt, lines, written, rate, target, allowed, to_write, total, spliced>>
    BY <1>7 DEF Abort, vars
  <2> QED
    BY <2>1 DEF Allowed, Limited
<1>8. CASE NextFile \/ LoopAborts \/ Remote
  <2>1. pc' \notin {"select", "read", "write"}
    BY <1>8 DEF NextFile, LoopAborts, Remote
  <2> QED
    BY <1>1, <2>1
<1>9. CASE Interrupted \/ SelectFails \/ ReadTransient \/ Write \/ Count
  <2>1. pc' \notin {"select", "read", "write"}
    BY <1>9 DEF Interrupted, SelectFails, ReadTransient, Nothing, Write, NotYet, WriteSome, WriteNone,
                WritePipe, WriteError, Count
  <2> QED
    BY <1>1, <2>1
<1> QED
  BY <1>2, <1>4, <1>5, <1>6, <1>7, <1>8, <1>9 DEF Next, Step, Read

LEMMA PaidStep ==
  ASSUME Types, Asked, Allowed, Paid, [Next]_vars
  PROVE  Paid'
<1> USE DEF call, limits, turn, input, output, counts
<1>0. /\ target \in Int /\ rate \in Nat /\ total \in Nat /\ Sent \in Nat /\ opt.size \in Nat
      /\ target >= 0 \/ Twice(total)
  BY CallFacts DEF Types, Sent, Paid
\* nothing is due after the step, and nothing is charged in it
<1>1. ASSUME target' \in Int, target' >= target, UNCHANGED <<opt, total>>, pc' \notin {"write", "count"}
      PROVE  Paid'
  BY <1>0, <1>1 DEF Paid, Twice
\* nothing is due as nothing was sent
<1>2. ASSUME UNCHANGED <<opt, target, total>>, Sent' = 0
      PROVE  Paid'
  BY <1>0, <1>2 DEF Paid, Twice
\* what was sent was allowed
<1>3. ASSUME pc \in {"read", "write"}, UNCHANGED <<opt, rate, target, total>>, Sent' \in Int,
             Limited => Sent' <= allowed
      PROVE  Paid'
  <2>1. rate > 0 => Sent' <= target
    <3>1. rate > 0 => allowed <= target /\ Limited
      BY <1>3 DEF Allowed, Limited
    <3> QED
      BY <1>0, <1>3, <3>1 DEF Types
  <2> QED
    BY <1>0, <1>3, <2>1 DEF Paid, Twice
\* the same is due as before
<1>4. ASSUME pc \in {"write", "count"}, UNCHANGED <<opt, rate, target, total, written, lines>>
      PROVE  Paid'
  <2>1. Sent' = Sent
    BY <1>4 DEF Sent
  <2> QED
    BY <1>4, <2>1 DEF Paid, Twice
<1>5. CASE Turn
  <2>1. /\ target' \in Int /\ target' >= target /\ written' = 0 /\ UNCHANGED <<opt, total>>
        /\ pc' = "select" \/ (pc' = "count" /\ lines' = lines /\ Stops /\ total >= opt.size)
    BY <1>5, TurnFacts
  <2>2. CASE pc' = "select"
    BY <1>1, <2>1, <2>2
  <2>3. CASE pc' = "count"
    <3>1. lines' = lines /\ Stops /\ total >= opt.size
      BY <2>1, <2>3
    <3>2. Sent' = 0 \/ (opt.line /\ Sent' = lines)
      BY <2>1, <3>1 DEF Sent
    <3>3. lines \in Nat
      BY DEF Types
    <3>4. Sent' = 0 \/ Twice(total + Sent')
      BY <1>0, <3>1, <3>2, <3>3 DEF Twice
    <3>5. target' >= 0 \/ Twice(total)
      BY <1>0, <2>1
    <3> QED
      BY <2>1, <3>4, <3>5 DEF Paid, Twice
  <2> QED
    BY <2>1, <2>2, <2>3
<1>6. CASE NextFile \/ LoopAborts \/ SelectFails
  <2>1. UNCHANGED <<opt, target, total>> /\ pc' \notin {"write", "count"}
    BY <1>6 DEF NextFile, LoopAborts, SelectFails
  <2> QED
    BY <1>0, <1>1, <2>1
<1>7. CASE Remote
  <2>1. UNCHANGED <<opt, target, total>> /\ pc' \notin {"write", "count"}
    BY <1>7 DEF Remote
  <2> QED
    BY <1>0, <1>1, <2>1
<1>8. CASE Abort \/ UNCHANGED vars
  <2>1. UNCHANGED <<pc, opt, rate, target, total, written, lines>>
    BY <1>8 DEF Abort, vars
  <2> QED
    BY <2>1 DEF Paid, Twice, Sent
<1>9. CASE Select \/ Interrupted
  <2>1. pc = "select" /\ UNCHANGED <<opt, target, total, lines>> /\ written' \in {0, written}
    BY <1>9 DEF Select, Interrupted, Nothing
  <2>2. Sent' = 0
    BY <2>1 DEF Sent, Allowed
  <2> QED
    BY <1>2, <2>1, <2>2
<1>10. CASE ReadSome \/ ReadEnd \/ ReadError
  <2>1. pc = "read" /\ UNCHANGED <<opt, target, total, lines, written>>
    BY <1>10 DEF ReadSome, ReadEnd, ReadError
  <2>2. Sent' = 0
    BY <2>1 DEF Sent, Allowed
  <2> QED
    BY <1>2, <2>1, <2>2
<1>11. ASSUME pc = "read", Nothing PROVE Paid'
  <2>1. UNCHANGED <<opt, target, total, lines>> /\ written' = 0
    BY <1>11 DEF Nothing
  <2>2. Sent' = 0
    BY <1>11, <2>1 DEF Sent, Allowed
  <2> QED
    BY <1>2, <2>1, <2>2
<1>12. CASE ReadTransient
  BY <1>11, <1>12 DEF ReadTransient
<1>13. CASE Splice
  <2>1. CASE Nothing
    BY <1>11, <1>13, <2>1 DEF Splice
  <2>2. CASE ~Nothing
    <3>1. PICK k \in Nat : /\ Sent' = k /\ (Limited => k <= allowed) /\ pc = "read"
                           /\ UNCHANGED <<opt, rate, target, total>>
      BY <1>13, <2>2, SplicedFacts
    <3> QED
      BY <1>3, <3>1
  <2> QED
    BY <2>1, <2>2
<1>14. CASE NotYet \/ WriteNone
  <2>1. pc = "write" /\ UNCHANGED <<opt, rate, target, total, written, lines>>
    BY <1>14 DEF NotYet, WriteNone, Writes
  <2> QED
    BY <1>4, <2>1
<1>15. CASE WriteSome
  <2>1. PICK k \in Nat : /\ Sent' \in Nat /\ Sent' <= k /\ (Limited => k <= allowed) /\ pc = "write"
                         /\ UNCHANGED <<opt, rate, target, total>>
    BY <1>15, WroteFacts
  <2>2. Limited => Sent' <= allowed
    BY <2>1 DEF Types
  <2> QED
    BY <1>3, <2>1, <2>2
<1>16. CASE WritePipe \/ WriteError
  <2>1. /\ UNCHANGED <<opt, target, total, lines>> /\ lines = 0
        /\ pc' = "end" \/ written' = 0
    BY <1>16, FailedFacts
  <2>2. CASE pc' = "end"
    BY <1>0, <1>1, <2>1, <2>2
  <2>3. CASE written' = 0
    BY <1>2, <2>1, <2>3 DEF Sent
  <2> QED
    BY <2>1, <2>2, <2>3
<1>17. CASE Count
  <2>1. /\ pc = "count" /\ total' = total + Sent /\ target' = (IF rate > 0 THEN target - Sent ELSE target)
        /\ pc' \notin {"write", "count"} /\ UNCHANGED <<opt, rate>>
    BY <1>17 DEF Count, Counting
  <2>2. Twice(total) => Twice(total + Sent)
    BY <1>0 DEF Twice
  <2>3. rate > 0 => Sent = 0 \/ Sent <= target \/ Twice(total + Sent)
    BY <2>1 DEF Paid
  <2>4. target' >= 0 \/ Twice(total + Sent)
    BY <1>0, <2>1, <2>2, <2>3
  <2> QED
    BY <2>1, <2>4 DEF Paid, Twice
<1> QED
  BY <1>5, <1>6, <1>7, <1>8, <1>9, <1>10, <1>12, <1>13, <1>14, <1>15, <1>16, <1>17
     DEF Next, Step, Read, Write

\* Every step leaves the call as it is.
LEMMA CallStays ==
  ASSUME [Next]_vars
  PROVE  /\ files' = files /\ opt' = opt
         /\ Amount(out)' = Amount(out') /\ (Uncounted(out)' <=> Uncounted(out'))
<1> USE DEF call
<1>1. files' = files /\ opt' = opt
  <2>1. CASE NextFile \/ Turn \/ LoopAborts \/ Select \/ Interrupted \/ SelectFails \/ Count \/ Remote \/ Abort
    BY <2>1 DEF NextFile, Turn, LoopAborts, Select, Interrupted, Nothing, SelectFails, Count, Remote, Abort
  <2>2. CASE Read
    BY <2>2 DEF Read, Splice, ReadSome, ReadEnd, ReadTransient, ReadError, Nothing
  <2>3. CASE Write
    BY <2>3 DEF Write, NotYet, WriteSome, WriteNone, WritePipe, WriteError
  <2>4. CASE UNCHANGED vars
    BY <2>4 DEF vars
  <2> QED
    BY <2>1, <2>2, <2>3, <2>4 DEF Next, Step
<1>2. \A c : Cell(c)' = Cell(c)
  BY <1>1 DEF Cell
<1>3. Amount(out)' = Amount(out')
  BY <1>1 DEF Amount, Lines, LineEnds, Cell
<1>4. Uncounted(out)' <=> Uncounted(out')
  BY <1>1 DEF Uncounted, Cell
<1> QED
  BY <1>1, <1>3, <1>4

\* What the next count adds.
Pending == IF pc \in {"write", "count"} THEN Sent ELSE 0
\* The size to stop at is reached, so that lines may be counted again.
Full == opt.line /\ Stops /\ total >= opt.size /\ Amount(out) >= opt.size
\* What is counted is what went out, which is no more than may.
Counted == /\ Stops => Amount(out) <= opt.size \/ Uncounted(out)
           /\ ~closed /\ (pc # "end" \/ status = {}) =>
                Uncounted(out) \/ Full \/ Amount(out) = total + Pending

LEMMA CountedStep ==
  ASSUME Types, Asked, Allowed, Counted, [Next]_vars
  PROVE  Counted'
<1> USE DEF call, limits, turn, input, output, counts
<1>0. /\ total \in Nat /\ Sent \in Nat /\ lines \in Nat /\ written \in Nat /\ opt.size \in Nat
      /\ out \in Seq(Byte) /\ buf \in Seq(Byte) /\ Amount(out) \in Nat
  <2>1. out \in Seq(Byte) /\ buf \in Seq(Byte)
    BY DEF Types
  <2>2. Amount(out) \in Nat
    BY <2>1, AmountMore
  <2> QED
    BY <2>1, <2>2, CallFacts DEF Types, Sent
<1>1. /\ opt' = opt /\ Amount(out)' = Amount(out') /\ (Uncounted(out)' <=> Uncounted(out'))
  BY CallStays
\* nothing goes out
<1>2. ASSUME out' = out, pc' = "end" /\ status' # {}
      PROVE  Counted'
  BY <1>1, <1>2 DEF Counted
<1>3. ASSUME out' = out, UNCHANGED <<total, closed>>, pc # "end", Pending' = Pending
      PROVE  Counted'
  BY <1>1, <1>3 DEF Counted, Full
<1>4. CASE NextFile
  <2>1. /\ UNCHANGED <<out, total, closed>> /\ pc = "open"
        /\ pc' = (IF files[n].fails = {} THEN "loop" ELSE "end") /\ status' = status \cup files[n].fails
    BY <1>4 DEF NextFile
  <2>2. CASE files[n].fails = {}
    BY <1>3, <2>1, <2>2 DEF Pending
  <2>3. CASE files[n].fails # {}
    BY <1>2, <2>1, <2>3
  <2> QED
    BY <2>2, <2>3
<1>5. CASE LoopAborts \/ SelectFails
  <2>1. out' = out /\ pc' = "end" /\ status' # {}
    BY <1>5 DEF LoopAborts, SelectFails
  <2> QED
    BY <1>2, <2>1
<1>6. CASE Turn
  <2>1. /\ pc = "loop" /\ written' = 0 /\ UNCHANGED <<out, total, closed>>
        /\ pc' = "select" \/ (pc' = "count" /\ lines' = lines /\ Stops /\ total >= opt.size)
    BY <1>6, TurnFacts DEF call
  <2>2. CASE pc' = "select"
    BY <1>3, <2>1, <2>2 DEF Pending
  <2>3. CASE pc' = "count" /\ ~opt.line
    <3>1. Pending' = 0 /\ Pending = 0
      BY <1>1, <2>1, <2>3 DEF Pending, Sent
    <3> QED
      BY <1>3, <2>1, <3>1
  <2>4. CASE pc' = "count" /\ opt.line
    <3>1. Stops /\ total >= opt.size /\ Pending = 0
      BY <2>1, <2>4 DEF Pending
    <3>2. closed \/ Uncounted(out) \/ Full
      BY <1>0, <2>1, <2>4, <3>1 DEF Counted, Full
    <3> QED
      BY <1>1, <2>1, <3>2 DEF Counted, Full
  <2> QED
    BY <2>1, <2>2, <2>3, <2>4
<1>7. CASE Remote \/ Abort \/ UNCHANGED vars
  <2>1. UNCHANGED <<out, total, closed, written, lines, pc, status>>
    BY <1>7 DEF Remote, Abort, vars
  <2>2. Pending' = Pending
    BY <1>1, <2>1 DEF Pending, Sent
  <2> QED
    BY <1>1, <2>1, <2>2 DEF Counted, Full
<1>8. ASSUME pc \in {"select", "read"}, UNCHANGED <<out, total, closed, lines>>, written' \in {0, written}
      PROVE  Counted'
  <2>1. lines = 0 /\ written = 0
    BY <1>8 DEF Allowed
  <2>2. Pending' = 0 /\ Pending = 0
    BY <1>8, <2>1 DEF Pending, Sent
  <2> QED
    BY <1>3, <1>8, <2>2
<1>9. CASE Select \/ Interrupted \/ ReadSome \/ ReadEnd \/ ReadError \/ ReadTransient
  <2>1. pc \in {"select", "read"} /\ UNCHANGED <<out, total, closed, lines>> /\ written' \in {0, written}
    BY <1>9 DEF Select, Interrupted, ReadSome, ReadEnd, ReadError, ReadTransient, Nothing
  <2> QED
    BY <1>8, <2>1
<1>10. CASE NotYet \/ WriteNone
  <2>1. pc = "write" /\ pc' = "count" /\ UNCHANGED <<out, total, closed, lines, written>>
    BY <1>10 DEF NotYet, WriteNone, Writes
  <2>2. Pending' = Pending
    BY <1>1, <2>1 DEF Pending, Sent
  <2> QED
    BY <1>3, <2>1, <2>2
\* Before anything goes out, no more has than was counted.
<1>11. ASSUME pc \in {"read", "write"}, Sent = 0, ~closed, Stops
       PROVE  Uncounted(out) \/ Amount(out) <= total
  <2>1. Uncounted(out) \/ Full \/ Amount(out) = total
    BY <1>0, <1>11 DEF Counted, Pending
  <2>2. Uncounted(out) \/ Amount(out) <= opt.size
    BY <1>11 DEF Counted
  <2> QED
    BY <1>0, <2>1, <2>2 DEF Full
\* So what goes out keeps to the size.
<1>12. ASSUME pc \in {"read", "write"}, Sent = 0, ~closed, NEW t \in Seq(Byte), out' = out \o t,
              Limited => Len(t) <= allowed
       PROVE  Stops => Amount(out') <= opt.size \/ Uncounted(out')
  <2>1. Amount(out') \in Nat /\ Amount(out') <= Amount(out) + Len(t) /\ (Uncounted(out) => Uncounted(out'))
    <3>1. /\ Amount(t) \in Nat /\ Amount(t) <= Len(t)
          /\ Amount(out \o t) \in Nat /\ Amount(out \o t) <= Amount(out) + Amount(t)
          /\ Uncounted(out) => Uncounted(out \o t)
      BY <1>0, AmountMore
    <3> QED
      BY <1>0, <1>12, <3>1
  <2>2. Stops => Len(t) <= opt.size - total
    <3>1. Stops => Limited /\ allowed <= opt.size - total
      BY <1>12 DEF Allowed
    <3>2. allowed \in Int /\ Len(t) \in Nat
      BY DEF Types
    <3> QED
      BY <1>0, <1>12, <3>1, <3>2
  <2>3. Len(t) \in Nat
    OBVIOUS
  <2> QED
    BY <1>0, <1>11, <1>12, <2>1, <2>2, <2>3
\* and what of it is counted is what went out.
<1>13. ASSUME pc \in {"read", "write"}, Sent = 0, ~closed, NEW t \in Seq(Byte), out' = out \o t,
              Limited => Len(t) <= allowed, Pending' = Amount(t), total' = total
       PROVE  Counted'
  <2>1. Stops => Amount(out') <= opt.size \/ Uncounted(out')
    BY <1>12, <1>13
  <2>2. /\ Amount(out') \in Nat /\ Amount(t) \in Nat
        /\ Uncounted(out) => Uncounted(out')
        /\ Uncounted(out) \/ Amount(out') = Amount(out) + Amount(t)
    BY <1>0, <1>13, AmountMore
  <2>3. Uncounted(out) \/ Full \/ Amount(out) = total
    BY <1>0, <1>13 DEF Counted, Pending
  <2>4. CASE Uncounted(out)
    BY <1>1, <2>1, <2>2, <2>4 DEF Counted
  <2>5. CASE ~Uncounted(out) /\ Full
    <3>1. opt.line /\ Stops /\ total' >= opt.size /\ Amount(out') >= opt.size
      BY <1>0, <1>13, <2>2, <2>5 DEF Full
    <3> QED
      BY <1>1, <2>1, <3>1 DEF Counted, Full
  <2>6. CASE Amount(out') = Amount(out) + Amount(t) /\ Amount(out) = total
    <3>1. Amount(out') = total' + Pending'
      BY <1>13, <2>6
    <3> QED
      BY <1>1, <2>1, <3>1 DEF Counted
  <2> QED
    BY <2>2, <2>3, <2>4, <2>5, <2>6
<1>14. CASE Splice
  <2>1. CASE Nothing
    <3>1. pc = "read" /\ UNCHANGED <<out, total, closed, lines>> /\ written' = 0
      BY <1>14, <2>1 DEF Splice, Nothing
    <3> QED
      BY <1>8, <3>1
  <2>2. CASE ~Nothing
    <3>1. PICK k \in Nat : /\ out' = out \o CellsAt(pos, k, FALSE) /\ Sent' = k
                           /\ (Limited => k <= allowed) /\ ~opt.line /\ ~closed
                           /\ pc = "read" /\ pc' = "write" /\ total' = total
      BY <1>14, <2>2, SplicedFacts
    <3>2. PICK t \in Seq(Byte) : t = CellsAt(pos, k, FALSE) /\ Len(t) = k
      <4>1. n \in Nat /\ pos \in Nat
        BY CallFacts DEF Types
      <4> QED
        BY <4>1, CellsFacts
    <3>3. Pending' = k
      BY <3>1 DEF Pending
    <3>4. Amount(t) = k
      BY <3>1, <3>2 DEF Amount
    <3>5. Sent = 0
      BY <3>1 DEF Sent, Allowed
    <3> QED
      BY <1>13, <3>1, <3>2, <3>3, <3>4, <3>5
  <2> QED
    BY <2>1, <2>2
<1>15. CASE WriteSome
  <2>1. PICK k \in Nat :
          /\ k \in 0..Len(buf) /\ out' = out \o SubSeq(buf, 1, k)
          /\ Sent' = Amount(SubSeq(buf, 1, k)) /\ (Limited => k <= allowed)
          /\ pc = "write" /\ pc' = "count" /\ ~closed /\ total' = total
    BY <1>15, WroteFacts
  <2>2. PICK t \in Seq(Byte) : t = SubSeq(buf, 1, k) /\ Len(t) = k
    BY <1>0, <2>1, CutFacts
  <2>3. ~spliced
    BY <1>15 DEF WriteSome, Writes
  <2>4. Sent = 0
    BY <2>1, <2>3 DEF Sent, Allowed
  <2>5. Pending' = Amount(t)
    BY <2>1, <2>2 DEF Pending
  <2> QED
    BY <1>13, <2>1, <2>2, <2>4, <2>5
<1>16. CASE WritePipe \/ WriteError
  <2>1. PICK k \in Nat :
          /\ k \in 0..Len(buf) /\ out' = out \o SubSeq(buf, 1, k) /\ (closed => k = 0)
          /\ (Limited => k <= allowed)
          /\ pc = "write" /\ written = 0 /\ lines = 0
          /\ \/ WriteError /\ pc' = "end"
             \/ WritePipe /\ pc' = "count" /\ written' = 0 /\ closed'
    BY <1>16, FailedFacts
  <2>2. PICK t \in Seq(Byte) : t = SubSeq(buf, 1, k) /\ Len(t) = k
    BY <1>0, <2>1, CutFacts
  <2>3. Sent = 0
    BY <2>1 DEF Sent
  <2>4. closed' \/ (pc' = "end" /\ status' # {})
    BY <2>1 DEF WriteError
  <2>5. Stops => Amount(out') <= opt.size \/ Uncounted(out')
    <3>1. CASE ~closed
      BY <1>12, <2>1, <2>2, <2>3, <3>1
    <3>2. CASE closed
      <4>1. t = <<>>
        BY <2>1, <2>2, <3>2, EmptySeq
      <4>2. out' = out
        BY <1>0, <2>1, <2>2, <4>1, ConcatEmptySeq
      <4> QED
        BY <4>2 DEF Counted
    <3> QED
      BY <3>1, <3>2
  <2> QED
    BY <1>1, <2>4, <2>5 DEF Counted
<1>17. CASE Count
  <2>1. /\ pc = "count" /\ total' = total + Sent /\ pc' \notin {"write", "count"}
        /\ UNCHANGED <<out, closed>>
    BY <1>17 DEF Count, Counting
  <2>2. Pending = Sent /\ Pending' = 0
    BY <2>1 DEF Pending
  <2>3. Full => Full'
    BY <1>0, <1>1, <2>1 DEF Full
  <2>4. ~closed => Uncounted(out) \/ Full \/ Amount(out) = total + Sent
    BY <2>1, <2>2 DEF Counted
  <2>5. Amount(out) = total + Sent => Amount(out') = total' + Pending'
    BY <1>0, <2>1, <2>2
  <2> QED
    BY <1>1, <2>1, <2>3, <2>4, <2>5 DEF Counted
<1> QED
  BY <1>4, <1>5, <1>6, <1>7, <1>9, <1>10, <1>14, <1>15, <1>16, <1>17 DEF Next, Step, Read, Write

LEMMA StartCounts ==
  ASSUME Init
  PROVE  Allowed /\ Paid /\ Counted
<1>1. pc = "open" /\ target = 0 /\ total = 0 /\ out = <<>>
  BY DEF Init
<1>2. Amount(out) = 0
  <2>1. out \in Seq(Byte) /\ Len(out) = 0
    BY <1>1, EmptySeq
  <2>2. Lines(out) = 0
    <3>1. Lines(out) \in Nat /\ Lines(out) <= Len(out)
      BY <2>1, LinesFacts
    <3> QED
      BY <2>1, <3>1
  <2> QED
    BY <2>1, <2>2 DEF Amount
<1>3. opt.size \in Nat
  BY CallFacts DEF Init
<1>4. Paid
  BY <1>1 DEF Paid
<1>5. Counted
  BY <1>1, <1>2, <1>3 DEF Counted, Pending
<1> QED
  BY <1>1, <1>4, <1>5 DEF Allowed

\* For any files and options, any rate and size, and whatever the input and the
\* output do: what goes out is not more than the rate has allowed, but for lines
\* counted twice, nor than the size to stop at, but for lines behind a zero
\* (WithinLimits).
THEOREM LimitsKept == Spec => []WithinLimits
<1> DEFINE IInv == Types /\ Asked /\ Allowed /\ Paid /\ Counted
<1>1. Init => IInv
  BY Start, StartCounts
<1>2. IInv /\ [Next]_vars => IInv'
  BY TypesStep, AskedStep, AllowedStep, PaidStep, CountedStep
<1>3. IInv => WithinLimits
  BY DEF Paid, Counted, Twice, WithinLimits
<1> QED
  BY <1>1, <1>2, <1>3, PTL DEF Spec

-----------------------------------------------------------------------------
(* Everything is there *)

Less(c, d) == c.file < d.file \/ (c.file = d.file /\ c.at < d.at)
Sorted(s) == \A i, j \in 1..Len(s) : i < j => Less(s[i], s[j])

LEMMA UpToFacts ==
  ASSUME files \in Inputs, opt \in Options, NEW f \in 1..Len(files), NEW k \in Int
  PROVE  /\ f \in Nat /\ Len(files[f].cells) \in Nat
         /\ \A c \in UpTo(f, k) :
              /\ c \in Byte /\ c.file \in 1..f /\ c.at \in 1..Len(files[c.file].cells) /\ ~c.zero
              /\ c = [file |-> c.file, at |-> c.at, zero |-> FALSE]
              /\ c.file = f => c.at <= k
         /\ \A g \in 1..f : \A i \in 1..Len(files[g].cells) :
              (g = f => i <= k) => [file |-> g, at |-> i, zero |-> FALSE] \in UpTo(f, k)
<1>1. f \in Nat /\ \A g \in 1..f : /\ g \in 1..Len(files) /\ g \in Nat
                                   /\ DOMAIN files[g].cells = 1..Len(files[g].cells)
                                   /\ Len(files[g].cells) \in Nat
  <2>1. Len(files) \in Nat /\ \A g \in 1..Len(files) : files[g].cells \in Seq(STRING)
    BY CallFacts
  <2>2. f \in Nat /\ \A g \in 1..f : g \in 1..Len(files) /\ g \in Nat
    BY <2>1
  <2>3. ASSUME NEW g \in 1..Len(files)
        PROVE  DOMAIN files[g].cells = 1..Len(files[g].cells) /\ Len(files[g].cells) \in Nat
    <3>1. files[g].cells \in Seq(STRING)
      BY <2>1, <2>3
    <3> QED
      BY <3>1, LenProperties
  <2> QED
    BY <2>2, <2>3
<1>2. f \in 1..f
  BY <1>1
<1>3. ASSUME NEW c \in UpTo(f, k)
      PROVE  /\ c \in Byte /\ c.file \in 1..f /\ c.at \in 1..Len(files[c.file].cells) /\ ~c.zero
             /\ c = [file |-> c.file, at |-> c.at, zero |-> FALSE]
             /\ c.file = f => c.at <= k
  <2>1. PICK g \in 1..f : \E i \in DOMAIN files[g].cells : c = [file |-> g, at |-> i, zero |-> FALSE]
    BY <1>3 DEF UpTo
  <2>2. PICK i \in DOMAIN files[g].cells : c = [file |-> g, at |-> i, zero |-> FALSE]
    BY <2>1
  <2>3. c.file = f => c.at <= k
    BY <1>3 DEF UpTo
  <2>4. g \in Nat /\ i \in 1..Len(files[g].cells) /\ i \in Nat
    BY <1>1, <2>2
  <2>5. c.file = g /\ c.at = i /\ c.zero = FALSE
    BY <2>2
  <2>6. c \in Byte
    BY <2>2, <2>4 DEF Byte
  <2> QED
    BY <2>2, <2>3, <2>4, <2>5, <2>6
<1>4. ASSUME NEW g \in 1..f, NEW i \in 1..Len(files[g].cells), g = f => i <= k
      PROVE  [file |-> g, at |-> i, zero |-> FALSE] \in UpTo(f, k)
  <2>1. i \in DOMAIN files[g].cells
    BY <1>1
  <2>2. PICK c : c = [file |-> g, at |-> i, zero |-> FALSE]
    OBVIOUS
  <2>3. c \in UNION {{[file |-> h, at |-> j, zero |-> FALSE] : j \in DOMAIN files[h].cells} : h \in 1..f}
    <3>1. c \in {[file |-> g, at |-> j, zero |-> FALSE] : j \in DOMAIN files[g].cells}
      BY <2>1, <2>2, Zenon
    <3> QED
      BY <3>1, Zenon
  <2>4. c.file = f => c.at <= k
    BY <1>4, <2>2
  <2>5. c \in UpTo(f, k)
    BY <2>3, <2>4 DEF UpTo
  <2> QED
    BY <2>2, <2>5
<1> QED
  BY <1>1, <1>2, <1>3, <1>4

\* Of what is complete up to a place and sorted, so is every part from its start.
LEMMA BeginningFacts ==
  ASSUME files \in Inputs, opt \in Options, n \in 1..Len(files), pos \in Nat,
         NEW s \in Seq(Byte), NEW t \in Seq(Byte),
         Range(s \o t) = UpTo(n, pos), Sorted(s \o t)
  PROVE  Beginning(s)
<1>1. PICK u \in Seq(Byte) : u = s \o t
  BY ConcatProperties
<1>2. /\ Len(s) \in Nat /\ Len(u) \in Nat /\ Len(s) <= Len(u) /\ \A i \in 1..Len(s) : u[i] = s[i]
  BY <1>1, ConcatProperties
<1>3. /\ DOMAIN u = 1..Len(u) /\ DOMAIN s = 1..Len(s)
  BY LenProperties
<1>4. /\ Range(u) = UpTo(n, pos) /\ \A i, j \in 1..Len(u) : i < j => Less(u[i], u[j])
  BY <1>1 DEF Sorted
<1>5. ASSUME NEW c \in Range(s) PROVE c \in UpTo(n, pos)
  <2>1. PICK i \in 1..Len(s) : c = s[i]
    BY <1>3 DEF Range
  <2>2. i \in 1..Len(u) /\ u[i] = c
    BY <1>2, <2>1
  <2> QED
    BY <1>3, <1>4, <2>2 DEF Range
<1>6. n \in Nat /\ Len(files) \in Nat
  BY CallFacts
<1>7. ASSUME NEW c \in Range(s)
      PROVE  /\ c \in UpTo(c.file, c.at) /\ c.file \in 1..n /\ c.file \in 1..Len(files) /\ c.file \in Nat /\ c.at \in Nat
             /\ c.file = n => c.at <= pos
  <2>1. c \in UpTo(n, pos)
    BY <1>5
  <2>2. /\ c.file \in 1..n /\ c.at \in 1..Len(files[c.file].cells)
        /\ c = [file |-> c.file, at |-> c.at, zero |-> FALSE] /\ c \in Byte
        /\ c.file = n => c.at <= pos
    BY <1>6, <2>1, UpToFacts
  <2>3. PICK g \in 1..Len(files), k \in Int : g = c.file /\ k = c.at
    BY <1>6, <2>2 DEF Byte
  <2>4. g \in 1..g /\ k \in 1..Len(files[g].cells) /\ k <= k
    BY <1>6, <2>2, <2>3
  <2>5. [file |-> g, at |-> k, zero |-> FALSE] \in UpTo(g, k)
    BY <2>3, <2>4, UpToFacts
  <2> QED
    BY <1>6, <2>2, <2>3, <2>5 DEF Byte
<1>8. ASSUME NEW c \in Range(s), NEW d \in UpTo(c.file, c.at) PROVE d \in Range(s)
  <2>1. PICK g \in 1..Len(files), k \in Int : g = c.file /\ k = c.at
    BY <1>7
  <2>2. g \in 1..n /\ g \in Nat /\ (g = n => k <= pos)
    BY <1>7, <2>1
  <2>3. d \in UpTo(g, k)
    BY <1>8, <2>1
  <2>4. /\ d \in Byte /\ d.file \in 1..g /\ d.at \in 1..Len(files[d.file].cells)
        /\ d = [file |-> d.file, at |-> d.at, zero |-> FALSE]
        /\ d.file = g => d.at <= k
    BY <2>1, <2>3, UpToFacts
  <2>5. d.file \in 1..n /\ (d.file = n => d.at <= pos) /\ d.at \in Nat
    BY <1>6, <2>2, <2>4 DEF Byte
  <2>6. d \in UpTo(n, pos)
    <3>1. PICK h \in 1..n : h = d.file
      BY <2>5
    <3>2. PICK i \in 1..Len(files[h].cells) : i = d.at
      BY <2>4, <3>1
    <3>3. [file |-> h, at |-> i, zero |-> FALSE] \in UpTo(n, pos)
      BY <2>5, <3>1, <3>2, UpToFacts
    <3> QED
      BY <2>4, <3>1, <3>2, <3>3
  <2>7. PICK j \in 1..Len(u) : u[j] = d
    BY <1>3, <1>4, <2>6 DEF Range
  <2>8. PICK i \in 1..Len(s) : c = s[i]
    BY <1>3 DEF Range
  <2>9. j <= Len(s)
    <3>1. SUFFICES ASSUME j > Len(s) PROVE FALSE
      BY <1>2
    <3>2. i \in 1..Len(u) /\ i < j /\ u[i] = c
      BY <1>2, <2>8, <3>1
    <3>3. Less(c, d)
      BY <1>4, <2>7, <3>2
    <3>4. d.file \in Nat /\ d.file <= g /\ d.at \in Nat
      BY <2>2, <2>4, <2>5
    <3> QED
      BY <2>1, <2>2, <2>4, <3>3, <3>4 DEF Less
  <2>10. j \in 1..Len(s) /\ s[j] = d
    BY <1>2, <2>7, <2>9
  <2> QED
    BY <1>3, <2>10 DEF Range
<1>9. Range(s) \subseteq UNION {UpTo(c.file, c.at) : c \in Range(s)}
  <2>1. ASSUME NEW c \in Range(s) PROVE c \in UNION {UpTo(e.file, e.at) : e \in Range(s)}
    BY <1>7
  <2> QED
    BY <2>1
<1>10. UNION {UpTo(c.file, c.at) : c \in Range(s)} \subseteq Range(s)
  BY <1>8
<1> QED
  BY <1>9, <1>10 DEF Beginning

\* What is read goes on where the rest has ended.
LEMMA SeenMore ==
  ASSUME files \in Inputs, opt \in Options, n \in 1..Len(files), pos \in Nat, NEW k \in Nat,
         pos + k <= Len(File), NEW s \in Seq(Byte), Range(s) = UpTo(n, pos), Sorted(s)
  PROVE  /\ Range(s \o CellsAt(pos, k, FALSE)) = UpTo(n, pos + k)
         /\ Sorted(s \o CellsAt(pos, k, FALSE))
<1>0. n \in Nat /\ Len(files) \in Nat /\ Len(File) \in Nat
  BY CallFacts
<1>1. PICK c \in Seq(Byte) : c = CellsAt(pos, k, FALSE)
  BY <1>0, CellsFacts
<1>2. Len(c) = k /\ \A i \in 1..k : c[i] = [file |-> n, at |-> pos + i, zero |-> FALSE]
  BY <1>0, <1>1, CellsFacts
<1>3. PICK u \in Seq(Byte) : u = s \o c
  BY ConcatProperties
<1>4. /\ Len(s) \in Nat /\ Len(u) = Len(s) + k
      /\ \A i \in 1..Len(u) : u[i] = IF i <= Len(s) THEN s[i] ELSE c[i - Len(s)]
  <2>1. Len(s \o c) = Len(s) + Len(c) /\ \A i \in 1..Len(s) + Len(c) :
           (s \o c)[i] = IF i <= Len(s) THEN s[i] ELSE c[i - Len(s)]
    BY ConcatProperties
  <2> QED
    BY <1>2, <1>3, <2>1
<1>5. \A i \in 1..Len(s) : u[i] = s[i] /\ i \in 1..Len(u)
  BY <1>4
<1>6. ASSUME NEW i \in 1..k
      PROVE  Len(s) + i \in 1..Len(u) /\ u[Len(s) + i] = [file |-> n, at |-> pos + i, zero |-> FALSE]
  <2>1. Len(s) + i \in 1..Len(u) /\ ~(Len(s) + i <= Len(s)) /\ (Len(s) + i) - Len(s) = i
    BY <1>4
  <2>2. u[Len(s) + i] = c[i]
    BY <1>4, <2>1
  <2> QED
    BY <1>2, <2>1, <2>2
<1>7. DOMAIN u = 1..Len(u) /\ DOMAIN s = 1..Len(s)
  BY LenProperties
\* the cells up to here, and those from here on
<1>8. \A d \in UpTo(n, pos) : /\ d \in Byte /\ d.file \in 1..n /\ d.at \in 1..Len(files[d.file].cells)
                              /\ d = [file |-> d.file, at |-> d.at, zero |-> FALSE] /\ (d.file = n => d.at <= pos)
  BY <1>0, UpToFacts
<1>9. ASSUME NEW i \in 1..Len(s) PROVE s[i] \in UpTo(n, pos)
  BY <1>7 DEF Range
<1>10. ASSUME NEW i \in 1..Len(u), NEW j \in 1..Len(u), i < j PROVE Less(u[i], u[j])
  <2>1. CASE j <= Len(s)
    <3>1. i \in 1..Len(s) /\ j \in 1..Len(s)
      BY <1>4, <1>10, <2>1
    <3> QED
      BY <1>5, <1>10, <3>1 DEF Sorted
  <2>2. CASE j > Len(s)
    <3>1. PICK b \in 1..k : j = Len(s) + b
      <4>1. j - Len(s) \in 1..k /\ j = Len(s) + (j - Len(s))
        BY <1>4, <2>2
      <4> QED
        BY <4>1
    <3>2. u[j].file = n /\ u[j].at = pos + b
      <4>1. u[j] = [file |-> n, at |-> pos + b, zero |-> FALSE]
        BY <1>6, <3>1
      <4> QED
        BY <4>1
    <3>3. CASE i <= Len(s)
      <4>1. i \in 1..Len(s) /\ u[i] = s[i]
        BY <1>4, <1>5, <3>3
      <4>2. PICK d \in UpTo(n, pos) : d = u[i]
        BY <1>9, <4>1
      <4>3. d.file \in Nat /\ d.file <= n /\ d.at \in Nat /\ (d.file = n => d.at <= pos)
        BY <1>0, <1>8 DEF Byte
      <4> QED
        BY <1>0, <3>2, <4>2, <4>3 DEF Less
    <3>4. CASE i > Len(s)
      <4>1. PICK a \in 1..k : i = Len(s) + a
        <5>1. i - Len(s) \in 1..k /\ i = Len(s) + (i - Len(s))
          BY <1>4, <3>4
        <5> QED
          BY <5>1
      <4>2. u[i].file = n /\ u[i].at = pos + a
        <5>1. u[i] = [file |-> n, at |-> pos + a, zero |-> FALSE]
          BY <1>6, <4>1
        <5> QED
          BY <5>1
      <4>3. a < b
        BY <1>4, <1>10, <3>1, <4>1
      <4> QED
        BY <3>2, <4>2, <4>3 DEF Less
    <3> QED
      BY <1>4, <3>3, <3>4
  <2> QED
    BY <1>4, <2>1, <2>2
<1>11. ASSUME NEW d \in Range(u) PROVE d \in UpTo(n, pos + k)
  <2>1. PICK i \in 1..Len(u) : d = u[i]
    BY <1>7 DEF Range
  <2>2. \E g \in 1..n : \E x \in 1..Len(files[g].cells) :
           d = [file |-> g, at |-> x, zero |-> FALSE] /\ (g = n => x <= pos + k)
    <3>1. CASE i <= Len(s)
      <4>1. i \in 1..Len(s) /\ u[i] = s[i]
        BY <1>4, <1>5, <3>1
      <4>2. d \in UpTo(n, pos)
        BY <1>9, <2>1, <4>1
      <4>3. PICK g \in 1..n : g = d.file
        BY <1>8, <4>2
      <4>4. PICK x \in 1..Len(files[g].cells) : x = d.at
        BY <1>8, <4>2, <4>3
      <4>5. g = n => x <= pos + k
        <5>1. x \in Nat /\ (g = n => x <= pos)
          BY <1>8, <4>2, <4>3, <4>4 DEF Byte
        <5> QED
          BY <5>1
      <4>6. d = [file |-> g, at |-> x, zero |-> FALSE]
        BY <1>8, <4>2, <4>3, <4>4
      <4> QED
        BY <4>5, <4>6
    <3>2. CASE i > Len(s)
      <4>1. PICK a \in 1..k : i = Len(s) + a
        <5>1. i - Len(s) \in 1..k /\ i = Len(s) + (i - Len(s))
          BY <1>4, <3>2
        <5> QED
          BY <5>1
      <4>2. d = [file |-> n, at |-> pos + a, zero |-> FALSE]
        BY <1>6, <2>1, <4>1
      <4>3. n \in 1..n /\ pos + a \in 1..Len(files[n].cells) /\ pos + a <= pos + k
        BY <1>0 DEF File
      <4> QED
        BY <4>2, <4>3
    <3>3. i <= Len(s) \/ i > Len(s)
      BY <1>4
    <3> QED
      BY <3>1, <3>2, <3>3
  <2>3. PICK g \in 1..n : \E x \in 1..Len(files[g].cells) :
           d = [file |-> g, at |-> x, zero |-> FALSE] /\ (g = n => x <= pos + k)
    BY <2>2
  <2>4. PICK x \in 1..Len(files[g].cells) : d = [file |-> g, at |-> x, zero |-> FALSE] /\ (g = n => x <= pos + k)
    BY <2>3
  <2>5. pos + k \in Int
    OBVIOUS
  <2> QED
    BY <2>4, <2>5, UpToFacts
<1>12. ASSUME NEW d \in UpTo(n, pos + k) PROVE d \in Range(u)
  <2>0. pos + k \in Int
    OBVIOUS
  <2>1. /\ d.file \in 1..n /\ d.at \in 1..Len(files[d.file].cells) /\ d \in Byte
        /\ d = [file |-> d.file, at |-> d.at, zero |-> FALSE] /\ (d.file = n => d.at <= pos + k)
    BY <1>12, <2>0, UpToFacts
  <2>2. PICK g \in 1..n : g = d.file
    BY <2>1
  <2>3. PICK x \in 1..Len(files[g].cells) : x = d.at
    BY <2>1, <2>2
  <2>4. x \in Nat /\ d = [file |-> g, at |-> x, zero |-> FALSE] /\ (g = n => x <= pos + k)
    BY <2>1, <2>2, <2>3 DEF Byte
  <2>5. CASE g = n => x <= pos
    <3>1. [file |-> g, at |-> x, zero |-> FALSE] \in UpTo(n, pos)
      BY <2>5, UpToFacts
    <3>2. PICK i \in 1..Len(s) : d = s[i]
      BY <1>7, <2>4, <3>1 DEF Range
    <3>3. i \in DOMAIN u /\ u[i] = d
      BY <1>5, <1>7, <3>2
    <3> QED
      BY <3>3 DEF Range
  <2>6. CASE g = n /\ ~(x <= pos)
    <3>1. x - pos \in 1..k /\ pos + (x - pos) = x
      BY <2>4, <2>6
    <3>2. PICK a \in 1..k : pos + a = x
      BY <3>1
    <3>3. Len(s) + a \in DOMAIN u /\ u[Len(s) + a] = d
      BY <1>6, <1>7, <2>4, <2>6, <3>2
    <3> QED
      BY <3>3 DEF Range
  <2> QED
    BY <2>5, <2>6
<1>13. Range(u) = UpTo(n, pos + k)
  BY <1>11, <1>12
<1> QED
  BY <1>1, <1>3, <1>10, <1>13 DEF Sorted

\* The size to stop at is reached: nothing goes out any more, and what did is a
\* beginning of what there is.
Reached == Stops /\ total >= opt.size /\ Beginning(out)
\* Of the files before this one, and of this one so far, everything is in the output
\* or in the buffer.
Whole == /\ Range(out \o buf) = UpTo(n, IF pc = "open" THEN 0 ELSE pos) /\ Sorted(out \o buf)
         /\ pc # "open" => /\ pos <= Len(File) /\ (eof_in => pos = Len(File))
                           /\ eof_out => eof_in /\ buf = <<>>
         /\ pc = "end" => eof_in /\ eof_out /\ n = Len(files)
Seen == ~closed /\ ~ended /\ status = {} => Reached \/ Whole
Clean == lost => status # {}

LEMMA CleanStep ==
  ASSUME Clean, [Next]_vars
  PROVE  Clean'
<1> USE DEF call, limits, turn, input, output, counts
<1>1. CASE NextFile \/ LoopAborts \/ SelectFails \/ Count \/ WriteError
  <2>1. lost' = lost /\ (status # {} => status' # {})
    BY <1>1 DEF NextFile, LoopAborts, SelectFails, Count, WriteError
  <2> QED
    BY <2>1 DEF Clean
<1>2. CASE Turn \/ Select \/ Interrupted \/ Remote \/ Abort \/ UNCHANGED vars
  <2>1. lost' = lost /\ status' = status
    BY <1>2 DEF Turn, Select, Interrupted, Nothing, Remote, Abort, vars
  <2> QED
    BY <2>1 DEF Clean
<1>3. CASE Splice \/ ReadSome \/ ReadEnd \/ ReadTransient \/ NotYet \/ WriteSome \/ WriteNone \/ WritePipe
  <2>1. lost' = lost /\ status' = status
    BY <1>3 DEF Splice, ReadSome, ReadEnd, ReadTransient, Nothing, NotYet, WriteSome, WriteNone, WritePipe
  <2> QED
    BY <2>1 DEF Clean
<1>4. CASE ReadError
  BY <1>4 DEF ReadError, Clean
<1> QED
  BY <1>1, <1>2, <1>3, <1>4 DEF Next, Step, Read, Write

LEMMA SeenStep ==
  ASSUME Types, Asked, Allowed, Seen, [Next]_vars
  PROVE  Seen'
<1> USE DEF call, limits, turn, input, output, counts
<1>0. /\ n \in Nat /\ pos \in Nat /\ Len(File) \in Nat /\ Len(files) \in Nat
      /\ files \in Inputs /\ opt \in Options /\ n \in 1..Len(files)
      /\ out \in Seq(Byte) /\ buf \in Seq(Byte) /\ out \o buf \in Seq(Byte)
      /\ total \in Nat /\ opt.size \in Nat
  <2>1. /\ n \in Nat /\ Len(files) \in Nat /\ Len(File) \in Nat /\ opt.size \in Nat
        /\ files \in Inputs /\ opt \in Options /\ n \in 1..Len(files) /\ total \in Nat
        /\ out \in Seq(Byte) /\ buf \in Seq(Byte) /\ pos \in Nat
    BY CallFacts DEF Types, File
  <2> QED
    BY <2>1, ConcatProperties
<1>1. files' = files /\ opt' = opt
  BY CallStays
<1>2. \A f, k : UpTo(f, k)' = UpTo(f, k)
  BY <1>1 DEF UpTo
\* Once the size is reached it stays so.
<1>3. ASSUME out' = out, total' \in Int, total' >= total, Reached PROVE Reached'
  BY <1>0, <1>1, <1>3 DEF Reached, Beginning, UpTo
\* nothing moves
<1>4. ASSUME UNCHANGED <<n, pos, buf, out, total, closed, ended, status>>, eof_in' <=> eof_in, eof_out' <=> eof_out,
             pc \notin {"open", "end"}, pc' \notin {"open", "end"}
      PROVE  Seen'
  <2>1. Reached => Reached'
    BY <1>0, <1>3, <1>4
  <2>2. Whole => Whole'
    BY <1>1, <1>4 DEF Whole, UpTo, File
  <2> QED
    BY <1>4, <2>1, <2>2 DEF Seen
\* a sign of an error, or the end of the output
<1>5. ASSUME status' # {} \/ ended' \/ closed' PROVE Seen'
  BY <1>5 DEF Seen
<1>6. CASE NextFile
  <2>1. /\ UNCHANGED <<n, buf, out, total, closed, ended>> /\ pc = "open" /\ pos' = 0 /\ ~eof_in' /\ ~eof_out'
        /\ status' = status \cup files[n].fails /\ pc' = (IF files[n].fails = {} THEN "loop" ELSE "end")
    BY <1>6 DEF NextFile
  <2>2. CASE files[n].fails = {}
    <3>1. pc' = "loop" /\ status' = status
      BY <2>1, <2>2
    <3>2. Reached => Reached'
      BY <1>0, <1>3, <2>1
    <3>3. Whole => Whole'
      BY <1>0, <1>1, <2>1, <3>1 DEF Whole, UpTo, File
    <3> QED
      BY <2>1, <3>1, <3>2, <3>3 DEF Seen
  <2>3. CASE files[n].fails # {}
    BY <1>5, <2>1, <2>3
  <2> QED
    BY <2>2, <2>3
<1>7. CASE LoopAborts \/ SelectFails \/ ReadError \/ WriteError
  <2>1. status' # {}
    BY <1>7 DEF LoopAborts, SelectFails, ReadError, WriteError
  <2> QED
    BY <1>5, <2>1
<1>8. CASE WriteNone \/ WritePipe
  <2>1. ended' \/ closed'
    BY <1>8 DEF WriteNone, WritePipe
  <2> QED
    BY <1>5, <2>1
<1>9. CASE Turn
  <2>1. /\ pc = "loop" /\ UNCHANGED <<n, pos, buf, out, total, closed, ended, status>>
        /\ \/ pc' = "select" /\ (eof_in' <=> eof_in) /\ (eof_out' <=> eof_out)
           \/ pc' = "count" /\ Stops /\ total >= opt.size
    BY <1>9, TurnFacts
  <2>2. CASE pc' = "select" /\ (eof_in' <=> eof_in) /\ (eof_out' <=> eof_out)
    BY <1>4, <2>1, <2>2
  <2>3. CASE pc' = "count" /\ Stops /\ total >= opt.size
    <3>1. Reached => Reached'
      BY <1>0, <1>3, <2>1
    <3>2. Whole => Reached
      <4>1. ASSUME Whole PROVE Beginning(out)
        <5>1. Range(out \o buf) = UpTo(n, pos) /\ Sorted(out \o buf)
          BY <2>1, <4>1 DEF Whole
        <5> QED
          BY <1>0, <5>1, BeginningFacts
      <4> QED
        BY <2>3, <4>1 DEF Reached
    <3> QED
      BY <2>1, <3>1, <3>2 DEF Seen
  <2> QED
    BY <2>1, <2>2, <2>3
<1>10. CASE Remote \/ Interrupted \/ ReadTransient \/ NotYet
  <2>1. /\ UNCHANGED <<n, pos, buf, out, total, closed, ended, status, eof_in, eof_out>>
        /\ pc \notin {"open", "end"} /\ pc' \notin {"open", "end"}
    BY <1>10 DEF Remote, Interrupted, ReadTransient, Nothing, NotYet
  <2> QED
    BY <1>4, <2>1
<1>11. CASE Select
  <2>1. /\ UNCHANGED <<n, pos, buf, out, total, closed, ended, status, eof_in, eof_out>> /\ pc = "select"
        /\ pc' = IF rd' THEN "read" ELSE "write"
    BY <1>11 DEF Select
  <2>2. pc' \notin {"open", "end"}
    BY <2>1
  <2> QED
    BY <1>4, <2>1, <2>2
<1>12. CASE Abort \/ UNCHANGED vars
  <2>1. UNCHANGED <<files, opt, n, pos, buf, out, total, closed, ended, status, eof_in, eof_out, pc>>
    BY <1>12 DEF Abort, vars
  <2>2. Reached => Reached'
    BY <1>0, <1>3, <2>1
  <2>3. Whole => Whole'
    BY <2>1 DEF Whole, UpTo, File
  <2> QED
    BY <2>1, <2>2, <2>3 DEF Seen
\* Once the size is reached nothing may go out.
<1>13. ASSUME pc \in {"read", "write"}, NEW k \in Nat, k > 0, Limited => k <= allowed PROVE ~Reached
  <2>1. Stops => Limited /\ allowed <= opt.size - total
    BY <1>13 DEF Allowed
  <2>2. allowed \in Int
    BY DEF Types
  <2> QED
    BY <1>0, <1>13, <2>1, <2>2 DEF Reached
\* What comes in
<1>14. ASSUME NEW k \in Nat, Readable(k), pc = "read", pc' = "write", pos' = pos + k,
              (out \o buf)' = (out \o buf) \o CellsAt(pos, k, FALSE), Whole,
              UNCHANGED <<n, eof_in, eof_out>>
       PROVE  Whole'
  <2>1. pos + k <= Len(File)
    BY <1>14 DEF Readable
  <2>2. Range(out \o buf) = UpTo(n, pos) /\ Sorted(out \o buf)
    BY <1>14 DEF Whole
  <2>3. /\ Range((out \o buf) \o CellsAt(pos, k, FALSE)) = UpTo(n, pos + k)
        /\ Sorted((out \o buf) \o CellsAt(pos, k, FALSE))
    BY <1>0, <2>1, <2>2, SeenMore
  <2>4. Range((out \o buf)') = UpTo(n', pos') /\ Sorted((out \o buf)')
    BY <1>14, <2>3
  <2>5. ~eof_in /\ ~eof_out
    BY <1>14 DEF Asked, Whole
  <2>6. pos' <= Len(File')
    BY <1>1, <1>14, <2>1 DEF File
  <2>7. Range(out \o buf)' = UpTo(n, pos)' /\ Sorted(out \o buf)'
    BY <1>1, <2>4 DEF UpTo, Range, Sorted, Less
  <2> QED
    BY <1>14, <2>5, <2>6, <2>7 DEF Whole, File
<1>15. CASE Splice
  <2>1. CASE Nothing
    <3>1. /\ UNCHANGED <<n, pos, buf, out, total, closed, ended, status, eof_in, eof_out>>
          /\ pc = "read" /\ pc' = "count"
      BY <1>15, <2>1 DEF Splice, Nothing
    <3> QED
      BY <1>4, <3>1
  <2>2. CASE ~Nothing
    <3>1. PICK k \in Nat :
            /\ out' = out \o CellsAt(pos, k, FALSE) /\ pos' = pos + k /\ Readable(k)
            /\ k > 0 /\ (Limited => k <= allowed) /\ buf = <<>> /\ ~closed
            /\ pc = "read" /\ pc' = "write"
            /\ UNCHANGED <<n, eof_in, eof_out, buf, total, status, closed, ended>>
      BY <1>15, <2>2, SplicedFacts
    <3>2. PICK c \in Seq(Byte) : c = CellsAt(pos, k, FALSE)
      BY <1>0, CellsFacts
    <3>3. (out \o buf)' = (out \o buf) \o CellsAt(pos, k, FALSE)
      <4>1. out \o buf = out
        BY <1>0, <3>1, ConcatEmptySeq
      <4>2. out' \in Seq(Byte)
        BY <1>0, <3>1, <3>2, ConcatProperties
      <4>3. out' \o buf' = out'
        BY <3>1, <4>2, ConcatEmptySeq
      <4> QED
        BY <3>1, <4>1, <4>3
    <3>4. ~Reached
      BY <1>13, <3>1
    <3>5. Whole => Whole'
      BY <1>14, <3>1, <3>3
    <3> QED
      BY <3>1, <3>4, <3>5 DEF Seen
  <2> QED
    BY <2>1, <2>2
<1>16. CASE ReadSome
  <2>1. PICK k \in 1..Room : Readable(k) /\ buf' = buf \o CellsAt(pos, k, FALSE) /\ pos' = pos + k
    BY <1>16 DEF ReadSome
  <2>2. k \in Nat
    BY AskedFacts
  <2>3. pc = "read" /\ pc' = "write" /\ UNCHANGED <<n, eof_in, eof_out, out, total, status, closed, ended>>
    BY <1>16 DEF ReadSome
  <2>4. PICK c \in Seq(Byte) : c = CellsAt(pos, k, FALSE)
    BY <1>0, <2>2, CellsFacts
  <2>5. (out \o buf) \o c = out \o (buf \o c)
    <3>1. c \in Seq(Byte) /\ out \in Seq(Byte) /\ buf \in Seq(Byte)
      BY <1>0, <2>4
    <3> QED
      BY <3>1, ConcatAssociative
  <2>6. (out \o buf)' = (out \o buf) \o CellsAt(pos, k, FALSE)
    BY <2>1, <2>3, <2>4, <2>5
  <2>7. Whole => Whole'
    BY <1>14, <2>1, <2>2, <2>3, <2>6
  <2>8. Reached => Reached'
    BY <1>0, <1>3, <2>3
  <2> QED
    BY <2>3, <2>7, <2>8 DEF Seen
<1>17. CASE ReadEnd
  <2>1. /\ pc = "read" /\ pc' = "write" /\ pos >= Len(File) /\ eof_in' /\ (eof_out' <=> (eof_out \/ buf = <<>>))
        /\ UNCHANGED <<n, pos, buf, out, total, status, closed, ended>>
    BY <1>17 DEF ReadEnd, InputEnds
  <2>2. Reached => Reached'
    BY <1>0, <1>3, <2>1
  <2>3. Whole => Whole'
    <3>1. ASSUME Whole PROVE pos = Len(File)
      BY <1>0, <2>1, <3>1 DEF Whole
    <3> QED
      BY <1>1, <2>1, <3>1 DEF Whole, UpTo, File
  <2> QED
    BY <2>1, <2>2, <2>3 DEF Seen
<1>18. CASE WriteSome
  <2>1. PICK k \in Nat :
          /\ k \in 0..Len(buf) /\ k > 0
          /\ out' = out \o SubSeq(buf, 1, k) /\ buf' = SubSeq(buf, k + 1, Len(buf))
          /\ (Limited => k <= allowed) /\ OutputEnds(k)
          /\ pc = "write" /\ pc' = "count"
          /\ UNCHANGED <<n, pos, eof_in, total, closed, ended, status>>
    BY <1>18, WroteFacts
  <2>2. out' \o buf' = out \o buf
    BY <2>1, OutFacts
  <2>3. ~Reached
    BY <1>13, <2>1
  <2>4. buf # <<>>
    BY <1>18 DEF WriteSome, Writes
  <2>5. Len(buf) \in Nat /\ (k = Len(buf) => buf' = <<>>)
    <3>1. SubSeq(buf, k + 1, Len(buf)) \in Seq(Byte) /\ Len(SubSeq(buf, k + 1, Len(buf))) = Len(buf) - k
      BY <1>0, <2>1, CutFacts
    <3>2. Len(buf) \in Nat
      BY <1>0
    <3>3. k = Len(buf) => Len(SubSeq(buf, k + 1, Len(buf))) = 0
      BY <3>1, <3>2
    <3> QED
      BY <2>1, <3>1, <3>2, <3>3, EmptySeq
  <2>6. eof_out' <=> (eof_out \/ (eof_in /\ k = Len(buf)))
    BY <2>1 DEF OutputEnds
  <2>7. Whole => Whole'
    <3>1. ASSUME Whole PROVE eof_out' => eof_in' /\ buf' = <<>>
      BY <2>1, <2>4, <2>5, <2>6, <3>1 DEF Whole
    <3>2. ASSUME Whole PROVE Range(out' \o buf') = UpTo(n, pos) /\ Sorted(out' \o buf')
      BY <2>1, <2>2, <3>2 DEF Whole
    <3>3. ASSUME Whole PROVE Range(out \o buf)' = UpTo(n, pos)' /\ Sorted(out \o buf)'
      <4>1. n' = n /\ pos' = pos
        BY <2>1
      <4>2. UpTo(n, pos)' = UpTo(n, pos)
        BY <1>1, <4>1 DEF UpTo
      <4>3. Range(out \o buf)' = UpTo(n, pos)
        BY <3>2, <3>3 DEF Range
      <4>4. Sorted(out \o buf)'
        BY <3>2, <3>3 DEF Sorted, Less
      <4> QED
        BY <4>2, <4>3, <4>4
    <3> QED
      BY <1>1, <2>1, <3>1, <3>3 DEF Whole, File
  <2> QED
    BY <2>1, <2>3, <2>7 DEF Seen
<1>19. CASE Count
  <2>1. /\ pc = "count" /\ total' = total + Sent /\ UNCHANGED <<pos, buf, out, closed, ended, eof_in, eof_out>>
        /\ \/ pc' = "open" /\ n' = n + 1 /\ n < Len(files) /\ eof_in /\ eof_out
           \/ pc' = "end" /\ n' = n /\ ~(n < Len(files)) /\ eof_in /\ eof_out
           \/ pc' = "loop" /\ n' = n
        /\ status' = {} => status = {}
    BY <1>19 DEF Count, Counting
  <2>2. total' \in Int /\ total' >= total
    BY <1>0, <2>1 DEF Sent, Types
  <2>3. Reached => Reached'
    BY <1>3, <2>1, <2>2
  <2>4. ASSUME Whole, pc' = "loop" \/ pc' = "end" PROVE Whole'
    <3>1. n' = n /\ (pc' = "end" => eof_in /\ eof_out /\ n = Len(files))
      BY <1>0, <2>1, <2>4
    <3> QED
      BY <1>1, <2>1, <2>4, <3>1 DEF Whole, UpTo, File
  <2>5. ASSUME Whole, pc' = "open" PROVE Whole'
    <3>1. n' = n + 1 /\ n < Len(files) /\ eof_in
      BY <2>1, <2>5
    <3>2. Range(out \o buf) = UpTo(n, Len(File)) /\ Sorted(out \o buf)
      BY <2>1, <2>5, <3>1 DEF Whole
    <3>3. UpTo(n, Len(File)) = UpTo(n + 1, 0)
      <4>1. n + 1 \in 1..Len(files) /\ 0 \in Int /\ Len(File) \in Int
        BY <1>0, <3>1
      <4>2. ASSUME NEW c \in UpTo(n, Len(File)) PROVE c \in UpTo(n + 1, 0)
        <5>1. /\ c.file \in 1..n /\ c.at \in 1..Len(files[c.file].cells)
              /\ c = [file |-> c.file, at |-> c.at, zero |-> FALSE]
          BY <1>0, <4>1, <4>2, UpToFacts
        <5>2. PICK g \in 1..n + 1 : g = c.file /\ g # n + 1
          BY <1>0, <5>1
        <5>3. PICK i \in 1..Len(files[g].cells) : i = c.at
          BY <5>1, <5>2
        <5>4. [file |-> g, at |-> i, zero |-> FALSE] \in UpTo(n + 1, 0)
          BY <1>0, <4>1, <5>2, UpToFacts
        <5> QED
          BY <5>1, <5>2, <5>3, <5>4
      <4>3. ASSUME NEW c \in UpTo(n + 1, 0) PROVE c \in UpTo(n, Len(File))
        <5>1. /\ c.file \in 1..n + 1 /\ c.at \in 1..Len(files[c.file].cells) /\ c \in Byte
              /\ c = [file |-> c.file, at |-> c.at, zero |-> FALSE]
              /\ c.file = n + 1 => c.at <= 0
          BY <1>0, <4>1, <4>3, UpToFacts
        <5>2. c.file # n + 1
          <6>1. c.at \in Nat /\ c.at >= 1
            BY <5>1 DEF Byte
          <6> QED
            BY <5>1, <6>1
        <5>3. PICK g \in 1..n : g = c.file
          BY <1>0, <5>1, <5>2
        <5>4. PICK i \in 1..Len(files[g].cells) : i = c.at
          BY <5>1, <5>3
        <5>5. g = n => i <= Len(File)
          BY <1>0 DEF File
        <5>6. [file |-> g, at |-> i, zero |-> FALSE] \in UpTo(n, Len(File))
          BY <1>0, <4>1, <5>5, UpToFacts
        <5> QED
          BY <5>1, <5>3, <5>4, <5>6
      <4> QED
        BY <4>2, <4>3
    <3>4. Range(out \o buf) = UpTo(n + 1, 0)
      BY <3>2, <3>3
    <3> QED
      BY <1>1, <2>1, <2>5, <3>1, <3>2, <3>4 DEF Whole, UpTo
  <2> QED
    BY <2>1, <2>3, <2>4, <2>5 DEF Seen
<1> QED
  BY <1>6, <1>7, <1>8, <1>9, <1>10, <1>11, <1>12, <1>15, <1>16, <1>17, <1>18, <1>19
     DEF Next, Step, Read, Write

\* For any files and options, and whatever the input and the output do: if pv ends
\* without a sign that something went wrong, everything is in its output, in order,
\* up to the size at which it had to stop, and was counted, but for lines behind a
\* zero (Complete).
THEOREM AllPassedOn == Spec => []Complete
<1> DEFINE IInv == /\ Types /\ Asked /\ Chained /\ Allowed /\ Paid /\ Counted
                   /\ Clean /\ Seen
<1>1. Init => IInv
  <2>1. SUFFICES ASSUME Init PROVE Allowed /\ Paid /\ Counted /\ Clean /\ Seen
    BY Start
  <2>2. pc = "open" /\ target = 0 /\ total = 0 /\ out = <<>> /\ buf = <<>> /\ ~lost /\ n = 1
    BY <2>1 DEF Init
  <2>3. Allowed /\ Paid /\ Counted
    BY <2>1, StartCounts
  <2>4. Clean
    BY <2>2 DEF Clean
  <2>5. Whole
    <3>1. files \in Inputs /\ opt \in Options /\ n \in 1..Len(files) /\ 0 \in Int
      BY <2>1, Start DEF Types
    <3>2. UpTo(n, 0) = {}
      <4>1. SUFFICES ASSUME NEW c \in UpTo(n, 0) PROVE FALSE
        OBVIOUS
      <4>2. c \in Byte /\ c.file \in 1..n /\ c.at \in 1..Len(files[c.file].cells) /\ (c.file = n => c.at <= 0)
        BY <3>1, <4>1, UpToFacts
      <4>3. c.file = n /\ c.at \in Nat /\ c.at >= 1
        BY <2>2, <4>2 DEF Byte
      <4> QED
        BY <4>2, <4>3
    <3>3. out \o buf = <<>>
      BY <2>2, ConcatEmptySeq, EmptySeq
    <3>4. Range(<<>>) = {} /\ Sorted(<<>>)
      BY DEF Range, Sorted
    <3> QED
      BY <2>2, <3>2, <3>3, <3>4 DEF Whole
  <2> QED
    BY <2>3, <2>4, <2>5 DEF Seen
<1>2. IInv /\ [Next]_vars => IInv'
  BY TypesStep, AskedStep, ChainedStep, AllowedStep, PaidStep, CountedStep, CleanStep, SeenStep
<1>3. IInv => Complete
  <2>1. SUFFICES ASSUME IInv, pc = "end", status = {}, ~closed, ~ended
                 PROVE  /\ Ordered(out)
                        /\ \/ Range(out) = UpTo(n, Len(File)) /\ n = Len(files)
                           \/ /\ Stops /\ (Amount(out) >= opt.size \/ Uncounted(out))
                              /\ Beginning(out)
                        /\ (opt.line /\ Stops) \/ total = Amount(out) \/ Uncounted(out)
    BY DEF Complete
  <2>2. out \in Seq(Byte) /\ total \in Nat /\ opt.size \in Nat /\ Amount(out) \in Nat
    <3>1. out \in Seq(Byte) /\ total \in Nat /\ opt.size \in Nat
      BY <2>1, CallFacts DEF Types
    <3> QED
      BY <3>1, AmountMore
  <2>3. Ordered(out)
    BY <2>1 DEF Clean, Chained, Passed
  <2>4. Uncounted(out) \/ Full \/ Amount(out) = total
    BY <2>1, <2>2 DEF Counted, Pending
  <2>5. CASE Reached
    BY <2>2, <2>3, <2>4, <2>5 DEF Reached, Full
  <2>6. CASE Whole
    <3>1. buf = <<>> /\ n = Len(files) /\ Range(out \o buf) = UpTo(n, Len(File))
      BY <2>1, <2>6 DEF Whole
    <3>2. out \o buf = out
      BY <2>2, <3>1, ConcatEmptySeq
    <3> QED
      BY <2>3, <2>4, <3>1, <3>2 DEF Full
  <2> QED
    BY <2>1, <2>5, <2>6 DEF Seen
<1> QED
  BY <1>1, <1>2, <1>3, PTL DEF Spec
=============================================================================
