----------------------------- MODULE PvTransfer -----------------------------
(***************************************************************************)
(* The transfer of pv, the meter through which pdwfs-slurm counts the      *)
(* instances that have come up: pv_main_loop takes the files one after the *)
(* other and, as long as its limits allow, calls pv_transfer, which waits  *)
(* for its input or its output, reads (or splices) and writes.             *)
(*                                                                         *)
(* A cell stands for a byte: of a file that can be read, that ends a line  *)
(* ("nl"), or that the device fails on ("bad").  MAXIMISE_BUFFER_FILL moves *)
(* what is not yet written to the front of the buffer: buf is that.        *)
(***************************************************************************)
EXTENDS Integers, SequencesExt, FiniteSets

CONSTANTS Inputs,         \* the lists of files pv is called with
          Options,        \* and its options
          BufSize,        \* buffer_size
          RemoteRate,     \* the rate limit that pv -R may send
          MaxTarget       \* bound: what may be unused of the rate limit
Cells == Seq(STRING)
ASSUME InputsAssumption ==
  \A list \in Inputs : list # <<>> /\ list \in Seq([cells : Cells, kind : STRING, fails : SUBSET Nat])
ASSUME OptionsAssumption ==
  Options \subseteq [line : BOOLEAN, splice : BOOLEAN, skip : BOOLEAN, rate : Nat, stop : BOOLEAN, size : Nat]
ASSUME SizeAssumption == BufSize \in Nat \ {0} /\ MaxTarget \in Nat /\ RemoteRate \in Nat

VARIABLES
  files, opt,             \* the call
  pc,                     \* the next step of pv_main_loop or pv_transfer
  n, pos,                 \* the file, and the offset in it
  eof_in, eof_out,
  buf,                    \* what is in the buffer and not yet written: [file, at, zero]
  rate, target,           \* rate_limit, and what it still allows
  allowed, to_write,
  rd, wr,                 \* what select says is ready
  spliced, no_splice,     \* splice_used; splice_failed_fd is the current one
  written, lines,         \* by this pv_transfer
  total,                  \* total_written
  read_errors,            \* read_errors_in_a_row
  abort,                  \* pv_sig_abort
  status,                 \* the bits of exit_status
  out,                    \* what the output has taken
  closed,                 \* nobody reads the output any more
  ended,                  \* a write has taken nothing
  lost                    \* a read that failed has taken bytes with it
call == <<files, opt>>
limits == <<rate, target>>
turn == <<allowed, to_write, rd, wr>>
input == <<n, pos, eof_in, read_errors, lost>>
output == <<out, closed, ended>>
counts == <<written, lines, total>>
vars == <<call, pc, input, eof_out, buf, limits, turn, spliced, no_splice, counts, abort, status, output>>

File == files[n].cells
Cell(c) == IF c.zero THEN "zero" ELSE files[c.file].cells[c.at]
\* The ends of lines that strchr and strrchr see: a zero ends the text.
LineEnds(s) == {i \in 1..Len(s) : Cell(s[i]) = "nl" /\ \A j \in 1..i : Cell(s[j]) # "zero"}
Lines(s) == Cardinality(LineEnds(s))
AtMost(x, y) == IF x < y THEN x ELSE y
Limited == rate > 0 \/ allowed > 0

Init == /\ files \in Inputs /\ opt \in Options /\ pc = "open"
        /\ n = 1 /\ pos = 0 /\ eof_in = FALSE /\ eof_out = FALSE /\ buf = <<>>
        /\ rate = opt.rate /\ target = 0 /\ allowed = 0 /\ to_write = 0 /\ rd = FALSE /\ wr = FALSE
        /\ spliced = FALSE /\ no_splice = FALSE /\ written = 0 /\ lines = 0 /\ total = 0
        /\ read_errors = 0 /\ abort = FALSE /\ status = {} /\ out = <<>>
        /\ closed = FALSE /\ ended = FALSE /\ lost = FALSE
-----------------------------------------------------------------------------
(* pv_next_file, and the head of the loop of pv_main_loop *)

\* A file that cannot be opened, or that is the output, ends pv.  The descriptor
\* closed before is given out again: what is known of it stays.
NextFile == /\ pc = "open"
            /\ status' = status \cup files[n].fails
            /\ pc' = IF files[n].fails = {} THEN "loop" ELSE "end"
            /\ pos' = 0 /\ eof_in' = FALSE /\ eof_out' = FALSE
            /\ UNCHANGED <<call, n, read_errors, lost, buf, limits, turn, spliced, no_splice, counts, abort, output>>

\* Time passes: the rate limit allows more; not all of the time does.
Tick == IF rate > 0 /\ target + rate <= MaxTarget THEN {target, target + rate} ELSE {target}

\* cansend: what the rate allows, and no more than up to the size to stop at
Can(t) == IF rate > 0 THEN t ELSE 0
Stops == opt.stop /\ opt.size > 0           \* without a size there is none to stop at
NearSize(t) == Stops /\ (opt.size < total + Can(t) \/ (Can(t) = 0 /\ rate = 0))
Cansend(t) == IF NearSize(t) THEN opt.size - total ELSE Can(t)

\* Once the size is reached there is no transfer, and lines keeps what the last has
\* left there.
Turn == /\ pc = "loop" /\ ~abort
        /\ \E t \in Tick : LET done == NearSize(t) /\ Cansend(t) <= 0
                           IN  /\ target' = t /\ allowed' = IF done THEN 0 ELSE Cansend(t)
                               /\ eof_in' = (eof_in \/ done) /\ eof_out' = (eof_out \/ done)
                               /\ lines' = IF done THEN lines ELSE 0
                               /\ pc' = IF done THEN "count" ELSE "select"
        /\ written' = 0
        /\ UNCHANGED <<call, n, pos, read_errors, lost, buf, rate, to_write, rd, wr, spliced, no_splice,
                       total, abort, status, output>>
\* pv_remote_check finds a message with a rate limit.
Remote == /\ pc = "loop" /\ rate = 0 /\ RemoteRate > 0 /\ rate' = RemoteRate
          /\ UNCHANGED <<call, pc, input, eof_out, buf, target, turn, spliced, no_splice, counts, abort, status, output>>
\* SIGINT, SIGHUP, SIGTERM
Abort == /\ pc # "end" /\ ~abort /\ abort' = TRUE
         /\ UNCHANGED <<call, pc, input, eof_out, buf, limits, turn, spliced, no_splice, counts, status, output>>
LoopAborts == /\ pc = "loop" /\ abort /\ pc' = "end" /\ status' = status \cup {32}
              /\ UNCHANGED <<call, input, eof_out, buf, limits, turn, spliced, no_splice, counts, abort, output>>
-----------------------------------------------------------------------------
(* pv_transfer: select *)

Room == BufSize - Len(buf)
\* a bug: the limits are for reading only
ToWrite_all == Len(buf)
ToWrite == IF Limited THEN AtMost(Len(buf), allowed) ELSE Len(buf)

\* What is asked for becomes ready, some of it, or nothing in time.
Select == /\ pc = "select" /\ to_write' = ToWrite
          /\ rd' \in {FALSE, ~eof_in /\ Room > 0}
          /\ wr' \in {FALSE, ~eof_out /\ ToWrite > 0}
          /\ pc' = IF rd' THEN "read" ELSE "write"
          /\ UNCHANGED <<call, input, eof_out, buf, limits, allowed, spliced, no_splice, counts, abort, status, output>>
\* EINTR, or a transient error of a read
Nothing == /\ pc' = "count" /\ written' = 0
           /\ UNCHANGED <<call, input, eof_out, buf, limits, turn, lines, total, abort, status, output>>
Interrupted == pc = "select" /\ Nothing /\ UNCHANGED <<spliced, no_splice>>
SelectFails == /\ pc = "select" /\ pc' = "end" /\ status' = status \cup {16}
               /\ UNCHANGED <<call, input, eof_out, buf, limits, turn, spliced, no_splice, counts, abort, output>>
-----------------------------------------------------------------------------
(* pv__transfer_read *)

\* The k cells from pos on can all be read.
Readable(k) == pos + k <= Len(File) /\ \A i \in pos + 1..pos + k : File[i] # "bad"
CellsAt(from, k, zero) == [i \in 1..k |-> [file |-> n, at |-> from + i, zero |-> zero]]

\* a bug: what is in the buffer is not waited for
CanSplice_any == opt.splice /\ ~opt.line /\ ~no_splice
CanSplice == opt.splice /\ ~opt.line /\ ~no_splice /\ to_write = 0
SpliceAtMost == IF Limited THEN allowed ELSE Room

\* The input goes to the output directly.
Splice == /\ pc = "read" /\ CanSplice /\ ~closed /\ spliced' = TRUE
          /\ \/ \E k \in 1..SpliceAtMost :
                  /\ Readable(k) /\ out' = out \o CellsAt(pos, k, FALSE)
                  /\ pos' = pos + k /\ written' = k /\ read_errors' = 0 /\ pc' = "write"
                  /\ UNCHANGED <<call, n, eof_in, lost, eof_out, buf, limits, turn, no_splice, lines, total,
                                 abort, status, closed, ended>>
             \/ Nothing /\ UNCHANGED no_splice        \* EAGAIN
\* It does not when one end is no pipe (EINVAL), nor when it finds nothing to move.
NoSplice == /\ spliced' = FALSE
            /\ \/ CanSplice /\ no_splice' = TRUE
               \/ (CanSplice => SpliceAtMost = 0 \/ closed \/ ~Readable(1)) /\ UNCHANGED no_splice

\* pv__transfer_read_repeated reads on until its time is over or nothing is there.
ReadSome == /\ pc = "read" /\ NoSplice /\ pc' = "write"
            /\ \E k \in 1..Room : /\ Readable(k) /\ buf' = buf \o CellsAt(pos, k, FALSE) /\ pos' = pos + k
            /\ read_errors' = 0
            /\ UNCHANGED <<call, n, eof_in, lost, eof_out, limits, turn, counts, abort, status, output>>
\* a bug: the output is taken to end with the input
InputEnds_now(b) == eof_in' = TRUE /\ eof_out' = TRUE
\* The input ends; the output does once the buffer is written.
InputEnds(b) == eof_in' = TRUE /\ eof_out' = (eof_out \/ b = <<>>)
ReadEnd == /\ pc = "read" /\ NoSplice /\ pos >= Len(File) /\ pc' = "write" /\ InputEnds(buf)
           /\ UNCHANGED <<call, n, pos, read_errors, lost, buf, limits, turn, counts, abort, status, output>>
ReadTransient == pc = "read" /\ NoSplice /\ Nothing

\* How much to skip: more at each error in a row, to a multiple of it, and no more
\* than there is room for.
Shifted == <<1, 2, 4, 8, 16, 32, 64, 128, 256, 512>>
Skip(errors, at, room) ==
  LET amount == CASE errors < 5        -> 1
                  [] errors \in 5..9   -> 2
                  [] errors \in 10..19 -> Shifted[errors - 9]
                  [] OTHER             -> 512
  IN  AtMost(amount - (at % amount), room)

\* An error that comes after k bytes makes read_repeated forget them: they are
\* neither in the buffer nor, any more, in the file.  If pv may, it seeks over the
\* error and puts zeros there: past the end of a regular file too, but not of a
\* device, where it then tries a single byte.
ReadError ==
  /\ pc = "read" /\ NoSplice /\ pc' = "write" /\ status' = status \cup {16} /\ read_errors' = read_errors + 1
  /\ \E k \in 0..Room - 1 :
       /\ Readable(k) /\ pos + k < Len(File) /\ File[pos + k + 1] = "bad" /\ lost' = (lost \/ k > 0)
       /\ IF opt.skip /\ files[n].kind # "pipe"
          THEN LET amount == Skip(read_errors + 1, pos + k, Room)
                   skipped == IF files[n].kind = "device" /\ pos + k + amount > Len(File) THEN 1 ELSE amount
               IN  /\ buf' = buf \o CellsAt(pos + k, skipped, TRUE) /\ pos' = pos + k + skipped
                   /\ UNCHANGED <<eof_in, eof_out>>
          ELSE InputEnds(buf) /\ pos' = pos + k /\ UNCHANGED buf
  /\ UNCHANGED <<call, n, limits, turn, counts, abort, output>>
Read == Splice \/ ReadSome \/ ReadEnd \/ ReadTransient \/ ReadError
-----------------------------------------------------------------------------
(* pv__transfer_write *)

\* In line mode up to the last end of a line, if there is one.
ToLine == LET ends == LineEnds(SubSeq(buf, 1, to_write))
          IN  IF opt.line /\ ends # {} THEN Max(ends) ELSE to_write
Writes == pc = "write" /\ wr /\ ~spliced /\ buf # <<>> /\ to_write > 0
Out(k) == out' = out \o SubSeq(buf, 1, k)
\* a bug: the end of the input is only looked for when reading
OutputEnds_never(k) == UNCHANGED eof_out
OutputEnds(k) == eof_out' = (eof_out \/ (eof_in /\ k = Len(buf)))

NotYet == /\ pc = "write" /\ ~Writes /\ pc' = "count"
          /\ UNCHANGED <<call, input, eof_out, buf, limits, turn, spliced, no_splice, counts, abort, status, output>>
WriteSome == /\ Writes /\ ~closed /\ pc' = "count"
             /\ \E k \in 1..ToLine :
                  /\ Out(k) /\ buf' = SubSeq(buf, k + 1, Len(buf)) /\ written' = written + k
                  /\ lines' = IF opt.line THEN Lines(SubSeq(buf, 1, k)) ELSE 0
                  /\ OutputEnds(k)
             /\ UNCHANGED <<call, input, limits, turn, spliced, no_splice, total, abort, status, closed, ended>>
\* An interruption before the first byte looks like the end of the output.
WriteNone == /\ Writes /\ ~closed /\ pc' = "count" /\ eof_out' = TRUE /\ ended' = TRUE
             /\ UNCHANGED <<call, input, buf, limits, turn, spliced, no_splice, counts, abort, status, out, closed>>
\* The reader of the output goes away, maybe between two writes of write_repeated:
\* what the first has written is not counted.
WritePipe == /\ Writes /\ pc' = "count" /\ written' = 0 /\ eof_in' = TRUE /\ eof_out' = TRUE /\ closed' = TRUE
             /\ \E k \in 0..ToLine - 1 : (closed => k = 0) /\ Out(k)
             /\ UNCHANGED <<call, n, pos, read_errors, lost, buf, limits, turn, spliced, no_splice, lines, total,
                            abort, status, ended>>
\* Any other error ends pv.
WriteError == /\ Writes /\ ~closed /\ pc' = "end" /\ status' = status \cup {16} /\ eof_out' = TRUE
              /\ \E k \in 0..ToLine - 1 : Out(k)
              /\ UNCHANGED <<call, input, buf, limits, turn, spliced, no_splice, counts, abort, closed, ended>>
Write == NotYet \/ WriteSome \/ WriteNone \/ WritePipe \/ WriteError
-----------------------------------------------------------------------------
(* The rest of the loop: what was sent, and the next file *)

Sent == IF opt.line THEN lines ELSE written
Counting == /\ total' = total + Sent
            /\ target' = IF rate > 0 THEN target - Sent ELSE target
            /\ UNCHANGED <<written, lines, rate>>
Count == /\ pc = "count" /\ Counting
         /\ LET both == eof_in /\ eof_out
                next == both /\ n < Len(files)
            IN  /\ pc' = IF next THEN "open" ELSE IF both THEN "end" ELSE "loop"
                /\ n' = IF next THEN n + 1 ELSE n
                /\ status' = IF both /\ ~next /\ abort THEN status \cup {32} ELSE status
         /\ UNCHANGED <<call, pos, eof_in, read_errors, lost, eof_out, buf, turn, spliced, no_splice, abort, output>>
-----------------------------------------------------------------------------
Step == NextFile \/ Turn \/ LoopAborts \/ Select \/ Interrupted \/ SelectFails \/ Read \/ Write \/ Count
Next == Step \/ Remote \/ Abort
\* Files give what is in them, and the reader of the output takes it, in the end.
Works == /\ pc = "select" => rd' = (~eof_in /\ Room > 0) /\ wr' = (~eof_out /\ ToWrite > 0)
         /\ pc = "loop" => target' > 0 \/ rate = 0
Spec == Init /\ [][Next]_vars /\ WF_vars(Step)
        /\ SF_vars(Turn /\ Works) /\ SF_vars(Select /\ Works)
        /\ SF_vars(ReadSome) /\ SF_vars(ReadEnd) /\ SF_vars(ReadError) /\ SF_vars(WriteSome)
-----------------------------------------------------------------------------
\* The output holds the cells of each file in their order from the first on, without
\* a gap and none twice, each as it is in the file or as a zero, though files end,
\* fail and follow each other while the buffer still holds some of the last: unless
\* a read that failed has taken some along.
Before(c, d) == \/ d.file = c.file /\ d.at = c.at + 1
                \/ d.file > c.file /\ d.at = 1
Ordered(s) == /\ s # <<>> => s[1].at = 1
              /\ \A i \in 1..Len(s) - 1 : Before(s[i], s[i + 1])
InOrder == ~lost => Ordered(out) /\ \A i \in 1..Len(out) : out[i].zero => opt.skip

\* If pv ends without a sign that something went wrong, and its output has not
\* ended before it, everything is there, up to the size at which it had to stop,
\* and was counted; but for lines that come behind a zero.
UpTo(f, k) == {c \in UNION {{[file |-> g, at |-> i, zero |-> FALSE] : i \in DOMAIN files[g].cells} : g \in 1..f} :
                 c.file = f => c.at <= k}
Beginning(s) == Range(s) = UNION {UpTo(c.file, c.at) : c \in Range(s)}
Amount(s) == IF opt.line THEN Lines(s) ELSE Len(s)
Uncounted(s) == opt.line /\ \E i \in 1..Len(s) : Cell(s[i]) = "zero"
Complete == pc = "end" /\ status = {} /\ ~closed /\ ~ended =>
              /\ Ordered(out)
              /\ \/ Range(out) = UpTo(n, Len(File)) /\ n = Len(files)
                 \/ /\ Stops /\ (Amount(out) >= opt.size \/ Uncounted(out))
                    /\ Beginning(out)
              /\ (opt.line /\ Stops) \/ total = Amount(out) \/ Uncounted(out)

\* What goes out is never more than the rate has allowed since the start, unless
\* lines were counted twice, nor more than the size at which to stop, unless a line
\* was not counted since it came behind a zero.
WithinLimits ==
  pc = "loop" => /\ target >= 0 \/ (opt.line /\ Stops /\ total > opt.size)
                 /\ Stops => Amount(out) <= opt.size \/ Uncounted(out)

\* pv ends, unless a write has taken nothing: then it takes its output for ended
\* and no longer writes, but its input goes on.
Ends == <>(pc = "end" \/ ended)
=============================================================================
