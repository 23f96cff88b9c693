------------------------------ MODULE DataStore ------------------------------
(***************************************************************************)
(* One name of the DataStore (src/go/redisfs/store.go), shared by client   *)
(* processes.  A call runs one goroutine per stripe, or per instance when  *)
(* it looks for the last stripe; a goroutine is one Redis transaction,     *)
(* command or script, which the instance executes atomically, and the call *)
(* goes on when the WaitGroup is down to zero.  A process makes one call   *)
(* at a time: PdwFS.lock is held around each.                              *)
(***************************************************************************)
EXTENDS Striping, Sequences, FiniteSets

CONSTANTS Proc, Instance,   \* client processes, Redis instances of the ring
          MaxStripe,        \* bound: stripes 0..MaxStripe are written
          Home,             \* the instance the ring gives a stripe's key
          Byte, Zero,       \* byte values, "\x00" among them
          NoByte,           \* a byte of the caller's buffer not filled in
          Ops               \* the calls the clients make

Ids     == -1..MaxStripe    \* Resize(0) trims a stripe of id -1
MaxSize == (MaxStripe + 1) * StripeSize
ASSUME StoreAssumption ==
  /\ MaxStripe \in Nat
  /\ Home \in [Ids -> Instance]
  /\ Zero \in Byte /\ NoByte \notin Byte
  /\ Ops \subseteq {"write", "sparse", "read", "remove", "size", "shrink", "grow", "growpart", "crash"}

VARIABLES
  reg,      \* reg[i]: the set "<name>:stripes" of instance i
  stored,   \* the ids whose key "<name>:<id>" exists
  stripe,   \* the values of these keys, empty for the others
  call,     \* the call each process is in
  out,      \* history: the last call that returned
  before    \* history: the contents of the file when a process's call began
redis == <<reg, stored, stripe>>
vars  == <<reg, stored, stripe, call, out, before>>

-----------------------------------------------------------------------------
\* The file the stripes hold: its size is that of its last registered stripe.
Registered == UNION {reg[i] : i \in Instance}
Last(S)    == CHOOSE m \in S \cup {-1} : \A id \in S : id <= m
Size == LET last == Last(Registered)
        IN  IF last < 0 THEN 0 ELSE last * StripeSize + Len(stripe[last])
Contents == [k \in 1..Size |->
  LET s == stripe[(k - 1) \div StripeSize]  r == ((k - 1) % StripeSize) + 1
  IN  IF r <= Len(s) THEN s[r] ELSE Zero]

Idle == [op |-> "idle", phase |-> "none", off |-> 0, len |-> 0, val |-> Zero,
         asked |-> {}, last |-> -1, todo |-> {}, n |-> 0, buf |-> <<>>]

None == [op |-> "none", off |-> 0, len |-> 0, val |-> Zero, n |-> 0, buf |-> <<>>]

Task(kind, id, off, pos, len, val) ==
  [kind |-> kind, id |-> id, off |-> off, pos |-> pos, len |-> len, val |-> val]
Transfer(kind, off, len, val) ==
  {Task(kind, t.id, t.off, t.pos, t.len, val) : t \in Layout(off, len)}
RemoveTasks(ids) == {Task("remove", id, 0, 0, 0, Zero) : id \in ids}
ZeroByte(id, off) == Task("write", id, off, 0, 1, Zero)

\* Resize from the size it has read to the new one.
ResizeTasks(cur, new) ==
  LET c == LastStripeInfo(cur)  w == LastStripeInfo(new)
  IN  CASE new < cur -> RemoveTasks((w.id + 1)..c.id)
                          \cup {Task("trim", w.id, 0, 0, w.len, Zero)}
        [] new > cur -> {ZeroByte(id, StripeSize - 1) : id \in (c.id + 1)..(w.id - 1)}
                          \cup {ZeroByte(w.id, w.len - 1)}
                          \cup (IF c.len < StripeSize
                                THEN {ZeroByte(c.id, StripeSize - c.len - 1)} ELSE {})
        [] OTHER -> {}

\* SETRANGE pads a short value with zero bytes; GETRANGE stops at its end.
SetRange(s, off, len, v) ==
  [k \in 1..(IF off + len > Len(s) THEN off + len ELSE Len(s)) |->
     IF off < k /\ k <= off + len THEN v ELSE IF k <= Len(s) THEN s[k] ELSE Zero]
\* (a bug: the byte at the end of the range left out)
GetRange_short(s, off, len) ==
  SubSeq(s, off + 1, IF off + len - 1 > Len(s) THEN Len(s) ELSE off + len - 1)
GetRange(s, off, len) ==
  SubSeq(s, off + 1, IF off + len > Len(s) THEN Len(s) ELSE off + len)

-----------------------------------------------------------------------------
Init == /\ reg = [i \in Instance |-> {}] /\ stored = {}
        /\ stripe = [id \in Ids |-> <<>>]
        /\ call = [p \in Proc |-> Idle]
        /\ out = None
        /\ before = [p \in Proc |-> <<>>]

Begin(p, c) == /\ call[p] = Idle
               /\ call' = [call EXCEPT ![p] = c]
               /\ before' = [before EXCEPT ![p] = Contents]
               /\ out' = None /\ UNCHANGED redis

\* The inputs: a write leaves no gap unless "sparse" is among Ops.  Bound: no
\* transfer has more than InitialCap stripes, so that Layout is all of its loop's.
CallWrite(p, off, len, v) ==
  /\ "write" \in Ops /\ (off <= Size \/ "sparse" \in Ops) /\ OneSlice(off, len)
  /\ Begin(p, [Idle EXCEPT !.op = "write", !.phase = "stripes", !.off = off, !.len = len,
                           !.val = v, !.todo = Transfer("write", off, len, v)])
CallRead(p, off, len) ==
  /\ "read" \in Ops /\ OneSlice(off, len)
  /\ Begin(p, [Idle EXCEPT !.op = "read", !.phase = "stripes", !.off = off, !.len = len,
                           !.todo = Transfer("read", off, len, Zero),
                           !.buf = [k \in 1..len |-> NoByte]])
CallSearching(p, op, len) ==
  Begin(p, [Idle EXCEPT !.op = op, !.phase = "search", !.len = len, !.asked = Instance])
CallGetSize(p) == "size" \in Ops /\ CallSearching(p, "size", 0)
CallRemove(p)  == "remove" \in Ops /\ CallSearching(p, "remove", 0)
CallResize(p, new) ==
  /\ \/ "shrink" \in Ops /\ new <= Size
     \/ "grow" \in Ops /\ new > Size /\ Size % StripeSize = 0
     \/ "growpart" \in Ops /\ new > Size
  /\ CallSearching(p, "resize", new)

-----------------------------------------------------------------------------
\* a bug: the answer of the last instance to reply wins
SearchInstance_last(p, i) ==
  /\ call[p].phase = "search" /\ i \in call[p].asked
  /\ call' = [call EXCEPT ![p].asked = @ \ {i}, ![p].last = Last(reg[i])]
  /\ UNCHANGED <<redis, out, before>>

\* SMEMBERS on one instance, and the maximum kept.
SearchInstance(p, i) ==
  /\ call[p].phase = "search" /\ i \in call[p].asked
  /\ call' = [call EXCEPT ![p].asked = @ \ {i}, ![p].last = Last(reg[i] \cup {@})]
  /\ UNCHANGED <<redis, out, before>>

\* GetSize has its answer: the call returns it, or Resize starts its goroutines.
Sized(p, size) ==
  call' = [call EXCEPT ![p].phase = "stripes", ![p].n = IF call[p].op = "size" THEN size ELSE 0,
             ![p].todo = IF call[p].op = "resize" THEN ResizeTasks(size, call[p].len) ELSE {}]
Searched(p) == call[p].phase = "search" /\ call[p].asked = {}
SizeOfNone(p) == /\ Searched(p) /\ call[p].op # "remove" /\ call[p].last < 0
                 /\ Sized(p, 0) /\ UNCHANGED <<redis, out, before>>
Strlen(p) == /\ Searched(p) /\ call[p].op # "remove" /\ call[p].last >= 0
             /\ Sized(p, call[p].last * StripeSize + Len(stripe[call[p].last]))
             /\ UNCHANGED <<redis, out, before>>
StartRemoving(p) ==
  /\ Searched(p) /\ call[p].op = "remove"
  /\ call' = [call EXCEPT ![p].phase = "stripes", ![p].todo = RemoveTasks(0..call[p].last)]
  /\ UNCHANGED <<redis, out, before>>

Doing(p, t, kind) == t \in call[p].todo /\ t.kind = kind /\ UNCHANGED <<out, before>>
Done(p, t) == call' = [call EXCEPT ![p].todo = @ \ {t}]

\* bugs: a stripe written without SADD; SET for every write from the start
WriteStripe_noSadd(p, t) ==
  /\ Doing(p, t, "write") /\ Done(p, t)
  /\ stored' = stored \cup {t.id}
  /\ stripe' = [stripe EXCEPT ![t.id] = SetRange(@, t.off, t.len, t.val)]
  /\ UNCHANGED reg
WriteStripe_set(p, t) ==
  /\ Doing(p, t, "write") /\ Done(p, t)
  /\ reg' = [reg EXCEPT ![Home[t.id]] = @ \cup {t.id}]
  /\ stored' = stored \cup {t.id}
  /\ stripe' = [stripe EXCEPT ![t.id] =
       IF t.off = 0 THEN [k \in 1..t.len |-> t.val] ELSE SetRange(@, t.off, t.len, t.val)]

\* MULTI; SADD; SET or SETRANGE; EXEC
WriteStripe(p, t) ==
  /\ Doing(p, t, "write") /\ Done(p, t)
  /\ reg' = [reg EXCEPT ![Home[t.id]] = @ \cup {t.id}]
  /\ stored' = stored \cup {t.id}
  /\ stripe' = [stripe EXCEPT ![t.id] =
       IF t.off = 0 /\ t.len = StripeSize THEN [k \in 1..t.len |-> t.val]
                                          ELSE SetRange(@, t.off, t.len, t.val)]
\* GET or GETRANGE into the buffer, the count added atomically
ReadStripe(p, t) ==
  LET got == GetRange(stripe[t.id], t.off, t.len)
  IN  /\ Doing(p, t, "read") /\ UNCHANGED redis
      /\ call' = [call EXCEPT ![p].todo = @ \ {t}, ![p].n = @ + Len(got),
           ![p].buf = [k \in DOMAIN @ |->
              IF t.pos < k /\ k <= t.pos + Len(got) THEN got[k - t.pos] ELSE @[k]]]
\* a bug: the key is unlinked and its id left in the set
RemoveStripe_noSrem(p, t) ==
  /\ Doing(p, t, "remove") /\ Done(p, t)
  /\ stored' = stored \ {t.id}
  /\ stripe' = [stripe EXCEPT ![t.id] = <<>>]
  /\ UNCHANGED reg

\* MULTI; SREM; UNLINK; EXEC
RemoveStripe(p, t) ==
  /\ Doing(p, t, "remove") /\ Done(p, t)
  /\ reg' = [reg EXCEPT ![Home[t.id]] = @ \ {t.id}]
  /\ stored' = stored \ {t.id}
  /\ stripe' = [stripe EXCEPT ![t.id] = <<>>]
\* a bug: the inclusive end of GETRANGE is taken for an exclusive one
TrimStripe_inclusive(p, t) ==
  /\ Doing(p, t, "trim") /\ Done(p, t)
  /\ stored' = stored \cup {t.id}
  /\ stripe' = [stripe EXCEPT ![t.id] = GetRange(@, 0, t.len + 1)]
  /\ UNCHANGED reg

\* the script: GETRANGE and SET, with no SADD
TrimStripe(p, t) ==
  /\ Doing(p, t, "trim") /\ Done(p, t)
  /\ stored' = stored \cup {t.id}
  /\ stripe' = [stripe EXCEPT ![t.id] = GetRange(@, 0, t.len)]
  /\ UNCHANGED reg

Return(p) ==
  /\ call[p].phase = "stripes" /\ call[p].todo = {}
  /\ out' = [op |-> call[p].op, off |-> call[p].off, len |-> call[p].len,
             val |-> call[p].val, n |-> call[p].n, buf |-> call[p].buf]
  /\ call' = [call EXCEPT ![p] = Idle]
  /\ before' = [before EXCEPT ![p] = <<>>]
  /\ UNCHANGED redis

\* A Redis error panics in a goroutine and takes the process down; a job
\* scheduler may kill it as well.  Whatever its call had left to do is lost, and
\* the process may be started again.
Crash(p) == /\ "crash" \in Ops /\ call[p] # Idle
            /\ call' = [call EXCEPT ![p] = Idle]
            /\ before' = [before EXCEPT ![p] = <<>>]
            /\ UNCHANGED <<redis, out>>

Call(p) == \/ \E off \in 0..MaxSize : \E len \in 0..(MaxSize - off) :
                CallRead(p, off, len) \/ \E v \in Byte : CallWrite(p, off, len, v)
           \/ \E new \in 0..MaxSize : CallResize(p, new)
           \/ CallGetSize(p) \/ CallRemove(p)
Step(p) == \/ \E i \in Instance : SearchInstance(p, i)
           \/ SizeOfNone(p) \/ Strlen(p) \/ StartRemoving(p)
           \/ \E t \in call[p].todo :
                WriteStripe(p, t) \/ ReadStripe(p, t) \/ RemoveStripe(p, t) \/ TrimStripe(p, t)
           \/ Return(p)
Next == \E p \in Proc : Call(p) \/ Step(p) \/ Crash(p)
Spec == Init /\ [][Next]_vars
-----------------------------------------------------------------------------
Tasks == [kind : {"write", "read", "remove", "trim"}, id : Ids, off : 0..(StripeSize - 1),
          pos : 0..MaxSize, len : 0..StripeSize, val : Byte]
Calls == [op : {"idle", "write", "read", "remove", "size", "resize"},
          phase : {"none", "search", "stripes"}, off : 0..MaxSize, len : 0..MaxSize, val : Byte,
          asked : SUBSET Instance, last : Ids, todo : SUBSET Tasks, n : Nat,
          buf : Seq(Byte \cup {NoByte})]

TypeOK == /\ reg \in [Instance -> SUBSET Ids] /\ stored \subseteq Ids
          /\ stripe \in [Ids -> Seq(Byte)]
          /\ \A id \in Ids : Len(stripe[id]) <= StripeSize
          /\ call \in [Proc -> Calls]

\* A stripe is registered on the instance that stores it and nowhere else, and
\* never without its key, whatever calls interleave or are cut short: the set
\* and the value change in one transaction (writeStripe, removeStripe).  This
\* is of transfers of at most InitialCap stripes: of a longer one that does not begin
\* at stripe 0, the zero-valued entries would register stripe 0 (store.go:78).
RegisteredIsStored ==
  \A i \in Instance : \A id \in reg[i] : Home[id] = i /\ id \in stored /\ id >= 0

\* A stripe no set holds is lost to searchLastStripe: GetSize does not count it
\* and Remove does not remove it.  Only a trim of a stripe that is not there
\* (a gap, or one that another process has removed) makes one.
StoredIsFound == stored \ {-1} \subseteq Registered

\* A size computed while others write and grow the file (SMEMBERS on the
\* instances one by one, then STRLEN) is never less than the size the file had
\* when the call began, nor more than it has once the answer is there.  It need
\* not be a size the file ever had: asked in two parts, it can be 3 of a file
\* that went from 2 bytes to 5.
SizeBracket ==
  \A p \in Proc : call[p].op = "size" /\ call[p].phase = "stripes" =>
                    Len(before[p]) <= call[p].n /\ call[p].n <= Size

Returns(p, op) == call[p].op = op /\ call[p].phase = "stripes" /\ call'[p] = Idle

\* fs.go:51: Truncate "shrinks or extends the size of the File to the specified
\* size".
ResizeReachesSize ==
  [][\A p \in Proc : Returns(p, "resize") => Size' = call[p].len]_vars
-----------------------------------------------------------------------------
\* The file of a lone process: while it is in a call, as the call found it.
\* Every call takes effect when it returns.
Quiet == \A p \in Proc : call[p] = Idle
Visible == IF Quiet THEN Contents ELSE before[CHOOSE p \in Proc : call[p] # Idle]
Flat == INSTANCE FlatFile WITH file <- Visible, Offsets <- 0..MaxSize, Lengths <- 0..MaxSize

\* Each call of a lone process is one step on a flat file: it writes the bytes
\* it was given where it was told and no other, reads the file's bytes up to its
\* end, computes the size, empties or resizes the file (DataStore's methods).
\* Transfers have at most InitialCap stripes: a longer read counts too much.
IsFlatFile == Flat!Spec
=============================================================================
