# A TLA+ model of pdwfs

pdwfs is a preload library that turns the file
I/O of a parallel program under given mount points into traffic with a set of
Redis instances: files are cut into stripes, the stripes are spread over the
instances, and the names of files and directories are keys in Redis as well.
There is no server of pdwfs's own.  All coordination between the processes of a
job is what they leave in Redis, one command, transaction or script at a time.

This directory models that: the store of stripes, the namespace, the pools of
connections all of it goes through, the descriptors through which a program
reaches it, the calls it intercepts with their paths and streams, the scripts
that start and stop the Redis instances, and the meter `pv` those scripts count
instances with.  TLC runs check small instances; theorems, checked by TLAPS, hold
for all of them.

    tlc -workers 2 -config X.cfg M.tla      # the run of PROJECT.json with this cfg and module
    tlapm MProofs.tla                       # the proofs about module M

## The system

| component | source | state it keeps | operations |
|---|---|---|---|
| C interception layer | `src/c/pdwfs.c`, `utils.c`, `libc.c` | `mount_register` (paths), `fd_register` (descriptors of "twin" temporary files), `pdwfs_initialized` | one wrapper per libc call: ours or libc's, by path or descriptor |
| Go layer | `src/go/pdwfs.go` | `mounts`, `fdFileMap`, a global lock, a global errno | `Open`, `Close`, `Read`, ... each under the lock; errors become errno or a panic |
| Configuration | `src/go/config/config.go` | mounts, stripe sizes, addresses | read once |
| RedisFS | `src/go/redisfs/fs.go`, `inodes.go` | in Redis `{path}:mode`, `{path}:children`; in the process `fs.inodes` with memoised `isDir`, `mode` | `NewRedisFS`, `Mkdir`, `RmDir`, `OpenFile`, `Remove`, `Stat`, `ReadDir` |
| MemFile | `src/go/redisfs/file.go` | the offset of an open file, the inode's mutex | `Read`, `Write`, `Seek`, `ReadAt`, `WriteAt`, vectors, `Truncate` |
| DataStore | `src/go/redisfs/store.go` | in Redis `name:id` (the stripe) and, on each instance, `name:stripes` (the ids it holds) | `WriteAt`, `ReadAt`, `Remove`, `GetSize`, `Resize` |
| RedisClient, Pipe, RedisRing | `src/go/redisfs/redis.go` | one pool per instance | one method per command; MULTI ... EXEC; key to instance |
| Consistent hashing | `src/go/util/consistenthash.go` | sorted hashes of 100 replicas per instance | `Add`, `Get` |
| redigo | `src/go/redigo/redis` | `p.ch`, `p.active`, `p.idle`; per connection `pending`, `err`, transaction state | `Get`, `Close`, `Send`, `Do`, `Receive` |
| pv | `tools/pv/src/pv/transfer.c`, `loop.c`, `file.c`, `cursor.c`, `signal.c` | the transfer buffer, two flags for the ends of input and output, totals; on a terminal the rows of several `pv`, in shared memory | `pv_main_loop`, `pv_transfer`, `pv_next_file`, `pv_crs_init`, `_update`, `_reinit`, `_fini` |
| Session scripts | `tools/pdwfs-slurm`, `tools/redis.srun` | lists `waitkey`, `order`, set `addr` in a central Redis; `pdwfs.session` | `init`, `finalize` |

How they interact.  A libc call goes through the C wrapper and, under the Go
layer's one lock, into RedisFS or MemFile, so that **a process makes one call
at a time**.  A call of the store then starts a goroutine per stripe, each of
which takes a connection from the pool of its instance, runs one transaction or
command and gives the connection back; the call returns when all have
(`sync.WaitGroup`).  Different processes meet only in Redis.  `pdwfs-slurm` pipes
what the central Redis answers through `pv -l`, one line per instance; several
`pv` may share a terminal.

What is hard about it:

* a call is many Redis commands, on several instances, and calls of different
  processes interleave between them;
* a process may die in the middle of a call (a Redis error panics in a
  goroutine; the batch scheduler kills jobs), and nothing rolls it back;
* inodes are remembered by each process and never invalidated by the others;
* stripes, lengths, last stripes: boundary arithmetic everywhere;
* fifty connections per instance for any number of goroutines: tokens, counts
  and the protocol state of a connection must survive every failure;
* a path and a descriptor are told to be pdwfs's on every call anew, and a call
  on a stream is several calls of the Go layer, with no lock around them;
* `pv`'s input and output end, fail and go on independently of each other, and
  it takes what it may send from a rate, a size and what it believes it has sent.

What makes each component correct:

* **store**: a transfer touches every byte once; the sets and the stripes
  agree; for one process the whole is a flat file; for several that write
  different bytes nothing is lost; a size is between what the file had when it was
  asked for and what it has when it is told;
* **namespace**: what is listed exists and what exists is listed; for paths of
  its own a process sees a tree;
* **pool**: tokens are kept, connections are counted, in one place, and clean
  when they are handed out; nobody waits for ever;
* **descriptors**: the three tables agree, nothing is left in one of them, a
  call reaches the file that was opened;
* **interception**: what a name stands for is asked of the layer that has it, but
  for the calls below that go astray; a stream gives the bytes of its file once
  and in order, with the flags and the buffers libc's callers rely on;
* **pv**: what goes out is what came in, in order, complete, within the limits;
  it ends; each process keeps its line;
* **session**: init ends when all instances are up, finalize when all are down.

`PROJECT.json` lists what is hard to test, each at its line ("hazards"), with
the properties that look at it.

## The modules

`Striping` - the arithmetic of `stripeLayout` and `lastStripeInfo`, as
operators: `Piece` (one iteration), `Layout` (what it covers), `OneSlice` (whether
the slice it makes is long enough), `LastStripeInfo`.

`StripeLayout` - the loop of `stripeLayout`, an iteration per step, with the
slice it fills: its length, capacity, and the growth by hand that leaves
zero-valued entries.  `Layout` is shown to be the entries that carry data, and the
whole result exactly if `OneSlice`; the other modules use the closed form, and take
their transfers to fit that slice.

`FlatFile` - the abstract store: one sequence of bytes, each call one step.

`DataStore` - the store, for one name and any number of processes.  `reg[i]`
is the set `name:stripes` on instance `i`; `stored` and `stripe` are the keys
`name:id`.  `call[p]` is what process `p` is doing: the instances still to be
asked (`asked`), the goroutines still to run (`todo`), what has been counted and
read (`n`, `buf`).  `WriteStripe`, `ReadStripe`, `RemoveStripe`, `TrimStripe`,
`SearchInstance`, `Strlen` are the Redis transactions, commands and scripts;
`Crash` ends a process between two of them.  `Home` stands for the ring's
placement of keys, any function.  Redis's SETRANGE and GETRANGE are modelled on
sequences of bytes, padding included.  `Visible` is the file as a lone process
sees it, and `IsFlatFile` says that with it the store implements `FlatFile`: each
call takes effect when it returns.  `MCDataStore` instantiates the module.

`DisjointWriters` - the clients pdwfs is for: each process transfers its own
segment of one file.  It restricts `DataStore`'s calls and remembers what each
process has written where.

`Tree` - the abstract namespace: paths that are nothing, a directory, an empty
or a full file; each call one step with its error.

`RedisFS` - the namespace, for any number of processes.  `modes` and `children`
are the keys, `data` says which files have contents (the store's business),
`inodes[p]` is `fs.inodes` with each Inode's `isDir`, and `call[p].at` is the
command a call has come to: `FindParent`, `CheckParent` and `FindNode` are
`fileInfo`; `CreateMeta` and `SetChild` are `createInode`; `ReadDir` and then
`RemoveChild` ... `DelMeta` are `RmDir` and `Remove`, whose recursion is the
stack `call[p].todo`.  `Start`, `Exit` and `Crash` are a process's life.  An error
for which `pdwfs.go` has no errno ends the process by a panic (pdwfs.go:441 for
`unlink`): `Return` and then `Exit`; the model's process may go on with it too.
`MCRedisFS` instantiates it and states its refinement of `Tree`.

`ConnPool` - one pool of redigo and its connections.  A region under `p.mu` is
one step; waiting on `p.ch`, dialing and talking to Redis are steps of their
own.  Of a connection it keeps what the client counts (`pending`), what is
really to come (`unread`), whether the server is in a MULTI and whether the
connection is broken.  `Release` is `activeConn.Close`, `PutIdle`, `PutFull`,
`PutForced` and `Drop` are `put`, `Close` is the pool's.

`Descriptors` - the abstract table of open files of a process: an offset for
each, every call one step.

`FdTable` - how it is done.  `kernel` is what each descriptor is to the kernel,
`register` the keys of the C layer's `fd_register`, `files` the Go layer's
`fdFileMap` with the offset and the access mode of each MemFile.  `OpenTwin` and
`Register` are the two calls of `get_new_stream`, `GoOpen` and `GoOpenFails` the
Go layer's `Open` or `Fopen`, `GoClose`, `Unregister` and `CloseTwin` the three
steps of `close`, the last two also those of a failed open.  Since the Go layer
holds its lock through a call, each call on an open file (`Read`, `Pread`,
`Write`, `Pwrite`, `Seek`, `Truncate`, with vectors of slices) is one step;
`ReadVec` and `WriteVec` are the loops over a vector.  `app` is not in the code:
it is what the program believes it has opened.  `MCFdTable` states the
refinement of `Descriptors`.

`Paths` - how a path is told to be pdwfs's.  A path is a sequence of components;
`AbsPath` is `abspath` with the end of its buffer (`Dest`, `Room`), `ContainsPath`
the search for a mount point, `Normal` and `GoMounts` what Go's `filepath.Abs` and
`getMount` give for the same path.

`Interception` - each wrapper of `pdwfs.c` on a path or a descriptor, one step:
libc's (`LibcPath`, `LibcFd`), the Go layer's (`GoPath`, `GoFd`, `OnFile`), or the
end of the process (`Exits`, for what is not implemented).  `PassThrough` is what
the calls that start from a directory's descriptor do: pass to libc, whatever the
path.  `phase` is where the
library is between its constructor and its destructor, `register` and `files` are
the C and the Go table, `data` the bytes of the files.  `app` and `astray` are not
in the code: the file the program has each descriptor for, and what the last call
asked for, if another layer has served it than the one that has it (`At` for a name
below a mount point of a call that starts from a descriptor, `Taken` for the file
that `freopen` has put under the descriptor of a stream).

`Streams` - the calls on streams, over `Interception`.  Of a FILE there are the two
flags (`eof`, `err`); `call[f]` is a `fread` on its way to the end of the file and
back (`FreadCur`, `FreadEnd`, `FreadSet`: a call of `lseek` each) or a `getdelim` with
the line it has and the size of its buffer (`LineChar`, `LineEnds`, `LineCut`,
`LineAborts`: a character each).  `seen` is what the stream has given the program.
`MCStreams` has the mount points and the paths.

`PvTransfer` - `pv_main_loop` around `pv_transfer`: `NextFile` is `pv_next_file`,
`Turn` the computation of what may be sent, `Select` the wait, `Splice`, `ReadSome`,
`ReadEnd`, `ReadTransient`, `ReadError` the outcomes of `pv__transfer_read`,
`WriteSome`, `WriteNone`, `WritePipe`, `WriteError` those of `pv__transfer_write`,
`Count` the end of the turn.  A cell stands for a byte and knows where it is from,
so that the output can be compared with the files; one that is `bad` cannot be
read.  `Remote` and `Abort` are what other processes and the user may do.

`PvCursor` - several `pv` on one terminal, as far as `cursor.c` goes: `top` is the
row in shared memory, `row` where the terminal's cursor is, `holder` who has locked
it, and the rest is each process's own.  `InitLock` to `Top` are `pv_crs_ipcinit`,
`Reinit` to `Writes` `pv_crs_update`, `Fini` `pv_crs_fini`, `Signal` SIGCONT.

`SlurmSession` - `pdwfs-slurm` and the `redis.srun` of each node, a redis-cli
command per step.  `shell` is where the command of the user is, `script[n]`
where the script of node `n` is, with which port; `waitkey`, `order` and `addr`
are the keys of the central Redis, which are gone when it is.  `CleanBefore` to
`WriteSession` are init, `Order` to `CleanAfter` finalize, `Fail` the function
of that name, `RunScript` to `PushDown` redis.srun from its start to its end.

`DataStoreProofs` (`Striping`, `StripeLayout` and `DisjointWriters` too),
`RedisFSProofs`, `ConnPoolProofs`, `FdTableProofs`, `StreamsProofs` (`Interception`
too), `SlurmSessionProofs`, `PvTransferProofs`, `PvCursorProofs` - theorems about the
modules they are named after.

An operator with an underscore in its name (`WriteStripe_noSadd`) is a mutant:
the code with a plausible bug, which nothing uses except to see that a property
notices it.

## The runs

| run | question | bounds |
|---|---|---|
| `StripeLayout` | does the loop cover each byte once, are its entries with data `Layout`, and when are there others? | stripes of 3 bytes, capacity 2, offsets to 7, lengths to 20: transfers of up to 8 stripes, so that the slice grows from 2 to 8 |
| `DataStore_flat` | is the store a flat file for one process? | 3 stripes of 2 bytes on 2 instances, 2 byte values: every alignment of a transfer, whole and partial stripes, files that end in, at and after a stripe |
| `DataStore_shared` | do the sets stay sound under every interleaving and crash? | 2 processes, 2 stripes, all calls, gaps allowed |
| `DisjointWriters` | do writers of one stripe disturb each other? | segments {0,1} and {2,3,4} of stripes of 3: the first stripe has two writers, the second call of one crosses a boundary |
| `RedisFS_own` | does a process see a tree in a directory of its own, while another shares the mount point, opens the same file and crashes? | a directory, a file in it, a shared file, 2 processes |
| `ConnPool` | does the pool keep its tokens and its promises? | 3 goroutines, 2 connections, 1 idle, 2 commands sent ahead: goroutines wait, the idle list overflows, Close meets every phase |
| `FdTable` | do the tables of descriptors agree, and does each call do what it does to a plain table of files? | 2 threads, 2 descriptors, so that one is given out again at once or waited for, 1 file of at most 3 bytes, vectors of up to 2 slices, empty ones too |
| `SlurmSession` | do init and finalize end, and only when all instances are up, or gone? | 3 nodes with 2 instances each, any number of sessions, starts that fail, a central Redis and instances that die while a session is up |
| `Streams` | is every call served by the layer that has what it asks for, two kinds excepted, and do streams keep their promises? | 3 descriptors, one of them standard, the other two interchangeable, 2 mount points, 3 paths with detours, of which one of each layer's is opened, files of at most 2 bytes (the end of a line, a character, byte 255) in every order; buffers of none, 1 and 3 bytes, `BUFSIZ` 3, so that lines exceed their buffer; for `PathsResolve` every path of up to 4 components in a buffer that starts with 4 places, one component longer than that |
| `PvTransfer` | does `pv` pass on its files, within its limits, and end? | 5 lists of files of up to 8 bytes, 4 sets of options, a buffer of 3: it is full, partly written and empty at each end, error and change of file |
| `PvCursor` | does each `pv` keep its line? | 2 processes, a screen of 4 rows, so that it scrolls, 2 signals |
| `DataStore_grow` | one place where the code does not do what its comment says | as small as the case allows |

What the last one shows: `Resize` of a file that ends inside a stripe fills "the
current last stripe" at an offset computed from the wrong end (store.go:287).
A file of 1 byte resized to 2 gets 3 when stripes have 4.

Other places where the code does something else than it says, or than libc does,
met while reading.  The models follow the code; a property that would not hold of
them names the exception, or the run leaves them out, as is said of each:

* a transfer of more than 100 stripes makes `stripeLayout` replace its slice by one
  of twice the length, not capacity (store.go:78), so that as many entries stay
  {0, 0, nil}.  Each gets a goroutine: of a write, one that adds stripe 0 to its
  set without storing it; of a read, one that counts all of stripe 0 once more, so
  that `ReadAt` returns more than its buffer holds.  With stripes of 50 MB (the
  default) that takes a call of 5 GB.  `IsLayout` says when there are such entries;
  the store's other modules leave these transfers out (`OneSlice`);
* the calls that start from a directory's descriptor (`openat`, `unlinkat`,
  `faccessat`, `__fxstatat`, `mkdirat`, `renameat`) pass to libc also when their path is
  below a mount point (pdwfs.c:1005).  `RightLayer` excepts them (`At`);
* `GetSize` asks in parts, so that what it answers while others write may be a
  size the file never had: 3, of a file that a write of two stripes takes from 2
  bytes to 5.  `SizeBracket` says what is left;
* `freopen` looks at the path only: a stream of pdwfs's that is given a file of libc's
  keeps its descriptor in both tables, so that what is done with it goes on in
  pdwfs's file (pdwfs.c:659).  `RightLayer` excepts it (`Taken`);
* `fread` compares the bytes it got with the elements it was asked for
  (pdwfs.c:892): two elements of two bytes, of which there are but two bytes, are
  a short read without a flag.  `ShortReadExplained` is about the reads that go on
  to look for the end;
* `fgets` gives `getdelim` its caller's buffer, which a longer line makes it
  `realloc`: one that `malloc` did not make ends the process (`LineAborts`); of one
  that it made, the caller keeps a pointer to what is no longer there, which the
  model does not follow;
* `getdelim` writes the NUL past a buffer of one byte (pdwfs.c:1168), or of the two it
  grows to.  `LineFits` excepts a line that was begun with it (`tiny`);
* `RmDir` looks and then removes; an entry made by another process in between
  goes too (fs.go:228);
* init cleans up a session that was not finalized by shutting down its central
  Redis; the nodes of that session notice, stop, and report to the new central
  Redis that they are done, which init takes for its own instances being up
  (pdwfs-slurm:168).  `SlurmSession` excludes it by `Again = FALSE`;
* `fgetc` returns a char, so that byte 255 is -1 (pdwfs.c:753): `getdelim` loses
  such a line (`LineCut`), and `NothingLost` is about files without that byte;
* a name is compared with a mount point as text (pdwfs.c:112, pdwfs.go:105):
  `/mnt/foobar` is taken to be below `/mnt/foo`, by both layers alike;
* `pv` forgets the bytes it has read in a call of `pv__transfer_read_repeated`
  when a later read of that call fails (transfer.c:49).  `InOrder` is about
  transfers in which that has not happened (`lost`);
* a write interrupted before its first byte is taken for the end of the output
  (transfer.c:129, 503): `pv` does not write any more, and ends only if its input
  does before its buffer is full (`ended`);
* in line mode the lines of the last transfer are counted once more on the turn on
  which the size is reached (loop.c:184), so that a further file is not begun with
  the right total; and a NUL, which `-E` writes, hides the lines behind it
  (transfer.c:540);
* after a `pv` has left a terminal, the next to come takes its number from the
  count of those left (cursor.c:319) and shares a line: `OwnLine` holds until then.

The passing runs say, by what their inputs leave out, where the code works:
`DataStore_flat` leaves no gap and extends only files of whole stripes; `RedisFS_own`
does not remove a directory whose entries it remembers (`Unmet`), since `fs.inodes`
would keep them, nor a file it has open; the store's transfers have at most
`InitialCap` stripes (`OneSlice`); in `FdTable` a program closes a descriptor once and
not while another of its threads uses it, and does not seek before the start of a
file, which panics; `SlurmSession` runs init only when no `redis.srun` is left
(`Again`).  In `Streams` libc's `freopen` succeeds and keeps a stream's direction, and
a program uses a stream from one thread at a time, in the direction it was opened for,
keeps its standard descriptors, and makes no call but on those after the destructor,
whose tables are then freed.  A gap, as a write beyond the end leaves it, is in
`DataStore_shared` and `DisjointWriters`: reading it gives fewer bytes than a flat
file would (store.go:121).

Deadlock is not checked in the store's and the namespace's runs, in `Streams`,
`PvTransfer` and `PvCursor`: clients may stop calling, processes crash, exit and
end, and the bounds end the layout's loop.  It is in the other three.

### Fairness

Four modules have liveness properties.  `ConnPool`'s `Fairness` assumes that a goroutine
that can go on in `get` or `put` does (Go's scheduler), that a channel serves
its receivers in turn (strong fairness of `TakeToken`: Go queues them), and that
whoever holds a connection releases it in the end: every method of RedisClient
defers `conn.Close`, and `Pipe.Flush` does.  Each command may fail, but it must end:
pdwfs sets no read timeout, so that a reply is waited for without one
(conn.go:667), and this fairness takes Redis to answer or the connection to break.
While a Redis instance is hung with its connections up, those who wait for one of
them wait too.

`SlurmSession`'s assumes that a script that is not waiting for anything goes on
(weak fairness of the command under way and of each `redis.srun`), which is what
a shell does, and that srun and redis-server do start what they are told to.  If
they do not, init waits for ever: the exit code it tests is that of putting srun
in the background.  Nothing is assumed of the user: no command need ever be run.

`PvTransfer` assumes that `pv` goes on (weak fairness of `Step`), that time passes
where a rate is set (`Turn /\ Works`), and of the world that a descriptor which can
be read or written is found so, again and again (`Select /\ Works`), and that a
read then gives what is there, or the end, or the error that is there, and a write
is taken, not for ever interrupted (strong fairness of `ReadSome`, `ReadEnd`,
`ReadError`, `WriteSome`): a device does so, and a reader of a pipe that does not
go away.  It may go away, and the remote and the user need do nothing.

`PvCursor` assumes that each process goes on displaying whenever it can, over and
over (strong fairness, since the terminal's lock is given to others in between:
fcntl's F_SETLKW).  Nobody need leave, and SIGCONT need not come.

## The proofs

For all values of the constants, from the assumptions named in the modules
(`StripeSizeAssumption`, `LayoutAssumption`, `StoreAssumption`, `SliceAssumption`,
`SegmentAssumption`, `NamespaceAssumption`, `OwnAssumption`, `PoolAssumption`,
`FdAssumption`, `InterceptionAssumption`, `StreamAssumption`, `SessionAssumption`,
`InputsAssumption`, `OptionsAssumption`, `SizeAssumption`, `CursorAssumption`):

* `LayoutIsPartition` (`EachByteOnce`): the loop's invariant adds that every
  non-empty entry ends at or before the loop's position, so that a new piece
  overlaps none; `PieceFacts` and Euclidean division (`DivMod`) place it.
* `LoopIsLayout` (`IsLayout`): the entries with data of the loop's result are the
  closed form `Layout`, from which the store's model takes the goroutines of a call,
  and there are others exactly if not `OneSlice`.  The loop's pieces start
  with the transfer or with a stripe and end with a stripe, all but the last
  (`First`, `Cut`); what they have covered is therefore what `Layout` cuts at the same
  places (`After`).  So what is proved of transfers that fit the slice, which the theorems
  below are about (`CallWrite` and `CallRead` have `OneSlice` as a bound), is proved
  of the loop; beyond, `SetsAreSound` and `StoreIsFlat` are false of it.
* `TypeCorrect` and `SetsAreSound` (`TypeOK`, `RegisteredIsStored`): the
  invariant adds that what is still to run of each call stays inside its stripe
  and that only a trim names stripe -1 (`Fits`): otherwise a write could make a
  stripe longer than `StripeSize`, or register a negative one.  `LayoutFacts`,
  `LastStripeFacts`, `ResizeIsGood` show it of the calls' arithmetic.
* `SizeIsBracketed` (`SizeBracket`), if no client removes or shrinks: for a
  search under way, either an instance still to be asked or the greatest id
  found so far accounts for the size the file had when the call began, and what
  was found exists.  That is a bracket, from the size then to the size now, not a
  size the file had.
* `WritersUseTheStore`: every step of `DisjointWriters` is a step of `DataStore`, so
  that the three results above hold of its writers as well.
* `NoWriteIsLost` and `OwnWritesAreRead` (`NoLostWrite`, `ReadsOwnWrites`): however
  the segments lie to the stripes.  The invariant `WriteInv` follows each byte of a
  segment through a call: what a goroutine has still to write or to read stays in
  the segment of its process (`Within`); a byte that was written is in its stripe as
  it was written last or as the write under way has it (`Kept`), and a byte of a
  write under way is there or covered by a goroutine to come (`Arrives`);
  the place of the buffer of a byte that was read, and that no goroutine has still
  to read, holds it (`Filled`).  `LayoutCovers` says that the pieces of a transfer
  cover it, each byte at its place of the buffer, and `OnePlace` that a byte is in
  one stripe only, so that SETRANGE by another process, or its padding with
  zeros, changes none of them.
* `StripesAreFound` (`StoredIsFound`), for a process that has the file for itself,
  writes without a gap and does not crash (`Alone`; the run `DataStore_flat` takes
  the same): the stripes are 0..m, but for those that the call has still to write
  or to remove (`Whole`), none is empty (`NoneEmpty`), and a search finds m
  (`Sought`).  None empty is what makes the size tell the last stripe: without it
  Resize could trim a stripe that is not there.  With a gap, a second process or
  a crash the property is false; the hazards say so.
* `StoreIsFlat` (`IsFlatFile`), for such a process (`Lone`: `Alone`, and files are
  extended from whole stripes only, since otherwise `Resize` does not reach the size,
  as `DataStore_grow` shows): for every stripe size, placement and offset, and every
  length that fits the slice, the store implements `FlatFile`.  The invariant
  `FlatInv` gives each call the file it found (`before`) and the one it is to leave
  (`Aim`): each stripe is that of the one or, once its only goroutine has run, of the
  other (`Comes`), so the order in which goroutines run does not matter; a read's
  buffer has the file's bytes wherever no goroutine has still to read, and its count
  is that of the bytes filled in (`Got`).  What is left is the arithmetic of stripes:
  that the goroutines of `WriteBrings`, `RemoveBrings`, `ShrinkBrings` and
  `GrowBrings` are one for each stripe that is to change and make of it what it is to
  be, and that a file whose stripes these are is what `Contents` reads
  (`ContentsAre`), which needs that no stripe is out of the sets (`FoundInv`) or
  filled without being in one (`Unlisted`).
* `ListedExistsAlways`, `UnlistedIsUnfinishedAlways`, `RemembersOwnAlways`
  (`ListedExists`, `UnlistedIsUnfinished`, `RemembersOwn`) and `RemovesOwnAlways`,
  for any tree of paths and any number of processes with branches of their own
  and shared files in the mount point, crashes included.  The three properties
  are not inductive one by one: a removal relies on the cache to find what is below,
  and the cache on removals to take only what is its own.  The invariant adds for
  each process that what it remembers of its own exists and is what it takes it for
  (`Memo`), what each point of a call has found, and that nothing below what it is
  to remove is remembered (`LookedUp`), and what the stack of a removal holds
  (`Stack`): each directory on
  it is the parent of the one above, and an entry that is in neither the stack nor
  the list still to be looked at is gone.  The proof needs that a directory is not
  removed while a path anywhere below it is remembered, not an entry only: the
  guard `Unmet`, which was about entries, was too weak for paths of three and
  more components, which the run's tree of two does not have.
* `PoolTypeCorrect`, `TokensAreKept`, `ActiveIsBounded` (`TypeOK`,
  `TokensKept`, `ActiveCounts`): the
  invariant `Counts` adds that a goroutine past the channel implies it is made,
  and that whoever holds a connection has one.  Each step moves one goroutine
  between sets whose sizes the counts are (`CountMove`).
* `ConnectionsInOnePlace` (`OnePlace`): by the same steps.
* `IdleConnectionsAreClean` and `RepliesAreOwn` (`IdleIsClean`, `RepliesMatch`):
  the invariant `Clean` adds that a transaction is open only while its
  connection is in use, and that a working connection on its way to `put` has
  nothing to come.  That a user disturbs no other's connection is `OnePlace`.
* `RoutesAreRight`, `NoTwinIsLeft`, `NeverPanics` (`RoutesRight`, `TwinsKept`,
  `NoPanic`): the invariant says for each point of an open or a close what the
  three tables hold of its descriptor (`Held`), that no two threads are about
  one (`Distinct`), and that a descriptor nobody has is in no table (`FreeOK`).
  Without `Distinct` a step of one thread could undo what `Held` says of another.
* `LinesAlwaysFit`, `ShortReadsExplained`, `NothingEverLost` (`LineFits`,
  `ShortReadExplained`, `NothingLost`), for any number of streams, files, texts and
  sizes of buffers, with the exceptions the properties name.  None is inductive alone:
  what a stream has given at the end of a `fread` depends on where it was when the
  call began.  The invariant has a stream's own place (`Place`), which is not the
  offset while `fread` is at the end of the file; what has been given is the file up
  to that place (`Given`), but for the part of a line that `getdelim` still has; a
  `fread` knows the length of the file when it came up short (`FreadKnows`).  A step
  moves one stream only (`OneStream`); the others stay in order since their files only
  grow as long as they have read from them (`Safe`, `StreamStays`): that is what
  `Busy` keeps a program to, and a write that starts at the end keeps it (`PutFacts`).
* `LayersAlwaysRight` (`RightLayer`): the tables agree (`Tables`), and the mount that
  a managed descriptor is served by, or libc for any other, is where its file is,
  unless `freopen` has put another under it (`Layers`).  Every step is one of a few
  kinds (`NextKinds`): it looks, moves an offset, gives a descriptor out or takes it
  back, or all is gone.  That a path resolves to its name and is below the mount point
  that its name is below is the theorem's hypothesis `Resolved`; TLC evaluates it for
  the run's paths, and `PathsResolve` checks the first half for every path of up to
  four components.
* `TypeCorrect`, `SessionIsServed`, `FinalizeIsComplete` of `SlurmSession`
  (`TypeOK`, `SessionServes`, `FinalizeComplete`), if init is not run while a
  `redis.srun` is left: a session goes through phases (`Off`, `Starting`,
  `Serving`, `Stopping`, `Failed`), and in `Starting` and `Stopping` what the
  command has counted, with what is still in the list, is the number of
  instances the nodes have announced (`Up`, `Down`).  When the count is `Total`
  the set is all of `Instance` (`Counting`), so every node has got to the end.
* `OrderKept`, `LimitsKept`, `AllPassedOn` (`InOrder`, `WithinLimits`, `Complete`), for
  any files, any options, a buffer of any size and any rate set from outside.  The
  output and the buffer behind it are in order and the next cell read follows them
  (`Chained`); `splice` keeps that because it is used only when nothing is buffered,
  which `to_write`, taken before the read, still tells afterwards (`Asked`).  A turn
  moves no more than `allowed`, in bytes and therefore in ends of lines (`Allowed`),
  and the rate has paid for it (`Paid`), but for the turn after the last transfer,
  which counts its lines again.  `total`, with what the turn has still to add, is
  what went out, until a zero hides a line (`Counted`).  As long as nothing has gone
  wrong (`Clean`), output and buffer are all cells up to the current place (`Whole`);
  once the size to stop at is reached the output is a beginning of them and nothing
  is written any more (`Seen`), through as many files as are left.
* `OwnLines` (`OwnLine`): however many `pv` share a terminal, each that has started
  has a number of its own and a row of the terminal, as long as none has left. The
  invariant says that only the holder of the lock is between attaching and
  starting (`Phases`), so that the count it takes its number from is above the
  number of every other (`Numbers`, `Newcomer`), and that there is a row in the
  segment as soon as one has started (`Rows`).

Model-checked only: the refinements `IsTree` and `IsDescriptors`;
`PathsResolve`; and `WaitersGoOn`, `CommandsEnd`, `OrphansStop`, `Ends` and `Settles`.
Liveness under fairness, and ENABLED, are out of the prover's reach.  So is induction
over data: what `Paths` computes from a path (`PathsResolve`) and what the vectors of
`FdTable` add up to (`IsDescriptors`) are folds over sequences.

## Plan

Done: the store, its layout, the pool, the namespace, the descriptors, the
sessions, the interception with its paths and streams, `pv`'s transfer and cursor;
theorems for every safety invariant that the runs check, but `PathsResolve`, and
for the refinement of `FlatFile`.
Next, in this order:

1. the refinement of `Tree` for paths of one's own; `IsDescriptors`, given what a
   vector adds up to;
2. `HashRing`: `Add` and `Get` of the consistent hash, with collisions, against
   the definition "first replica at or after the key, cyclically".

## Not modelled

Contents of names, permissions and times (the code stores a mode and compares
nothing with it); the fields that stat and statfs fill, errno; the conversions of
replies in redigo, its options pdwfs does not set (IdleTimeout, TestOnBorrow,
contexts, WATCH, SUBSCRIBE); configuration; what libc does with a call that
`libc.c` passes on (`CallNext`); the format conversions of `fprintf`.  Of `pv`: the
display, the options and numbers, watching another process, the sender of `-R` and
what it sets besides the rate, `-0`, the lock file for systems that cannot lock a
terminal, terminals without shared memory, memory that runs out and a close that
fails.  Examples and images.  Redis itself is modelled as atomic commands that keep
what they are told: a Redis instance that dies takes its data along and the job
with it.
