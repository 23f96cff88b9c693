------------------------------- MODULE FdTable ------------------------------
(***************************************************************************)
(* The descriptors of a process: the C layer's fd_register, which decides  *)
(* whether a call is pdwfs's or libc's, with a temporary file as a "twin"  *)
(* in the kernel for each (src/c/pdwfs.c); the Go layer's fdFileMap, under *)
(* one lock (pdwfs.go); and the open files with their offsets              *)
(* (redisfs/file.go).  A call under the lock is one step, and so is one of *)
(* glib or libc.  Threads close what they have opened once, and while no   *)
(* other uses it.  Paths are of this process only and exist or not (see    *)
(* RedisFS); of data there are only sizes, without gaps (see DataStore).   *)
(***************************************************************************)
EXTENDS Integers, SequencesExt

CONSTANTS Thread, Fd, Path, NoFd,
          MaxSize, Vectors   \* bounds: sizes and offsets; the vectors of lengths
ASSUME FdAssumption == NoFd \notin Fd /\ Path \cap {"none", "libc"} = {}

VARIABLES
  kernel,      \* what each descriptor is to the kernel: "free", a "twin", or an "other" file
  register,    \* the keys of fd_register
  files,       \* fdFileMap: the open files of some descriptors
  size,        \* of each path; -1 if there is no such file
  at, fd,      \* where in a call each thread is, and with which descriptor
  app,         \* what the program has each descriptor for: "none", "libc" or a path
  result       \* what each thread's last call of the Go layer returned
tables == <<kernel, register, files>>
thread == <<at, fd>>
vars == <<kernel, register, files, size, at, fd, app, result>>

Init == /\ kernel = [f \in Fd |-> "free"] /\ register = {} /\ files = <<>>
        /\ size = [p \in Path |-> -1]
        /\ at = [t \in Thread |-> "idle"] /\ fd = [t \in Thread |-> NoFd]
        /\ app = [f \in Fd |-> "none"] /\ result = [t \in Thread |-> 0]

Go(t, from, to) == at[t] = from /\ at' = [at EXCEPT ![t] = to]
Returns(t, n) == result' = [result EXCEPT ![t] = n]
Handle(p, off, can) == [path |-> p, off |-> off, can |-> can]
-----------------------------------------------------------------------------
(* open, fopen *)

\* tmpfile() in get_new_stream
OpenTwin(t, f) == /\ Go(t, "idle", "twin") /\ kernel[f] = "free"
                  /\ kernel' = [kernel EXCEPT ![f] = "twin"]
                  /\ fd' = [fd EXCEPT ![t] = f]
                  /\ UNCHANGED <<register, files, size, app, result>>

Register(t) == /\ Go(t, "twin", "registered")
               /\ register' = register \cup {fd[t]}
               /\ UNCHANGED <<kernel, files, size, fd, app, result>>

Denied(p, flags) == IF size[p] < 0 THEN "CREATE" \notin flags ELSE {"CREATE", "EXCL"} \subseteq flags

\* a bug: the twin is not removed
GoOpenFails_keep(t, p, flags) ==
  /\ Go(t, "registered", "idle") /\ Denied(p, flags) /\ Returns(t, -1)
  /\ fd' = [fd EXCEPT ![t] = NoFd]
  /\ UNCHANGED <<tables, size, app>>

GoOpenFails(t, p, flags) ==
  /\ Go(t, "registered", "removing") /\ Denied(p, flags) /\ Returns(t, -1)
  /\ UNCHANGED <<tables, size, fd, app>>

\* OpenFile and getFile: a file created or truncated is empty, O_APPEND is a seek
\* to the end; then registerFile, which panics if the descriptor is in use.
GoOpen(t, p, flags, can) ==
  LET end == IF size[p] < 0 \/ "TRUNC" \in flags THEN 0 ELSE size[p]
      f == fd[t]
  IN  /\ Go(t, "registered", "idle") /\ ~Denied(p, flags) /\ f \notin DOMAIN files
      /\ fd' = [fd EXCEPT ![t] = NoFd] /\ Returns(t, 0)
      /\ size' = [size EXCEPT ![p] = end]
      /\ files' = [x \in DOMAIN files \cup {f} |->
           IF x = f THEN Handle(p, IF "APPEND" \in flags THEN end ELSE 0, can) ELSE files[x]]
      /\ app' = [app EXCEPT ![f] = p]
      /\ UNCHANGED <<kernel, register>>
-----------------------------------------------------------------------------
(* close, fclose; getFileFromFd panics if there is no file *)

\* a bug: the file stays in fdFileMap
GoClose_keep(t, f) == /\ Go(t, "idle", "removing") /\ app[f] # "none" /\ f \in register
                      /\ f \in DOMAIN files
                      /\ fd' = [fd EXCEPT ![t] = f] /\ app' = [app EXCEPT ![f] = "none"]
                      /\ Returns(t, 0) /\ UNCHANGED <<tables, size>>
\* a bug: the twin is closed here and again in remove_fd
GoClose_twice(t, f) ==
  /\ Go(t, "idle", "removing") /\ app[f] # "none" /\ f \in register /\ f \in DOMAIN files
  /\ files' = Restrict(files, DOMAIN files \ {f}) /\ kernel' = [kernel EXCEPT ![f] = "free"]
  /\ fd' = [fd EXCEPT ![t] = f] /\ app' = [app EXCEPT ![f] = "none"]
  /\ Returns(t, 0) /\ UNCHANGED <<register, size>>

GoClose(t, f) ==
  /\ Go(t, "idle", "removing") /\ app[f] # "none" /\ f \in register /\ f \in DOMAIN files
  /\ files' = Restrict(files, DOMAIN files \ {f})
  /\ fd' = [fd EXCEPT ![t] = f] /\ app' = [app EXCEPT ![f] = "none"]
  /\ Returns(t, 0) /\ UNCHANGED <<kernel, register, size>>

\* remove_fd: glib takes the key out of the table, then calls fd_key_removed, whose
\* close finds the descriptor not managed.
Unregister(t) == /\ Go(t, "removing", "closing") /\ register' = register \ {fd[t]}
                 /\ UNCHANGED <<kernel, files, size, fd, app, result>>
CloseTwin(t) == /\ Go(t, "closing", "idle") /\ kernel' = [kernel EXCEPT ![fd[t]] = "free"]
                /\ fd' = [fd EXCEPT ![t] = NoFd]
                /\ UNCHANGED <<register, files, size, app, result>>

\* Files that are not under a mount point, and descriptors that are not managed.
LibcOpen(t, f) == /\ at[t] = "idle" /\ kernel[f] = "free"
                  /\ kernel' = [kernel EXCEPT ![f] = "other"]
                  /\ app' = [app EXCEPT ![f] = "libc"]
                  /\ UNCHANGED <<register, files, size, thread, result>>
LibcClose(t, f) == /\ at[t] = "idle" /\ app[f] # "none" /\ f \notin register
                   /\ kernel' = [kernel EXCEPT ![f] = "free"]
                   /\ app' = [app EXCEPT ![f] = "none"]
                   /\ UNCHANGED <<register, files, size, thread, result>>
-----------------------------------------------------------------------------
(* Calls on an open file. *)

Calls(t, f) == /\ at[t] = "idle" /\ app[f] # "none" /\ f \in register /\ f \in DOMAIN files
               /\ UNCHANGED <<kernel, register, thread, app>>

\* MemFile.readAt: n bytes, or what there is of them, and io.EOF
ReadAt(n, off, end) == IF off + n <= end THEN n ELSE IF off < end THEN end - off ELSE 0

\* a bug: each slice is read at the same offset
ReadVec_same(v, off, end) ==
  FoldLeft(LAMBDA r, n : LET m == ReadAt(n, off, end)
                         IN  IF r.eof THEN r ELSE [n |-> r.n + m, eof |-> m < n],
           [n |-> 0, eof |-> FALSE], v).n

\* MemFile.readVecAt: until a slice is not filled
ReadVec(v, off, end) ==
  FoldLeft(LAMBDA r, n : LET m == ReadAt(n, off + r.n, end)
                         IN  IF r.eof THEN r ELSE [n |-> r.n + m, eof |-> m < n],
           [n |-> 0, eof |-> FALSE], v).n

\* MemFile.writeVecAt: the count, and the size after it
WriteVec(v, off, end) ==
  FoldLeft(LAMBDA r, n : [n |-> r.n + n,
                          end |-> IF n > 0 /\ off + r.n + n > r.end THEN off + r.n + n ELSE r.end],
           [n |-> 0, end |-> end], v)

MoveTo(f, off) == files' = [files EXCEPT ![f] = Handle(files[f].path, off, files[f].can)]

\* roFile and woFile disable Write and Read, and nothing else.
Refused(t, f) == /\ Calls(t, f) /\ files[f].can # {"r", "w"}
                 /\ Returns(t, -1) /\ UNCHANGED <<files, size>>
Read(t, f, v) ==
  LET h == files[f]
      n == ReadVec(v, h.off, size[h.path])
  IN  /\ Calls(t, f) /\ (Len(v) = 1 => "r" \in h.can)
      /\ Returns(t, n) /\ MoveTo(f, h.off + n) /\ UNCHANGED size
Pread(t, f, v, off) ==
  /\ Calls(t, f) /\ Returns(t, ReadVec(v, off, size[files[f].path])) /\ UNCHANGED <<files, size>>

Written(t, f, v, off) ==
  LET end == size[files[f].path]
      w == WriteVec(v, off, end)
  IN  /\ off <= end /\ off + w.n <= MaxSize          \* bounds: no gap, MaxSize
      /\ Returns(t, w.n) /\ size' = [size EXCEPT ![files[f].path] = w.end]
Write(t, f, v) ==
  LET h == files[f]
  IN  /\ Calls(t, f) /\ (Len(v) = 1 => "w" \in h.can)
      /\ Written(t, f, v, h.off) /\ MoveTo(f, h.off + WriteVec(v, h.off, size[h.path]).n)
Pwrite(t, f, v, off) == Calls(t, f) /\ Written(t, f, v, off) /\ UNCHANGED files

Seek(t, f, off, whence) ==
  LET abs == CASE whence = "SET" -> off
               [] whence = "CUR" -> files[f].off + off
               [] whence = "END" -> size[files[f].path] + off
  IN  /\ Calls(t, f) /\ abs \in 0..MaxSize           \* bound; a negative one panics
      /\ MoveTo(f, abs) /\ Returns(t, abs) /\ UNCHANGED size
Truncate(t, f, n) ==
  /\ Calls(t, f) /\ n <= size[files[f].path]         \* bound: growth is Resize's
  /\ size' = [size EXCEPT ![files[f].path] = n] /\ Returns(t, 0) /\ UNCHANGED files
-----------------------------------------------------------------------------
Flags == {{}, {"CREATE"}, {"CREATE", "EXCL"}, {"CREATE", "TRUNC"}, {"APPEND"}}
Opening(t) == \/ \E f \in Fd : OpenTwin(t, f) \/ LibcOpen(t, f)
              \/ Register(t)
              \/ \E p \in Path, flags \in Flags :
                   \/ GoOpenFails(t, p, flags)
                   \/ \E can \in {{"r"}, {"w"}, {"r", "w"}} : GoOpen(t, p, flags, can)
Closing(t) == Unregister(t) \/ CloseTwin(t) \/ \E f \in Fd : GoClose(t, f) \/ LibcClose(t, f)
Using(t, f) ==
  \/ Refused(t, f)
  \/ \E v \in Vectors : \/ Read(t, f, v) \/ Write(t, f, v)
                        \/ \E off \in 0..MaxSize : Pread(t, f, v, off) \/ Pwrite(t, f, v, off)
  \/ \E off \in (-MaxSize)..MaxSize, whence \in {"SET", "CUR", "END"} : Seek(t, f, off, whence)
  \/ \E n \in 0..MaxSize : Truncate(t, f, n)
Next == \E t \in Thread : Opening(t) \/ Closing(t) \/ \E f \in Fd : Using(t, f)
Spec == Init /\ [][Next]_vars
-----------------------------------------------------------------------------
InFlight == {"twin", "registered", "removing", "closing"}

\* A call reaches what the program opened: for a file of pdwfs all three tables
\* know the descriptor and the file is the one that was opened, though the
\* kernel gives descriptors out again at once; any other descriptor is libc's.
RoutesRight == \A f \in Fd :
  /\ app[f] \in Path => /\ f \in register /\ kernel[f] = "twin"
                        /\ f \in DOMAIN files /\ files[f].path = app[f]
  /\ app[f] = "libc" => f \notin register /\ kernel[f] = "other" /\ f \notin DOMAIN files

\* No twin and no entry of a table is left behind by a close or a failed open.
TwinsKept == \A f \in Fd :
  kernel[f] = "twin" \/ f \in register \/ f \in DOMAIN files
    => app[f] \in Path \/ \E t \in Thread : at[t] # "idle" /\ fd[t] = f

\* The Go layer never panics for a descriptor: registerFile does not find the one
\* it is to enter (errFdInUse), getFileFromFd finds the one of a call (errInvalidFd).
NoPanic == /\ \A t \in Thread : at[t] = "registered" => fd[t] \notin DOMAIN files
           /\ \A f \in Fd : app[f] # "none" /\ f \in register => f \in DOMAIN files
=============================================================================
