---------------------------- MODULE Interception ----------------------------
(***************************************************************************)
(* Every call that libpdwfs puts in front of libc's (src/c/pdwfs.c), those *)
(* on streams excepted (see Streams): each asks whether its path or its    *)
(* descriptor is managed, and is libc's, the Go layer's, or ends the       *)
(* process as not implemented.  The steps of open and close with other     *)
(* threads in between are in FdTable; here a call is one step.             *)
(*                                                                         *)
(* Before the library's constructor has run, others of the process already *)
(* make calls; after its destructor only calls on the standard descriptors *)
(* still find their way, since its tables have been freed.                 *)
(***************************************************************************)
EXTENDS Paths

CONSTANTS Fd, Std,        \* the descriptors, and those of IS_STD_FD
          MaxLen          \* bound: the length of a file
ASSUME InterceptionAssumption == Std \subseteq Fd /\ MaxLen \in Nat

VARIABLES
  phase,       \* "loading", "up" (pdwfs_initialized), "over" or "gone"
  register,    \* the keys of fd_register
  app,         \* what the program has each descriptor for: a file, Libc, Taken or NoFile
  files,       \* fdFileMap: of some descriptors, the file, its offset, what it can do
  data,        \* the bytes of each file of the Go layer
  astray       \* what the last call asked for, if another layer served it than the file's
fds == <<register, app, files>>
wraps == <<phase, fds, data, astray>>

NoFile == <<>>
Handle(n, off, can) == [name |-> n, off |-> off, can |-> can]
Libc == <<"libc">>     \* what serves a call, beside the mount points; each of its files
\* Two names that are no paths: what a call given a descriptor to start from (openat
\* and the like) asks for below a mount point; and the file of libc's that freopen
\* has put under the descriptor of a stream of pdwfs's.
At    == <<"libc", "at">>
Taken == <<"libc", "taken">>
\* Under a mount point a name is in its file system, any other is libc's.
Home(n) == IF \E m \in Mounts : IsPrefix(m, n) THEN CHOOSE m \in Mounts : IsPrefix(m, n) ELSE Libc
Served(by, n) == astray' = IF by = Home(n) THEN {} ELSE {n}

InitWraps == /\ phase = "loading" /\ register = {} /\ files = <<>> /\ data = <<>>
             /\ app = [f \in Fd |-> IF f \in Std THEN Libc ELSE NoFile]
             /\ astray = {}
-----------------------------------------------------------------------------
(* The triage. *)

\* PATH_NOT_MANAGED, FD_NOT_MANAGED
Managed(p) == phase = "up" /\ ContainsPath(p)
ManagedFd(f) == phase # "loading" /\ f \notin Std /\ f \in register
Running(f) == phase \in {"loading", "up"} \/ (phase = "over" /\ f \in Std)

\* libc_*: the next definition of the symbol, which changes nothing of pdwfs
CallNext(n) == Served(Libc, n) /\ UNCHANGED <<phase, fds, data>>
LibcPath(p) == /\ phase \in {"loading", "up"} /\ ~Managed(p) /\ CallNext(Normal(p))
               /\ (phase = "loading" => GoMounts(p) = {})    \* as the library assumes
LibcFd(f) == Running(f) /\ app[f] # NoFile /\ ~ManagedFd(f) /\ CallNext(app[f])

\* A call of the Go layer that only looks, in the mount it takes for the path.
GoPath(p) == /\ Managed(p) /\ \E m \in GoMounts(p) : Served(m, Normal(p))
             /\ UNCHANGED <<phase, fds, data>>
\* The Go layer knows the mount of an open file from getting it, and refuses a
\* descriptor that it has no file for.
MountOf(f) == IF f \in DOMAIN files THEN CHOOSE m \in Mounts : Begins(m, files[f].name) ELSE NoFile
GoFd(f) == /\ phase = "up" /\ ManagedFd(f) /\ Served(MountOf(f), app[f])
           /\ UNCHANGED <<phase, fds, data>>
OnFile(f) == /\ phase = "up" /\ ManagedFd(f) /\ f \in DOMAIN files /\ Served(MountOf(f), app[f])

\* NOT_IMPLEMENTED
Exits == /\ phase' = "gone" /\ register' = {} /\ app' = [f \in Fd |-> NoFile]
         /\ files' = <<>> /\ data' = <<>> /\ UNCHANGED astray
ExitsPath(p) == Managed(p) /\ Exits
ExitsFd(f) == phase = "up" /\ app[f] # NoFile /\ ManagedFd(f) /\ Exits
-----------------------------------------------------------------------------
(* The library's constructor and destructor. *)

InitPdwfs == phase = "loading" /\ phase' = "up" /\ UNCHANGED <<fds, data, astray>>
\* Freeing fd_register closes the twins; pdwfs_initialized stays 1.  The Go layer
\* stays too, but nothing finds its files any more.
FinalizePdwfs == /\ phase = "up" /\ phase' = "over"
                 /\ register' = {} /\ app' = [f \in Fd |-> IF f \in register THEN NoFile ELSE app[f]]
                 /\ files' = <<>> /\ data' = <<>> /\ UNCHANGED astray
-----------------------------------------------------------------------------
(* Calls on paths *)

Access(p) == LibcPath(p) \/ GoPath(p)
Stat(p) == LibcPath(p) \/ GoPath(p)
Statfs(p) == LibcPath(p) \/ GoPath(p)
Statvfs(p) == LibcPath(p) \/ GoPath(p)
MakeDir(p) == LibcPath(p) \/ GoPath(p)       \* what they do there is in RedisFS
RemoveDir(p) == LibcPath(p) \/ GoPath(p)
\* EOPNOTSUPP, without a call of the Go layer
Getxattr(p) == LibcPath(p) \/ GoPath(p)
Creat(p) == LibcPath(p) \/ ExitsPath(p)
TruncatePath(p) == LibcPath(p) \/ ExitsPath(p)
Opendir(p) == LibcPath(p) \/ ExitsPath(p)

Unlink(p) == \/ LibcPath(p)
             \/ /\ Managed(p) /\ \A f \in DOMAIN files : files[f].name # Normal(p)   \* bound: not open
                /\ \E m \in GoMounts(p) : Served(m, Normal(p))
                /\ data' = Restrict(data, DOMAIN data \ {Normal(p)})
                /\ UNCHANGED <<phase, fds>>

\* libc's only if neither path is managed
Rename(old, new) == \/ LibcPath(old) /\ ~Managed(new)
                    \/ phase = "up" /\ (ExitsPath(old) \/ ExitsPath(new))

\* The calls that take a descriptor to start from pass to libc, whatever the paths:
\* below a mount point they go astray.
PassThrough(ps) ==
  /\ phase \in {"loading", "up"} /\ (phase = "loading" => \A p \in ps : GoMounts(p) = {})
  /\ astray' = IF \A p \in ps : Home(Normal(p)) = Libc THEN {} ELSE {At}
LibcAt(ps) == PassThrough(ps) /\ UNCHANGED <<phase, fds, data>>
FaccessAt(p) == LibcAt({p})
FxstatAt(p) == LibcAt({p})
UnlinkAt(p) == LibcAt({p})
MkdirAt(p) == LibcAt({p})
RenameAt(old, new) == LibcAt({old, new})
-----------------------------------------------------------------------------
(* Calls that give descriptors out and take them back *)

\* tmpfile takes any free descriptor, and the Go layer's file is put under it.  A
\* file is not emptied while a stream reads it: busy.
Opened(f, p, can, trunc, busy) ==
  LET n == Normal(p)
  IN  /\ app[f] = NoFile /\ f \notin DOMAIN files /\ Managed(p)
      /\ \A g \in DOMAIN files : files[g].can \cap can = {}        \* bound: one for each direction
      /\ (n \in DOMAIN data /\ trunc => n \notin busy)
      /\ register' = register \cup {f} /\ app' = [app EXCEPT ![f] = n]
      /\ files' = [g \in DOMAIN files \cup {f} |-> IF g = f THEN Handle(n, 0, can) ELSE files[g]]
      /\ data' = [o \in DOMAIN data \cup {n} |->
                    IF o = n /\ (trunc \/ n \notin DOMAIN data) THEN <<>> ELSE data[o]]
      /\ \E m \in GoMounts(p) : Served(m, n)
      /\ UNCHANGED phase
\* The twin is removed again.
OpenFails(f, p) == /\ app[f] = NoFile /\ Managed(p) /\ Normal(p) \notin DOMAIN data
                   /\ \E m \in GoMounts(p) : Served(m, Normal(p))
                   /\ UNCHANGED <<phase, fds, data>>
LibcOpen(f, p) == /\ phase \in {"loading", "up"} /\ ~Managed(p) /\ app[f] = NoFile
                  /\ (phase = "loading" => GoMounts(p) = {})
                  /\ app' = [app EXCEPT ![f] = Libc] /\ Served(Libc, Normal(p))
                  /\ UNCHANGED <<phase, register, files, data>>
Open(f, p, busy) == \/ LibcOpen(f, p) \/ OpenFails(f, p)
                    \/ \E trunc \in BOOLEAN : Opened(f, p, {"r", "w"}, trunc, busy)
\* The descriptor is of a file of libc's, even below a mount point.
Openat(f, p) == /\ app[f] = NoFile /\ app' = [app EXCEPT ![f] = Libc] /\ PassThrough({p})
                /\ UNCHANGED <<phase, register, files, data>>

\* a bug: the descriptor stays in fd_register
GoClose_keep(f) == /\ OnFile(f) /\ app' = [app EXCEPT ![f] = NoFile]
                   /\ files' = Restrict(files, DOMAIN files \ {f})
                   /\ UNCHANGED <<phase, register, data>>
GoClose(f) == /\ OnFile(f) /\ app' = [app EXCEPT ![f] = NoFile]
              /\ files' = Restrict(files, DOMAIN files \ {f}) /\ register' = register \ {f}
              /\ UNCHANGED <<phase, data>>
LibcClose(f) == /\ phase \in {"loading", "up"} /\ app[f] # NoFile /\ ~ManagedFd(f)
                /\ f \notin Std                             \* the program keeps those open
                /\ app' = [app EXCEPT ![f] = NoFile] /\ Served(Libc, app[f])
                /\ UNCHANGED <<phase, register, files, data>>
Close(f) == GoClose(f) \/ LibcClose(f)

\* libc's only if neither descriptor is managed; the new one is then the old one's file
Dup2(old, new) ==
  \/ /\ phase \in {"loading", "up"} /\ app[old] # NoFile /\ new \notin Std
     /\ ~ManagedFd(old) /\ ~ManagedFd(new)
     /\ app' = [app EXCEPT ![new] = app[old]] /\ Served(Libc, app[old])
     /\ UNCHANGED <<phase, register, files, data>>
  \/ ExitsFd(old) \/ ExitsFd(new)
-----------------------------------------------------------------------------
(* Calls on descriptors *)

Bytes(f) == IF f \in DOMAIN files /\ files[f].name \in DOMAIN data THEN data[files[f].name] ELSE <<>>
\* Of n bytes at an offset, those there are.
Got(f, off, n) == LET end == Len(Bytes(f))
                  IN  SubSeq(Bytes(f), off + 1, IF off + n <= end THEN off + n ELSE end)
Before(f) == Got(f, 0, files[f].off)
Put(s, off, b) == SubSeq(s, 1, off) \o b \o SubSeq(s, off + Len(b) + 1, Len(s))
MoveTo(f, off) == files' = [files EXCEPT ![f].off = off]

Fadvise(f) == LibcFd(f) \/ GoFd(f)
Fstat(f) == LibcFd(f) \/ GoFd(f)
Sync(f) == LibcFd(f) \/ ExitsFd(f)
Ioctl(f) == LibcFd(f) \/ ExitsFd(f)
Fstatfs(f) == LibcFd(f) \/ ExitsFd(f)
Fstatvfs(f) == LibcFd(f) \/ ExitsFd(f)

\* What the Go layer does for them; a handle opened for one direction refuses the
\* other.
GoRead(f, n) == /\ OnFile(f) /\ "r" \in files[f].can
                /\ MoveTo(f, files[f].off + Len(Got(f, files[f].off, n)))
                /\ UNCHANGED <<phase, register, app, data>>
GoWrite(f, off, b, busy) ==
  /\ OnFile(f) /\ off <= Len(Bytes(f)) /\ off + Len(b) <= MaxLen       \* bounds: no gap, MaxLen
  /\ (off < Len(Bytes(f)) => files[f].name \notin busy)
  /\ data' = [data EXCEPT ![files[f].name] = Put(@, off, b)]
  /\ UNCHANGED <<phase, register, app>>
GoRefuses(f, way) == OnFile(f) /\ UNCHANGED <<phase, fds, data>> /\ way \notin files[f].can

Lseek(f, to) == \/ LibcFd(f)
                \/ OnFile(f) /\ to <= Len(Bytes(f)) /\ MoveTo(f, to) /\ UNCHANGED <<phase, register, app, data>>
Read(f, n) == LibcFd(f) \/ GoRefuses(f, "r") \/ GoRead(f, n)
Write(f, b, busy) ==
  \/ LibcFd(f) \/ GoRefuses(f, "w")
  \/ /\ f \in DOMAIN files /\ "w" \in files[f].can /\ GoWrite(f, files[f].off, b, busy)
     /\ MoveTo(f, files[f].off + Len(b))
Pread(f) == LibcFd(f) \/ GoFd(f)              \* reads, and leaves the offset
Pwrite(f, off, b, busy) == LibcFd(f) \/ (GoWrite(f, off, b, busy) /\ UNCHANGED files)
Vectors(f, b, busy) ==                    \* readv and writev, whatever the handle can do
  \/ LibcFd(f)
  \/ OnFile(f) /\ MoveTo(f, files[f].off + Len(Got(f, files[f].off, Len(b)))) /\ UNCHANGED <<phase, register, app, data>>
  \/ f \in DOMAIN files /\ GoWrite(f, files[f].off, b, busy) /\ MoveTo(f, files[f].off + Len(b))
Ftruncate(f, busy) ==
  \/ LibcFd(f)
  \/ /\ OnFile(f) /\ files[f].name \notin busy
     /\ \E n \in 0..Len(Bytes(f)) : data' = [data EXCEPT ![files[f].name] = SubSeq(@, 1, n)]
     /\ UNCHANGED <<phase, fds>>
=============================================================================
