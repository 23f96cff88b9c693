------------------------------- MODULE RedisFS -------------------------------
(***************************************************************************)
(* The namespace of a mount point (src/go/redisfs/fs.go, inodes.go), which *)
(* the processes of a job share through Redis: for every path a key        *)
(* "{path}:mode" and, for a directory, a set "{path}:children".  A call    *)
(* is a sequence of Redis commands, each of them atomic; a process makes   *)
(* one call at a time (PdwFS.lock) and keeps an Inode of every path it has *)
(* met.  The contents of a file are module DataStore's: data only says     *)
(* which paths have some, and a call of the store is one step.             *)
(***************************************************************************)
EXTENDS Integers, Sequences, FiniteSets

CONSTANTS Proc,
          Path, Root, Parent,   \* a mount point and the paths below it
          Dot,                  \* "", which keeps the set of a directory from being empty
          Own, Shared,          \* the paths each process uses, and those all use
          Ops                   \* {"crash"}: what else processes may do
\* All that is below a path, however deep.
Under(x) == {y \in Path : \A S \in SUBSET Path :
  (\A z \in Path \ {Root} : Parent[z] \in S \cup {x} => z \in S) => y \in S}
ASSUME NamespaceAssumption ==
  /\ Root \in Path /\ Dot \notin Path
  /\ Parent \in [Path \ {Root} -> Path] /\ \A x \in Path \ {Root} : x \notin Under(x)
  /\ Own \in [Proc -> SUBSET (Path \ {Root})] /\ Shared \subseteq Path \ {Root}
\* A process's own paths are branches that start at the mount point, of which no
\* other process uses any part; the files that they share are entries of the mount
\* point.
ASSUME OwnAssumption ==
  /\ \A p \in Proc : Own[p] \cap Shared = {} /\ \A x \in Own[p] : Parent[x] \in Own[p] \cup {Root}
  /\ \A p, q \in Proc : p # q => Own[p] \cap Own[q] = {}
  /\ \A x \in Shared : Parent[x] = Root

VARIABLES
  modes,      \* the paths whose key ":mode" exists
  children,   \* the sets ":children", which Redis has no key for when empty
  data,       \* the paths the store has stripes of
  up,         \* the processes that run
  inodes,     \* fs.inodes of each, with Inode.isDir: "new" is nil
  call,       \* the call each is in
  handle,     \* the files each has opened
  out,        \* history: the last call that returned
  before      \* history: what a process's own paths were when its call began
redis == <<modes, children, data>>
vars  == <<modes, children, data, up, inodes, call, handle, out, before>>

Idle == [op |-> "none", path |-> Root, flags |-> {}, at |-> "idle", res |-> "ok", todo |-> <<>>]
None == [op |-> "none", path |-> Root, flags |-> {}, res |-> "ok"]
NoInode == [x \in Path |-> "none"]

\* What a path is for a process that meets it first.
Kind(x) == IF x \notin modes THEN "none" ELSE IF children[x] # {} THEN "dir"
           ELSE IF x \in data THEN "full" ELSE "empty"

Init == /\ modes = {} /\ children = [x \in Path |-> {}] /\ data = {}
        /\ up = {} /\ inodes = [p \in Proc |-> NoInode]
        /\ call = [p \in Proc |-> Idle] /\ handle = [p \in Proc |-> {}]
        /\ out = None /\ before = [p \in Proc |-> [x \in Own[p] |-> "none"]]

\* NewRedisFS, when the library is loaded
Start(p) == /\ p \notin up /\ call[p] = Idle /\ up' = up \cup {p}
            /\ modes' = modes \cup {Root}
            /\ children' = [children EXCEPT ![Root] = @ \cup {Dot}]
            /\ inodes' = [inodes EXCEPT ![p] = [NoInode EXCEPT ![Root] = "new"]]
            /\ UNCHANGED <<data, call, handle, out, before>>

\* A process ends between two calls, and its Inodes with it ...
Exit(p) == /\ p \in up /\ call[p] = Idle /\ up' = up \ {p}
           /\ inodes' = [inodes EXCEPT ![p] = NoInode] /\ handle' = [handle EXCEPT ![p] = {}]
           /\ UNCHANGED <<redis, call, out, before>>

\* ... or in the middle of one, which stays as it is.
Crash(p) == /\ "crash" \in Ops /\ p \in up /\ call[p] # Idle /\ up' = up \ {p}
            /\ inodes' = [inodes EXCEPT ![p] = NoInode] /\ handle' = [handle EXCEPT ![p] = {}]
            /\ UNCHANGED <<redis, call, out, before>>

-----------------------------------------------------------------------------
\* of the flags of open, those the namespace looks at; O_EXCL is for O_CREATE only
Flags == {{}, {"CREATE"}, {"CREATE", "EXCL"}, {"TRUNC"}, {"CREATE", "TRUNC"}}

Begin(p, op, x, flags) ==
  /\ p \in up /\ call[p] = Idle
  /\ call' = [call EXCEPT ![p] = [Idle EXCEPT !.op = op, !.path = x, !.flags = flags,
                                              !.at = "parent"]]
  /\ before' = [before EXCEPT ![p] = [y \in Own[p] |-> Kind(y)]]
  /\ out' = None
  /\ UNCHANGED <<redis, up, inodes, handle>>

\* Programs make and remove directories of their own, do not remove a file they
\* have open, nor a directory below which they have an Inode: it would stay in
\* fs.inodes.
Unmet(p, x) == \A y \in Under(x) : inodes[p][y] = "none"
CallMkdir(p, x)  == x \in Own[p] /\ Begin(p, "mkdir", x, {})
CallRmdir(p, x)  == x \in Own[p] /\ Begin(p, "rmdir", x, {})
CallUnlink(p, x) == /\ x \in Own[p] \ handle[p]
                    /\ Unmet(p, x)
                    /\ Begin(p, "unlink", x, {})
CallStat(p, x)   == x \in Own[p] /\ Begin(p, "stat", x, {})
CallOpen(p, x, flags) ==
  /\ x \in Own[p] \/ (x \in Shared /\ flags \subseteq {"CREATE"})
  /\ Begin(p, "open", x, flags)

\* WriteAt on a file that is open: one call of the store
Write(p, x) == /\ p \in up /\ call[p] = Idle /\ x \in handle[p]
               /\ data' = data \cup {x}
               /\ out' = [op |-> "write", path |-> x, flags |-> {}, res |-> "ok"]
               /\ UNCHANGED <<modes, children, up, inodes, call, handle, before>>
Close(p, x) == /\ p \in up /\ call[p] = Idle /\ x \in handle[p]
               /\ handle' = [handle EXCEPT ![p] = @ \ {x}]
               /\ UNCHANGED <<redis, up, inodes, call, out, before>>

-----------------------------------------------------------------------------
At(p, at) == /\ p \in up /\ call[p].at = at
             /\ UNCHANGED <<up, handle, out, before>>
Goto(p, at)   == call' = [call EXCEPT ![p].at = at]
Answer(p, res) == call' = [call EXCEPT ![p].at = "return", ![p].res = res]

\* getInode: the Inode in fs.inodes, whatever became of the path, or EXISTS
Meets(p, x) == inodes[p][x] # "none" \/ x \in modes
Keep(p, x, k) == inodes' = [inodes EXCEPT ![p][x] = k]
GetInode(p, x) == IF inodes[p][x] = "none" /\ x \in modes THEN Keep(p, x, "new")
                                                          ELSE UNCHANGED inodes
\* Inode.IsDir: asked once of Redis
IsDir(p, x) == IF inodes[p][x] = "new" THEN children[x] # {} ELSE inodes[p][x] = "dir"
KnowIsDir(p, x) == Keep(p, x, IF IsDir(p, x) THEN "dir" ELSE "file")

\* fileInfo: a parent known to be a directory takes no command
FindParent(p) ==
  LET d == Parent[call[p].path]
  IN  /\ At(p, "parent") /\ UNCHANGED redis /\ GetInode(p, d)
      /\ CASE ~Meets(p, d) \/ inodes[p][d] = "file" -> Answer(p, "ErrParentDirNotExist")
           [] inodes[p][d] = "dir" -> Goto(p, "node")
           [] OTHER -> Goto(p, "parentdir")
CheckParent(p) ==
  LET d == Parent[call[p].path]
  IN  /\ At(p, "parentdir") /\ UNCHANGED redis /\ KnowIsDir(p, d)
      /\ IF IsDir(p, d) THEN Goto(p, "node") ELSE Answer(p, "ErrParentDirNotExist")
Missing(p) ==
  LET c == call[p]
  IN  CASE c.op = "mkdir" \/ (c.op = "open" /\ "CREATE" \in c.flags) -> Goto(p, "create")
        [] c.op = "rmdir" -> Answer(p, "ErrNotDirectory")
        [] OTHER -> Answer(p, "ErrNotExist")
Found(p) ==
  LET c == call[p]
  IN  CASE c.op = "mkdir" \/ (c.op = "open" /\ {"CREATE", "EXCL"} \subseteq c.flags) ->
             Answer(p, "ErrExist")
        [] c.op = "unlink" -> Goto(p, "unlink")
        [] OTHER -> Goto(p, "isdir")
FindNode(p) == /\ At(p, "node") /\ UNCHANGED redis /\ GetInode(p, call[p].path)
               /\ IF Meets(p, call[p].path) THEN Found(p) ELSE Missing(p)

\* bugs: the entry is made before the inode; the mode key is set first, alone
CreateMeta_linkFirst(p) ==
  LET x == call[p].path
  IN  /\ At(p, "create") /\ Goto(p, "link")
      /\ children' = [children EXCEPT ![Parent[x]] = @ \cup {x}]
      /\ UNCHANGED <<modes, data, inodes>>
CreateMeta_noDot(p) ==
  /\ At(p, "create") /\ Goto(p, "link")
  /\ modes' = modes \cup {call[p].path}
  /\ UNCHANGED <<children, data, inodes>>

\* createInode: MULTI; SADD children ""; SETNX mode; EXEC, then the entry
CreateMeta(p) ==
  LET x == call[p].path
  IN  /\ At(p, "create") /\ Goto(p, "link")
      /\ modes' = modes \cup {x}
      /\ children' = IF call[p].op = "mkdir" THEN [children EXCEPT ![x] = @ \cup {Dot}]
                                             ELSE children
      /\ UNCHANGED <<data, inodes>>
SetChild(p) ==
  LET x == call[p].path
  IN  /\ At(p, "link")
      /\ children' = [children EXCEPT ![Parent[x]] = @ \cup {x}]
      /\ Keep(p, x, "new")
      /\ IF call[p].op = "mkdir" THEN Answer(p, "ok") ELSE Goto(p, "isdir")
      /\ UNCHANGED <<modes, data>>

CheckDir(p) ==
  LET c == call[p]  isdir == IsDir(p, c.path)
  IN  /\ At(p, "isdir") /\ UNCHANGED redis /\ KnowIsDir(p, c.path)
      /\ CASE c.op = "open" /\ isdir -> Answer(p, "ErrIsDirectory")
           [] c.op = "open" /\ ~isdir -> IF "TRUNC" \in c.flags THEN Goto(p, "trunc")
                                                              ELSE Answer(p, "ok")
           [] c.op = "rmdir" -> IF isdir THEN Goto(p, "entries") ELSE Answer(p, "ErrNotDirectory")
           [] c.op = "stat" -> IF isdir THEN Answer(p, "dir") ELSE Goto(p, "size")

\* getFile with O_TRUNC removes the stripes; Size asks the store
Truncate(p) == /\ At(p, "trunc") /\ Answer(p, "ok")
               /\ data' = data \ {call[p].path} /\ UNCHANGED <<modes, children, inodes>>
Size(p) == /\ At(p, "size") /\ UNCHANGED <<redis, inodes>>
           /\ Answer(p, IF call[p].path \in data THEN "full" ELSE "empty")

\* RmDir: ReadDir, then Remove, whose own fileInfo finds the Inodes just kept
ReadDir(p) == /\ At(p, "entries") /\ UNCHANGED <<redis, inodes>>
              /\ IF children[call[p].path] \subseteq {Dot} THEN Goto(p, "unlink")
                                                           ELSE Answer(p, "ErrDirNotEmpty")

-----------------------------------------------------------------------------
(* Inode.remove, called for an entry by its directory's: call.todo is the    *)
(* stack of the calls, with what each is about to do.                        *)

Frame(x, at, kids) == [path |-> x, at |-> at, kids |-> kids]
RemoveChild(p) ==
  LET x == call[p].path
  IN  /\ At(p, "unlink")
      /\ children' = [children EXCEPT ![Parent[x]] = @ \ {x}]
      /\ call' = [call EXCEPT ![p].at = "remove", ![p].todo = <<Frame(x, "isdir", {})>>]
      /\ UNCHANGED <<modes, data, inodes>>

Top(p) == Head(call[p].todo)
Becomes(p, f) == call' = [call EXCEPT ![p].todo = <<f>> \o Tail(@)]
Removing(p, at) == At(p, "remove") /\ Top(p).at = at

\* the Inode of the call's path is the one kept; those of entries are new ones
RemoveIsDir(p) ==
  LET x == Top(p).path
      isdir == IF x = call[p].path THEN IsDir(p, x) ELSE children[x] # {}
  IN  /\ Removing(p, "isdir") /\ UNCHANGED redis
      /\ IF x = call[p].path THEN KnowIsDir(p, x) ELSE UNCHANGED inodes
      /\ Becomes(p, Frame(x, IF isdir THEN "list" ELSE "data", {}))
RemoveData(p) ==
  LET x == Top(p).path
  IN  /\ Removing(p, "data") /\ Becomes(p, Frame(x, "kids", {}))
      /\ data' = data \ {x} /\ UNCHANGED <<modes, children, inodes>>
ListChildren(p) ==
  LET x == Top(p).path
  IN  /\ Removing(p, "list") /\ UNCHANGED <<redis, inodes>>
      /\ Becomes(p, Frame(x, "kids", children[x] \ {Dot}))
RemoveKid(p) ==
  /\ Removing(p, "kids") /\ UNCHANGED <<redis, inodes>>
  /\ \E y \in Top(p).kids :
       call' = [call EXCEPT ![p].todo =
         <<Frame(y, "isdir", {}), Frame(Top(p).path, "kids", Top(p).kids \ {y})>> \o Tail(@)]

\* bugs: fs.inodes keeps what was removed; the mode key is forgotten; a stack
\* of calls that does not end
DelMeta_keep(p) ==
  LET x == Top(p).path
  IN  /\ Removing(p, "kids") /\ Top(p).kids = {}
      /\ modes' = modes \ {x} /\ children' = [children EXCEPT ![x] = {}]
      /\ IF Tail(call[p].todo) = <<>> THEN Answer(p, "ok")
         ELSE call' = [call EXCEPT ![p].todo = Tail(@)]
      /\ UNCHANGED <<data, inodes>>
DelMeta_children(p) ==
  LET x == Top(p).path
  IN  /\ Removing(p, "kids") /\ Top(p).kids = {}
      /\ children' = [children EXCEPT ![x] = {}]
      /\ IF Tail(call[p].todo) = <<>>
           THEN Answer(p, "ok") /\ Keep(p, x, "none")
           ELSE call' = [call EXCEPT ![p].todo = Tail(@)] /\ UNCHANGED inodes
      /\ UNCHANGED <<modes, data>>
\* UNLINK of both keys; the last one is the call's own and leaves fs.inodes
DelMeta(p) ==
  LET x == Top(p).path
  IN  /\ Removing(p, "kids") /\ Top(p).kids = {}
      /\ modes' = modes \ {x} /\ children' = [children EXCEPT ![x] = {}]
      /\ IF Tail(call[p].todo) = <<>>
           THEN Answer(p, "ok") /\ Keep(p, x, "none")
           ELSE call' = [call EXCEPT ![p].todo = Tail(@)] /\ UNCHANGED inodes
      /\ UNCHANGED data

\* An error that the call has no errno for (ErrParentDirNotExist of all but stat,
\* ErrNotDirectory of rmdir) makes the Go layer panic here: it returns nothing and
\* the process ends, as by Exit.  The model's process is also let go on with it.
Return(p) ==
  LET c == call[p]
  IN  /\ p \in up /\ c.at = "return"
      /\ out' = [op |-> c.op, path |-> c.path, flags |-> c.flags, res |-> c.res]
      /\ call' = [call EXCEPT ![p] = Idle]
      /\ handle' = IF c.op = "open" /\ c.res = "ok" THEN [handle EXCEPT ![p] = @ \cup {c.path}]
                                                    ELSE handle
      /\ before' = [before EXCEPT ![p] = [x \in Own[p] |-> "none"]]
      /\ UNCHANGED <<redis, up, inodes>>

Call(p) == \E x \in Path :
  \/ CallMkdir(p, x) \/ CallRmdir(p, x) \/ CallUnlink(p, x) \/ CallStat(p, x)
  \/ \E flags \in Flags : CallOpen(p, x, flags)
  \/ Write(p, x) \/ Close(p, x)
Step(p) == \/ FindParent(p) \/ CheckParent(p) \/ FindNode(p)
           \/ CreateMeta(p) \/ SetChild(p) \/ CheckDir(p) \/ Truncate(p) \/ Size(p)
           \/ ReadDir(p) \/ RemoveChild(p) \/ RemoveIsDir(p) \/ RemoveData(p)
           \/ ListChildren(p) \/ RemoveKid(p) \/ DelMeta(p) \/ Return(p)
Next == \E p \in Proc : Start(p) \/ Exit(p) \/ Crash(p) \/ Call(p) \/ Step(p)
Spec == Init /\ [][Next]_vars
-----------------------------------------------------------------------------
\* What a directory lists is there, whoever lists it and whenever: an inode is
\* made before its entry and its entry removed before it (createInode, Remove).
\* Only the removal of a whole directory, while it lasts, is seen halfway.
ListedExists == \A d \in Path : \A x \in children[d] \ {Dot} : x \in modes \/
  \E p \in Proc : call[p].at = "remove" /\ \E k \in 1..Len(call[p].todo) : call[p].todo[k].path = d

\* An inode that its directory does not list, which a removal of the directory
\* would leave behind, is that of a call that is not finished.
UnlistedIsUnfinished ==
  \A x \in modes \ {Root} : x \notin children[Parent[x]] =>
    \E p \in Proc : call[p].path = x /\ call[p].at \in {"link", "remove"}

\* What a process remembers of the paths that are its own is what Redis holds,
\* between its calls (fs.inodes, Inode.isDir).
RemembersOwn == \A p \in up : call[p] = Idle =>
  \A x \in Own[p] : LET k == inodes[p][x]
                    IN  /\ k # "none" => x \in modes
                        /\ k = "dir" => children[x] # {}
                        /\ k = "file" => children[x] = {}
=============================================================================
