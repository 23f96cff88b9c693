-------------------------------- MODULE Tree --------------------------------
(***************************************************************************)
(* What a RedisFS promises a process of the paths the process has for      *)
(* itself: a tree of directories and files on which every call is one      *)
(* step, with the error the call gives (redisfs/fs.go).  out is the last   *)
(* call that returned, None while another is under way.  A file is         *)
(* "empty" or "full": whether it holds data.                               *)
(***************************************************************************)
EXTENDS FiniteSets

CONSTANTS Path, Root, Parent
VARIABLES kind, out
vars == <<kind, out>>

None == [op |-> "none", path |-> Root, flags |-> {}, res |-> "ok"]
Init == kind = [x \in Path |-> "none"] /\ out = None
Begin == out' = None /\ UNCHANGED kind

IsDir(x)  == x = Root \/ kind[x] = "dir"
Placed(x) == IsDir(Parent[x])
Entries(x) == {y \in Path : Parent[y] = x /\ kind[y] # "none"}
Answer(op, x, flags, res) == out' = [op |-> op, path |-> x, flags |-> flags, res |-> res]
Becomes(x, k) == kind' = [kind EXCEPT ![x] = k]

\* A call that fails changes nothing.
Fails(x) == \E flags \in SUBSET {"CREATE", "EXCL", "TRUNC"} :
  /\ UNCHANGED kind
  /\ \/ /\ ~Placed(x)
        /\ \E op \in {"mkdir", "open", "unlink", "rmdir", "stat"} :
             Answer(op, x, flags, "ErrParentDirNotExist")
     \/ /\ Placed(x) /\ kind[x] = "none"
        /\ \/ \E op \in {"open", "unlink", "stat"} :
                (op = "open" => "CREATE" \notin flags) /\ Answer(op, x, flags, "ErrNotExist")
           \/ Answer("rmdir", x, flags, "ErrNotDirectory")
     \/ /\ kind[x] # "none"
        /\ \/ Answer("mkdir", x, flags, "ErrExist")
           \/ {"CREATE", "EXCL"} \subseteq flags /\ Answer("open", x, flags, "ErrExist")
     \/ /\ kind[x] = "dir" /\ ~({"CREATE", "EXCL"} \subseteq flags)
        /\ Answer("open", x, flags, "ErrIsDirectory")
     \/ kind[x] \in {"empty", "full"} /\ Answer("rmdir", x, flags, "ErrNotDirectory")
     \/ kind[x] = "dir" /\ Entries(x) # {} /\ Answer("rmdir", x, flags, "ErrDirNotEmpty")

Mkdir(x) == /\ Placed(x) /\ kind[x] = "none" /\ Becomes(x, "dir")
            /\ Answer("mkdir", x, {}, "ok")
Open(x, flags) ==
  /\ Placed(x) /\ Answer("open", x, flags, "ok")
  /\ \/ kind[x] = "none" /\ "CREATE" \in flags /\ Becomes(x, "empty")
     \/ /\ kind[x] \in {"empty", "full"} /\ ~({"CREATE", "EXCL"} \subseteq flags)
        /\ IF "TRUNC" \in flags THEN Becomes(x, "empty") ELSE UNCHANGED kind
\* a directory goes with its entries (which are files: see MCRedisFS)
Unlink(x) == /\ kind[x] # "none"
             /\ kind' = [y \in Path |-> IF y \in {x} \cup Entries(x) THEN "none" ELSE kind[y]]
             /\ Answer("unlink", x, {}, "ok")
Rmdir(x) == /\ kind[x] = "dir" /\ Entries(x) = {} /\ Becomes(x, "none")
            /\ Answer("rmdir", x, {}, "ok")
Stat(x) == kind[x] # "none" /\ Answer("stat", x, {}, kind[x]) /\ UNCHANGED kind
Write(x) == /\ kind[x] \in {"empty", "full"} /\ Becomes(x, "full")
            /\ Answer("write", x, {}, "ok")

Next == Begin \/ \E x \in Path :
  \/ Mkdir(x) \/ Unlink(x) \/ Rmdir(x) \/ Stat(x) \/ Write(x) \/ Fails(x)
  \/ \E flags \in SUBSET {"CREATE", "EXCL", "TRUNC"} : Open(x, flags)
Spec == Init /\ [][Next]_vars
=============================================================================
