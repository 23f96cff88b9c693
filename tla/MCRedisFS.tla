------------------------------ MODULE MCRedisFS ------------------------------
(***************************************************************************)
(* Instances of RedisFS, and its refinement of Tree for the paths that one *)
(* process only uses.                                                      *)
(***************************************************************************)
EXTENDS RedisFS, TLC

CONSTANTS p, q,
          dir, file, both       \* /dir, /dir/file, /both
MCParent == [x \in Path \ {Root} |-> IF x = file THEN dir ELSE Root]
OwnPaths == [r \in Proc |-> IF r = p THEN {dir, file} ELSE {}]

Mine == UNION {Own[r] : r \in Proc}
Owner(x) == CHOOSE r \in Proc : x \in Own[r]

\* A process in a call, or gone in the middle of one, left its paths as they
\* were; every call takes effect when it returns.
PathTree == INSTANCE Tree WITH
  Path <- Mine,
  kind <- [x \in Mine |-> LET r == Owner(x)
                          IN  IF call[r] = Idle THEN Kind(x) ELSE before[r][x]],
  out <- IF out.path \in Shared THEN None ELSE out

\* Each call on paths of the process's own is one step on a tree of files and
\* directories, with the result that its state asks for (mkdir, open, unlink,
\* rmdir, stat), whatever the other processes do elsewhere in the mount point,
\* crash or leave behind (RedisFS's methods).
IsTree == PathTree!Spec
=============================================================================
