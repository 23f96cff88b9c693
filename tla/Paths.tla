-------------------------------- MODULE Paths -------------------------------
(***************************************************************************)
(* How a path is told to be pdwfs's or libc's: abspath (src/c/utils.c)     *)
(* makes it absolute without looking at the file system, component by      *)
(* component into a buffer that it lets grow, and contains_path            *)
(* (src/c/pdwfs.c) looks for a mount point whose text its own begins with. *)
(* The Go layer then does the same with its own functions.                 *)
(*                                                                         *)
(* A path is the sequence of its components, "." and ".." among them; the  *)
(* slashes between them only count as places of the buffer.                *)
(***************************************************************************)
EXTENDS Integers, SequencesExt

CONSTANTS Mounts,         \* the mount points, absolute
          Cwd,            \* the working directory: getcwd's, and Go's
          Size,           \* of each name, its length
          Longer,         \* the pairs of names of which the second begins with the first
          PathMax         \* PATH_MAX
ASSUME PathAssumption == PathMax \in Nat \ {0}

Path(abs, comps) == [abs |-> abs, comps |-> comps]
Empty(p) == ~p.abs /\ p.comps = <<>>
-----------------------------------------------------------------------------
(* abspath *)

\* The offset of dest: after the components so far, with the slash behind them if
\* there is one; the root is a slash.
Dest(r) == FoldLeft(LAMBDA n, c : n + 1 + Size[c], 0, r.out) + (IF r.slash THEN 1 ELSE 0)

\* getcwd, or a slash; a working directory that does not fit makes abspath fail.
Start(p) == IF p.abs \/ Cwd = <<>>
            THEN [out |-> <<>>, slash |-> TRUE, limit |-> PathMax, fits |-> TRUE]
            ELSE [out |-> Cwd, slash |-> FALSE, limit |-> PathMax, fits |-> TRUE]
Fails(p) == Empty(p) \/ (~p.abs /\ Dest(Start(p)) >= PathMax)

\* a bug: the slash that is written first is not counted
Room_slash(r, c) == LET end == Dest(r) + Size[c]
                    IN  IF end < r.limit THEN r.limit
                        ELSE r.limit + (IF Size[c] + 1 > PathMax THEN Size[c] + 1 ELSE PathMax)
\* The end of the buffer, once there is room for one more component and the NUL.
Room(r, c) == LET end == Dest(r) + (IF r.slash THEN 0 ELSE 1) + Size[c]
              IN  IF end < r.limit THEN r.limit
                  ELSE r.limit + (IF Size[c] + 1 > PathMax THEN Size[c] + 1 ELSE PathMax)

AddName(r, c) == LET s == [out |-> Append(r.out, c), slash |-> FALSE, limit |-> Room(r, c)]
                 IN  [out |-> s.out, slash |-> FALSE, limit |-> s.limit,
                      fits |-> r.fits /\ Dest(r) < r.limit /\ Dest(s) < s.limit]
\* Back to the slash before the last component, which stays.
DropName(r) == IF r.out = <<>> THEN r ELSE [r EXCEPT !.out = Front(@), !.slash = TRUE]

AbsPath(p) == FoldLeft(LAMBDA r, c : CASE c = "."  -> r
                                       [] c = ".." -> DropName(r)
                                       [] OTHER    -> AddName(r, c),
                       Start(p), p.comps)
-----------------------------------------------------------------------------
(* contains_path and getMount *)

Begins(m, out) == /\ Len(out) >= Len(m)
                  /\ \A i \in 1..Len(m) : \/ out[i] = m[i]
                                          \/ i = Len(m) /\ <<m[i], out[i]>> \in Longer

ContainsPath(p) == /\ ~Fails(p)
                   /\ LET out == AbsPath(p).out IN \E m \in Mounts : Begins(m, out)

\* What the path means: of its components, behind the working directory if it is
\* relative, those names stay that no ".." after them takes away.
Full(p) == IF p.abs THEN p.comps ELSE Cwd \o p.comps
Ups(s, i, j) == Cardinality({k \in i..j : s[k] = ".."})
Names(s, i, j) == Cardinality({k \in i..j : s[k] \notin {".", ".."}})
Normal(p) ==
  LET s == Full(p)
      Stays(i) == /\ s[i] \notin {".", ".."}
                  /\ \A j \in i + 1..Len(s) : Ups(s, i + 1, j) <= Names(s, i + 1, j)
  IN  FoldLeftDomain(LAMBDA r, i : IF Stays(i) THEN Append(r, s[i]) ELSE r, <<>>, s)

\* filepath.Abs, then any mount point the map of them has first
GoMounts(p) == LET n == Normal(p) IN {m \in Mounts : ~Empty(p) /\ Begins(m, n)}
=============================================================================
