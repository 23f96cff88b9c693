------------------------------ MODULE MCStreams -----------------------------
(***************************************************************************)
(* Two mount points, one of whose names a third directory's name begins    *)
(* with; a working directory outside of both; paths with detours;          *)
(* descriptors of which only the standard one differs from the others.     *)
(***************************************************************************)
EXTENDS Streams

CONSTANTS d1, d2
Symmetry == Permutations({d1, d2})
MCMounts == {<<"m">>, <<"k">>}
MCCwd == <<"u">>
\* "lng" alone is longer than the buffer at first, and than what it else grows by
MCSize == [n \in {"m", "k", "u", "f", "mx", "lng"} |->
             CASE n = "mx" -> 2 [] n = "lng" -> 5 [] OTHER -> 1]
MCLonger == {<<"m", "mx">>}
MCOpens == {Path(FALSE, <<"..", "k", "f">>), Path(FALSE, <<"f">>)}
MCPaths == MCOpens \cup {Path(TRUE, <<"m", ".", "f">>)}
MCTexts == {<<"x">>, <<"x", "nl">>, <<"ff">>}
ASSUME PathsAreResolved == Resolved

\* Every path of up to four components.
RawPaths == {Path(abs, comps) : abs \in BOOLEAN, comps \in BoundedSeq({".", "..", "m", "mx", "lng"}, 4)}

Misread == {p \in RawPaths : /\ ~Fails(p)
                             /\ \/ AbsPath(p).out # Normal(p) \/ ~AbsPath(p).fits
                                \/ ContainsPath(p) # (GoMounts(p) # {})}

\* Once the library is up, whatever the path: abspath gives what the path means and
\* stays within its buffer; and a path that the C layer hands to the Go layer is
\* one of a mount point there, so that none is called without one.
PathsResolve == phase = "up" => Misread = {}
=============================================================================
