---------------------------- MODULE MCPvTransfer ----------------------------
(***************************************************************************)
(* Files with lines, with errors in between, one that fails over and over, *)
(* and a second that is there, or not; and pv's options for each.          *)
(***************************************************************************)
EXTENDS PvTransfer

TheFile(cells, kind, fails) == [cells |-> cells, kind |-> kind, fails |-> fails]
MCInputs == {<<TheFile(<<"a", "nl", "a">>, "device", {}), TheFile(<<"nl">>, "device", {})>>,
             <<TheFile(<<"a", "bad", "nl">>, "device", {}), TheFile(<<"a">>, "device", {})>>,
             <<TheFile(<<"a", "bad", "bad", "bad", "bad", "bad", "bad", "a">>, "file", {})>>,
             <<TheFile(<<"a", "bad", "nl">>, "pipe", {}), TheFile(<<"a">>, "device", {4})>>,
             <<TheFile(<<"nl">>, "device", {}), TheFile(<<>>, "device", {2})>>}
TheOption(line, splice, skip, bytes, stop, size) ==
  [line |-> line, splice |-> splice, skip |-> skip, rate |-> bytes, stop |-> stop, size |-> size]
MCOptions == {TheOption(TRUE, TRUE, FALSE, 0, FALSE, 0),      \* as pdwfs-slurm calls it
              TheOption(FALSE, TRUE, TRUE, 0, TRUE, 0),       \* to stop at a size that is not known
              TheOption(FALSE, TRUE, TRUE, 1, TRUE, 2),
              TheOption(TRUE, FALSE, TRUE, 2, TRUE, 2)}
=============================================================================
