------------------------------ MODULE PvCursor ------------------------------
(***************************************************************************)
(* Several pv on one terminal (pv/cursor.c): each has a line of its own,   *)
(* below the line of the first, which is in a segment of shared memory.    *)
(* They lock the terminal to attach, to write and to leave; an update      *)
(* looks at the segment without the lock, and SIGCONT comes between.       *)
(*                                                                         *)
(* Linux locks terminals: the lock file for systems that do not is left    *)
(* out, and with it what happens when a pv that ends removes it.           *)
(***************************************************************************)
EXTENDS Integers, FiniteSets

CONSTANTS Pv,             \* the processes
          Height,         \* of the screen
          Free,           \* as the holder of the lock, nobody
          Signals         \* bound: how often SIGCONT may come
ASSUME CursorAssumption == /\ Height \in Nat \ {0} /\ Signals \in Nat
                           /\ IsFiniteSet(Pv) /\ Cardinality(Pv) < Height /\ Free \notin Pv

VARIABLES
  pc,          \* of each process, its next step in pv_crs_init, update or fini
  holder,      \* of the lock
  attached,    \* to the segment
  top,         \* what is in it: 0 in a new one
  row,         \* the terminal's cursor
  y_start, y_offset, y_lastread, pvmax, needreinit,
  drawn,       \* the row each has written last, 0 before
  left,        \* one has ended
  signals
own == <<y_start, y_offset, y_lastread, pvmax, needreinit>>
vars == <<pc, holder, attached, top, row, own, drawn, left, signals>>

None == [p \in Pv |-> 0]
Init == /\ pc = [p \in Pv |-> "init"] /\ holder = Free /\ attached = {} /\ top = 0
        /\ row \in 1..Height
        /\ y_start = None /\ y_offset = None /\ y_lastread = None /\ pvmax = None /\ needreinit = None
        /\ drawn = None /\ left = FALSE /\ signals = 0

Set(f, p, v) == f' = [f EXCEPT ![p] = v]
Goes(p, from, to) == pc[p] = from /\ pc' = [pc EXCEPT ![p] = to]
\* pv_crs_lock and pv_crs_unlock, or both of them in one step
Lock(p) == holder = Free /\ holder' = p
Unlock(p) == holder' = IF holder = p THEN Free ELSE holder
Locked == holder = Free
\* The terminal answers with the row of its cursor.
GetYpos == row
Larger(x, y) == IF x > y THEN x ELSE y
\* pv_crs_ipccount
CountAttached(p) == Set(pvmax, p, Larger(pvmax[p], Cardinality(attached)))
-----------------------------------------------------------------------------
(* pv_crs_ipcinit: under the lock in more than one step *)

\* a bug: the terminal is not locked
InitLock_not(p) == /\ Goes(p, "init", "attach")
                   /\ UNCHANGED <<holder, attached, top, row, own, drawn, left, signals>>
InitLock(p) == /\ Goes(p, "init", "attach") /\ Lock(p)
               /\ UNCHANGED <<attached, top, row, own, drawn, left, signals>>
Attach(p) == /\ Goes(p, "attach", "count") /\ attached' = attached \cup {p}
             /\ top' = IF attached = {} THEN 0 ELSE top
             /\ UNCHANGED <<holder, row, own, drawn, left, signals>>
Offset(p) == /\ Goes(p, "count", "top") /\ CountAttached(p) /\ Set(y_offset, p, Cardinality(attached) - 1)
             /\ UNCHANGED <<holder, attached, top, row, y_start, y_lastread, needreinit, drawn, left, signals>>
\* The first puts the cursor's row into the segment, the others find it there.
Top(p) == LET y == IF y_offset[p] = 0 THEN GetYpos ELSE top
          IN  /\ Goes(p, "top", "idle") /\ top' = y /\ Set(y_start, p, y) /\ Set(y_lastread, p, y) /\ Unlock(p)
              /\ UNCHANGED <<attached, row, y_offset, pvmax, needreinit, drawn, left, signals>>
-----------------------------------------------------------------------------
(* pv_sig_cont, pv_crs_needreinit: meanwhile others have used the terminal. *)

Started(p) == pc[p] \in {"idle", "check", "look", "scroll", "write"}
NeedReinit(p) == Set(needreinit, p, IF needreinit[p] < 2 THEN needreinit[p] + 2 ELSE 3)
Signal(p) == /\ Started(p) /\ signals < Signals /\ signals' = signals + 1 /\ NeedReinit(p)
             /\ row' \in 1..Height
             /\ UNCHANGED <<pc, holder, attached, top, y_start, y_offset, y_lastread, pvmax, drawn, left>>
-----------------------------------------------------------------------------
(* pv_crs_update *)

\* pv_crs_reinit: the first does it at once, the others at their second update.
Reinit(p) == /\ Goes(p, "idle", "check") /\ needreinit[p] > 0 /\ Locked
             /\ LET needs == IF y_offset[p] < 1 THEN 0 ELSE needreinit[p] - 1
                IN  /\ Set(needreinit, p, needs)
                    /\ IF needs > 0 THEN UNCHANGED <<top, y_start, y_lastread>>
                       ELSE /\ Set(y_start, p, GetYpos) /\ Set(y_lastread, p, GetYpos)
                            /\ top' = IF y_offset[p] < 1 THEN GetYpos ELSE top
             /\ UNCHANGED <<holder, attached, row, y_offset, pvmax, drawn, left, signals>>
Update(p) == /\ Goes(p, "idle", "check") /\ needreinit[p] = 0
             /\ UNCHANGED <<holder, attached, top, row, own, drawn, left, signals>>
Counts(p) == /\ Goes(p, "check", "look") /\ CountAttached(p)
             /\ UNCHANGED <<holder, attached, top, row, y_start, y_offset, y_lastread, needreinit, drawn, left, signals>>
\* a bug: what has been read before is good enough
TopNow_old(p) == y_lastread[p]
TopNow(p) == top
Looks(p) == LET y == IF y_lastread[p] # TopNow(p) THEN TopNow(p) ELSE y_start[p]
            IN  /\ Goes(p, "look", IF needreinit[p] > 0 THEN "idle" ELSE "scroll")
                /\ Set(y_start, p, y) /\ Set(y_lastread, p, TopNow(p))
                /\ UNCHANGED <<holder, attached, top, row, y_offset, pvmax, needreinit, drawn, left, signals>>
\* Up by what is missing of the screen; the first scrolls it.
Scrolls(p) == LET offs == y_start[p] + pvmax[p] - Height
              IN  /\ Goes(p, "scroll", "write")
                  /\ IF offs <= 0 THEN UNCHANGED <<y_start, row>>
                     ELSE /\ Set(y_start, p, Larger(1, y_start[p] - offs))
                          /\ IF y_offset[p] = 0 THEN Locked /\ row' = Height ELSE UNCHANGED row
                  /\ UNCHANGED <<holder, attached, top, y_offset, y_lastread, pvmax, needreinit, drawn, left, signals>>
Writes(p) == LET y == y_start[p] + y_offset[p]
             IN  /\ Goes(p, "write", "idle") /\ Locked /\ Set(drawn, p, y) /\ row' = y
                 /\ UNCHANGED <<holder, attached, top, own, left, signals>>
-----------------------------------------------------------------------------
\* pv_crs_fini: the last to leave deletes the segment.
Fini(p) == LET y == y_start[p] + Larger(pvmax[p], 1) - 1
           IN  /\ Goes(p, "idle", "done") /\ Locked /\ left' = TRUE
               /\ row' = IF y < Height THEN y + 1 ELSE Height
               /\ CountAttached(p) /\ attached' = attached \ {p}
               /\ top' = IF attached = {p} THEN 0 ELSE top
               /\ Set(drawn, p, 0)
               /\ UNCHANGED <<holder, y_start, y_offset, y_lastread, needreinit, signals>>

Displays(p) == \/ InitLock(p) \/ Attach(p) \/ Offset(p) \/ Top(p)
               \/ Reinit(p) \/ Update(p) \/ Counts(p) \/ Looks(p) \/ Scrolls(p) \/ Writes(p)
Next == \E p \in Pv : Displays(p) \/ Signal(p) \/ Fini(p)
Spec == Init /\ [][Next]_vars /\ \A p \in Pv : SF_vars(Displays(p))
-----------------------------------------------------------------------------
\* Each has a line of its own below a row that one of them has put into the segment,
\* though they attach at the same time; until one leaves: the next one to come then
\* takes its number from how many are left, and shares a line with one of them.
OwnLine == ~left => \A p \in attached : Started(p) =>
                      /\ y_lastread[p] > 0
                      /\ \A q \in attached \ {p} : Started(q) => y_offset[p] # y_offset[q]

\* After the screen has scrolled and the terminal was in other hands for a while,
\* all draw on rows of the screen of their own again, in the order they have
\* started in.
Apart == \A p, q \in Pv : /\ drawn[p] \in 1..Height
                          /\ y_offset[p] < y_offset[q] => drawn[p] < drawn[q]
Settles == <>left \/ <>[]Apart
=============================================================================
