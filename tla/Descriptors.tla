----------------------------- MODULE Descriptors ----------------------------
(***************************************************************************)
(* What the Go layer promises the threads of a process (pdwfs.go): a table *)
(* of open files, apart from the descriptors of the kernel's own, in which *)
(* every call is one step; files are known by their sizes.                 *)
(***************************************************************************)
EXTENDS Integers

CONSTANTS Thread, Fd, Path, NoFile,
          MaxSize                       \* bound on sizes and offsets
VARIABLES opened,   \* the open file of each descriptor, or NoFile
          other,    \* the descriptors pdwfs has nothing to do with
          size,     \* of each file, -1 for none
          result    \* what each thread's last call returned
vars == <<opened, other, size, result>>

Init == /\ opened = [f \in Fd |-> NoFile] /\ other = {}
        /\ size = [p \in Path |-> -1] /\ result = [t \in Thread |-> 0]

Returns(t, n) == result' = [result EXCEPT ![t] = n]
Fails(t) == Returns(t, -1) /\ UNCHANGED <<opened, other, size>>

\* A new descriptor is nobody's.  An appending file is at its end when it is opened.
Open(t, f) ==
  /\ opened[f] = NoFile /\ f \notin other /\ Returns(t, 0) /\ UNCHANGED other
  /\ \E p \in Path, s \in 0..MaxSize, can \in SUBSET {"r", "w"} :
       /\ s \in {0, size[p]} /\ size' = [size EXCEPT ![p] = s]
       /\ \E off \in {0, s} : opened' = [opened EXCEPT ![f] = [path |-> p, off |-> off, can |-> can]]
Close(t, f) == /\ opened[f] # NoFile /\ opened' = [opened EXCEPT ![f] = NoFile]
               /\ Returns(t, 0) /\ UNCHANGED <<other, size>>

\* A read of n bytes at off: what there is of them.
Read(t, f, n, off) ==
  LET there == size[opened[f].path] - off
  IN  /\ Returns(t, IF there <= 0 THEN 0 ELSE IF n <= there THEN n ELSE there)
      /\ UNCHANGED <<other, size>>
Write(t, f, n, off) ==
  /\ Returns(t, n) /\ UNCHANGED other
  /\ size' = [size EXCEPT ![opened[f].path] = IF n > 0 /\ off + n > @ THEN off + n ELSE @]
Move(f, off) == opened' = [opened EXCEPT ![f].off = off]

\* A call that has an offset leaves that of the descriptor alone.
Use(t, f) ==
  LET h == opened[f]
  IN  /\ h # NoFile
      /\ \E n \in 0..MaxSize :
           \/ Read(t, f, n, h.off) /\ Move(f, h.off + result'[t])
           \/ Write(t, f, n, h.off) /\ Move(f, h.off + n)
           \/ \E off \in 0..MaxSize : (Read(t, f, n, off) \/ Write(t, f, n, off)) /\ UNCHANGED opened
           \/ Move(f, n) /\ Returns(t, n) /\ UNCHANGED <<other, size>>
           \/ /\ n <= size[h.path] /\ size' = [size EXCEPT ![h.path] = n]
              /\ Returns(t, 0) /\ UNCHANGED <<opened, other>>
Other == \E f \in Fd : /\ opened[f] = NoFile
                       /\ other' \in {other \cup {f}, other \ {f}}
                       /\ UNCHANGED <<opened, size, result>>
Next == \/ Other
        \/ \E t \in Thread : Fails(t) \/ \E f \in Fd : Open(t, f) \/ Close(t, f) \/ Use(t, f)
Spec == Init /\ [][Next]_vars
=============================================================================
