---------------------------- MODULE StreamsProofs ----------------------------
(***************************************************************************)
(* The streams of any program: what a reader has been given, whatever      *)
(* others do to its file between the steps of its calls; and the layer     *)
(* that serves a call.                                                     *)
(***************************************************************************)
EXTENDS Streams, SequenceTheorems, TLAPS

\* The three tables: a descriptor is in the C layer's when it is in the Go layer's,
\* with the program's own file unless freopen took that, and a standard descriptor is
\* in neither.
Tables ==
  /\ phase \in {"loading", "up", "over", "gone"} /\ app = [f \in Fd |-> app[f]]
  /\ register = DOMAIN files /\ register \subseteq Fd \ Std /\ (register # {} => phase = "up")
  /\ \A f \in register : /\ files[f] = Handle(files[f].name, files[f].off, files[f].can)
                         /\ (app[f] = files[f].name \/ app[f] = Taken) /\ app[f] # NoFile
  /\ phase # "gone" => \A f \in Std : app[f] # NoFile

\* A call as a path or a descriptor is told to be one layer's, or passed through.
Looked == \/ astray' \in {{}, {At}}
          \/ \E p \in Paths : /\ phase \in {"loading", "up"} /\ ~Managed(p) /\ Served(Libc, Normal(p))
                              /\ (phase = "loading" => GoMounts(p) = {})
          \/ \E p \in Paths : Managed(p) /\ \E m \in GoMounts(p) : Served(m, Normal(p))
          \/ \E f \in Fd : Running(f) /\ app[f] # NoFile /\ ~ManagedFd(f) /\ Served(Libc, app[f])
          \/ \E f \in Fd : phase = "up" /\ ManagedFd(f) /\ Served(MountOf(f), app[f])
Layers == /\ RightLayer
          /\ \A f \in register : app[f] = Taken \/ Home(app[f]) = MountOf(f)
          /\ \A f \in Fd \ register : app[f] # NoFile => Home(app[f]) = Libc

\* What a step does to the tables: it looks, or moves on in a file; it changes what a
\* descriptor of libc's is, or of a stream that freopen is given; it opens or closes;
\* or all of them are gone.
Moves == UNCHANGED files \/ \E f \in DOMAIN files, off \in Int : MoveTo(f, off)
Looking == Looked /\ UNCHANGED <<phase, register, app>> /\ Moves
Assigns(f, n) == /\ f \notin register /\ app' = [app EXCEPT ![f] = n] /\ UNCHANGED <<phase, register, files>>
                 /\ Looked
                 /\ \/ n = NoFile /\ f \notin Std
                    \/ \E g \in Fd \ register : n = app[g] /\ app[g] # NoFile
                    \/ n = Libc
Takes(f) == /\ f \in register /\ app' = [app EXCEPT ![f] = Taken] /\ UNCHANGED <<phase, register, files>>
            /\ Looked
Opens1(f) == \E p \in Opens, can \in SUBSET {"r", "w"}, trunc \in BOOLEAN : Opened(f, p, can, trunc, Busy)
Kinds == \/ Looking \/ Exits \/ InitPdwfs \/ FinalizePdwfs \/ UNCHANGED wraps
         \/ \E f \in Fd : \E n : Assigns(f, n)
         \/ \E f \in Fd : Opens1(f) \/ GoClose(f) \/ Takes(f)

\* Of a path that resolves, both layers find the mount point of its name, or none.
LEMMA PathFacts ==
  ASSUME Resolved, NEW p \in Paths
  PROVE  /\ ContainsPath(p) <=> GoMounts(p) # {}
         /\ \A m \in GoMounts(p) : m = Home(Normal(p))
         /\ GoMounts(p) = {} => Home(Normal(p)) = Libc
<1>1. /\ ~Fails(p) /\ AbsPath(p).out = Normal(p)
      /\ \A m \in Mounts : Begins(m, Normal(p)) <=> m = Home(Normal(p))
  BY DEF Resolved
<1>2. ~Empty(p)
  BY <1>1 DEF Fails
<1>3. GoMounts(p) = {m \in Mounts : Begins(m, Normal(p))}
  BY <1>2 DEF GoMounts
<1>4. ContainsPath(p) <=> \E m \in Mounts : Begins(m, Normal(p))
  BY <1>1 DEF ContainsPath
<1>5. Home(Normal(p)) \in Mounts \/ Home(Normal(p)) = Libc
  BY DEF Home
<1> QED
  BY <1>1, <1>3, <1>4, <1>5

\* Whoever looks as the code does finds the layer that has the file, but for a stream
\* that freopen was given.
LEMMA LookedRight ==
  ASSUME Resolved, Tables, Layers, Looked
  PROVE  RightLayer'
<1>0. astray' = {} \/ astray' = {At} \/ astray' = {Taken} => RightLayer'
  BY DEF RightLayer
<1>1. ASSUME NEW p \in Paths, phase \in {"loading", "up"}, ~Managed(p), Served(Libc, Normal(p)),
             phase = "loading" => GoMounts(p) = {}
      PROVE  RightLayer'
  <2>1. GoMounts(p) = {}
    BY <1>1, PathFacts DEF Managed
  <2>2. Home(Normal(p)) = Libc
    BY <2>1, PathFacts
  <2> QED
    BY <1>0, <1>1, <2>2 DEF Served
<1>2. ASSUME NEW p \in Paths, Managed(p), NEW m \in GoMounts(p), Served(m, Normal(p))
      PROVE  RightLayer'
  <2>1. m = Home(Normal(p))
    BY PathFacts
  <2> QED
    BY <1>0, <1>2, <2>1 DEF Served
<1>3. ASSUME NEW f \in Fd, Running(f), app[f] # NoFile, ~ManagedFd(f), Served(Libc, app[f])
      PROVE  RightLayer'
  <2>1. f \notin register
    BY <1>3 DEF ManagedFd, Tables
  <2> QED
    BY <1>0, <1>3, <2>1 DEF Layers, Served
<1>4. ASSUME NEW f \in Fd, phase = "up", ManagedFd(f), Served(MountOf(f), app[f])
      PROVE  RightLayer'
  <2>1. app[f] = Taken \/ Home(app[f]) = MountOf(f)
    BY <1>4 DEF Layers, ManagedFd
  <2> QED
    BY <1>0, <1>4, <2>1 DEF Served
<1> QED
  BY <1>0, <1>1, <1>2, <1>3, <1>4 DEF Looked

\* Every step is of one of these kinds.
LEMMA PathKinds == ASSUME NEW p \in Paths, OnPath(p) PROVE Kinds
<1>1. CASE LibcPath(p)
  BY <1>1 DEF LibcPath, CallNext, Kinds, Looking, Looked, Moves, fds
<1>2. CASE GoPath(p)
  BY <1>2 DEF GoPath, Kinds, Looking, Looked, Moves, fds
<1>3. CASE Exits
  BY <1>3 DEF Kinds
<1>4. CASE Unlink(p)
  BY <1>1, <1>4 DEF Unlink, Kinds, Looking, Looked, Moves, fds
<1>5. ASSUME NEW ps, LibcAt(ps) PROVE Kinds
  BY <1>5 DEF LibcAt, PassThrough, Kinds, Looking, Looked, Moves, fds
<1> QED
  BY <1>1, <1>2, <1>3, <1>4, <1>5
     DEF OnPath, Access, Stat, Statfs, Statvfs, MakeDir, RemoveDir, Getxattr, Creat, TruncatePath, Opendir,
         FaccessAt, FxstatAt, UnlinkAt, MkdirAt, RenameAt, Rename, ExitsPath

LEMMA LibcFdKinds == ASSUME NEW f \in Fd, LibcFd(f) PROVE Kinds
BY DEF LibcFd, CallNext, Kinds, Looking, Looked, Moves, fds
LEMMA GoFdKinds == ASSUME NEW f \in Fd, GoFd(f) PROVE Kinds
BY DEF GoFd, Kinds, Looking, Looked, Moves, fds
LEMMA OnFileKinds ==
  ASSUME NEW f \in Fd, OnFile(f), UNCHANGED <<phase, register, app>>, Moves
  PROVE  Kinds
BY DEF OnFile, Kinds, Looking, Looked

LEMMA CloseKinds == ASSUME Tables, NEW f \in Fd, Close(f) PROVE Kinds
<1>1. ASSUME LibcClose(f) PROVE Assigns(f, NoFile)
  <2>1. f \notin register
    BY <1>1 DEF LibcClose, ManagedFd, Tables
  <2>2. Looked
    BY <1>1 DEF LibcClose, Looked, Running
  <2> QED
    BY <1>1, <2>1, <2>2 DEF LibcClose, Assigns
<1> QED
  BY <1>1 DEF Close, Kinds
LEMMA LibcOpenKinds == ASSUME Tables, NEW f \in Fd, NEW p \in Opens, LibcOpen(f, p) PROVE Kinds
<1>1. f \notin register
  BY DEF LibcOpen, Tables
<1>2. Looked
  BY StreamAssumption DEF LibcOpen, Looked
<1>3. Assigns(f, Libc)
  BY <1>1, <1>2 DEF LibcOpen, Assigns
<1> QED
  BY <1>3 DEF Kinds
LEMMA OpenatKinds == ASSUME Tables, NEW f \in Fd, NEW p \in Opens, Openat(f, p) PROVE Kinds
<1>1. f \notin register
  BY DEF Openat, Tables
<1>2. Looked
  BY DEF Openat, PassThrough, Looked
<1>3. Assigns(f, Libc)
  BY <1>1, <1>2 DEF Openat, Assigns
<1> QED
  BY <1>3 DEF Kinds
LEMMA FreopenKinds == ASSUME Tables, NEW f \in Fd, NEW p \in Opens, LibcFreopen(f, p) PROVE Kinds
<1>1. Looked
  BY StreamAssumption DEF LibcFreopen, Looked
<1>2. CASE f \in register
  <2>1. Takes(f)
    BY <1>1, <1>2 DEF LibcFreopen, Takes
  <2> QED
    BY <2>1 DEF Kinds
<1>3. CASE f \notin register
  <2>1. Assigns(f, Libc)
    BY <1>1, <1>3 DEF LibcFreopen, Assigns
  <2> QED
    BY <2>1 DEF Kinds
<1> QED
  BY <1>2, <1>3
LEMMA OpenKinds == ASSUME Tables, NEW f \in Fd, Opening(f) PROVE Kinds
<1>1. ASSUME NEW p \in Opens, LibcOpen(f, p) PROVE Kinds
  BY <1>1, LibcOpenKinds
<1>2. ASSUME NEW p \in Opens, OpenFails(f, p) PROVE Kinds
  BY <1>2, StreamAssumption DEF OpenFails, Kinds, Looking, Looked, Moves, fds
<1>3. ASSUME NEW p \in Opens, NEW can \in SUBSET {"r", "w"}, NEW trunc \in BOOLEAN, Opened(f, p, can, trunc, Busy)
      PROVE  Kinds
  BY <1>3 DEF Kinds, Opens1
<1>4. ASSUME NEW p \in Opens, LibcFreopen(f, p) \/ Openat(f, p) PROVE Kinds
  BY <1>4, FreopenKinds, OpenatKinds
<1>5. CASE Exits
  BY <1>5 DEF Kinds
<1>6. {"r"} \in SUBSET {"r", "w"} /\ {"w"} \in SUBSET {"r", "w"} /\ {"r", "w"} \in SUBSET {"r", "w"}
      /\ TRUE \in BOOLEAN /\ FALSE \in BOOLEAN
  OBVIOUS
<1>7. PICK p \in Opens : \/ LibcOpen(f, p) \/ OpenFails(f, p) \/ LibcFreopen(f, p) \/ Openat(f, p) \/ Exits
                         \/ \E trunc \in BOOLEAN : Opened(f, p, {"r", "w"}, trunc, Busy)
                         \/ Opened(f, p, {"r"}, FALSE, Busy) \/ Opened(f, p, {"w"}, TRUE, Busy)
  BY DEF Opening, Open, Fopen, Freopen, ExitsPath
<1> QED
  BY <1>1, <1>2, <1>3, <1>4, <1>5, <1>6, <1>7

\* The calls, and where each thing is.
Calls == {Idle}
         \cup [op : {"fread"}, at : {"cur", "end", "set"}, short : BOOLEAN, cur : Nat, end : Nat]
         \cup [op : {"getdelim"}, text : Seq(STRING), cap : Nat, tiny : BOOLEAN, own : BOOLEAN]
Types ==
  /\ \A f \in DOMAIN files : /\ f \in Fd /\ files[f].off \in Nat /\ files[f].name \in DOMAIN data
                             /\ files[f] = Handle(files[f].name, files[f].off, files[f].can)
  /\ \A n \in DOMAIN data : data[n] \in Seq(STRING)
  /\ eof \in [Fd -> BOOLEAN] /\ err \in [Fd -> BOOLEAN] /\ seen \in [Fd -> Seq(STRING)]
  /\ call \in [Fd -> Calls]

\* What may happen to the files while a stream reads: nothing but that more comes.
Extends(s, t) == Len(s) <= Len(t) /\ \A i \in 1..Len(s) : t[i] = s[i]
\* What is read of a sequence, at any place; and at one within it.
LEMMA GotNat == ASSUME NEW f, NEW off \in Nat, NEW n \in Nat, Bytes(f) \in Seq(STRING)
                PROVE  Len(Got(f, off, n)) \in Nat /\ Got(f, off, n) \in Seq(STRING)
<1>1. PICK s \in Seq(STRING) : s = Bytes(f)
  OBVIOUS
<1>2. PICK e \in Int : e = IF off + n <= Len(s) THEN off + n ELSE Len(s)
  OBVIOUS
<1>3. Got(f, off, n) = SubSeq(s, off + 1, e)
  BY <1>1, <1>2 DEF Got
<1>4. e <= Len(s)
  BY <1>2
<1>5. \A i \in off + 1..e : s[i] \in STRING
  BY <1>4
<1>6. /\ SubSeq(s, off + 1, e) \in Seq(STRING)
      /\ Len(SubSeq(s, off + 1, e)) = IF off + 1 <= e THEN e - (off + 1) + 1 ELSE 0
  BY <1>5, SubSeqProperties
<1> QED
  BY <1>3, <1>6

\* Within it, what is read follows what comes before, and is short at the end only.
LEMMA GotFacts ==
  ASSUME NEW f, NEW s \in Seq(STRING), s = Bytes(f), NEW off \in Nat, off <= Len(s), NEW n \in Nat,
         NEW b, b = Got(f, off, n)
  PROVE  /\ b \in Seq(STRING) /\ Len(b) \in 0..n /\ off + Len(b) \in 0..Len(s)
         /\ Len(b) < n => off + Len(b) = Len(s)
         /\ \A k : k = off + Len(b) => SubSeq(s, 1, k) = SubSeq(s, 1, off) \o b
<1>2. PICK e \in Int : e = IF off + n <= Len(s) THEN off + n ELSE Len(s)
  OBVIOUS
<1>3. b = SubSeq(s, off + 1, e)
  BY <1>2 DEF Got
<1>4. e <= Len(s) /\ e >= off /\ Len(s) \in Nat
  BY <1>2
<1>5. \A i \in off + 1..e : s[i] \in STRING
  BY <1>4
<1>6. b \in Seq(STRING) /\ Len(b) = IF off + 1 <= e THEN e - (off + 1) + 1 ELSE 0
  BY <1>3, <1>5, SubSeqProperties
<1>7. Len(b) = e - off
  BY <1>4, <1>6
<1>8. /\ 1 \in 1..Len(s) + 1 /\ off \in 1 - 1..Len(s) /\ e \in off..Len(s)
  BY <1>4
<1>9. SubSeq(s, 1, off) \o SubSeq(s, off + 1, e) = SubSeq(s, 1, e)
  BY <1>8, ConcatAdjacentSubSeq
<1>10. off + Len(b) = e
  BY <1>4, <1>7
<1>11. Len(b) \in 0..n /\ e \in 0..Len(s) /\ (Len(b) < n => e = Len(s))
  BY <1>2, <1>4, <1>7
<1>12. SubSeq(s, 1, off + Len(b)) = SubSeq(s, 1, off) \o b
  BY <1>3, <1>9, <1>10
<1> QED
  BY <1>6, <1>10, <1>11, <1>12

\* What a write at an offset leaves: at the end it only adds.
LEMMA PutFacts ==
  ASSUME NEW s \in Seq(STRING), NEW off \in 0..Len(s), NEW b \in Seq(STRING)
  PROVE  /\ Put(s, off, b) \in Seq(STRING) /\ Len(Put(s, off, b)) >= off + Len(b)
         /\ off = Len(s) => Extends(s, Put(s, off, b))
<1>1. PICK t : t = SubSeq(s, 1, off)
  OBVIOUS
<1>2. t \in Seq(STRING) /\ Len(t) = off /\ \A i \in 1..off : t[i] = s[i]
  BY <1>1
<1>3. PICK m \in Int : m = off + Len(b) + 1
  OBVIOUS
<1>4. m >= 1
  BY <1>3
<1>5. PICK u : u = SubSeq(s, m, Len(s))
  OBVIOUS
<1>6. \A i \in m..Len(s) : s[i] \in STRING
  BY <1>4
<1>7. u \in Seq(STRING)
  BY <1>5, <1>6, SubSeqProperties
<1>8. Put(s, off, b) = (t \o b) \o u
  BY <1>1, <1>3, <1>5 DEF Put
<1>9. /\ (t \o b) \o u \in Seq(STRING) /\ Len((t \o b) \o u) >= off + Len(b) /\ Len((t \o b) \o u) >= Len(t)
      /\ \A i \in 1..Len(t) : ((t \o b) \o u)[i] = t[i]
  BY <1>2, <1>7
<1> QED
  BY <1>2, <1>8, <1>9 DEF Extends

LEMMA FdKinds == ASSUME Tables, Types, NEW f \in Fd, OnFd(f) PROVE Kinds
<1>1. CASE LibcFd(f)
  BY <1>1, LibcFdKinds
<1>2. CASE GoFd(f)
  BY <1>2, GoFdKinds
<1>3. CASE Exits
  BY <1>3 DEF Kinds
<1>4. CASE Ftruncate(f, Busy)
  BY <1>1, <1>4, OnFileKinds DEF Ftruncate, Moves, fds
<1>5. ASSUME NEW g \in Fd, Dup2(f, g) PROVE Kinds
  <2>1. CASE Exits
    BY <2>1 DEF Kinds
  <2>2. CASE /\ phase \in {"loading", "up"} /\ app[f] # NoFile /\ g \notin Std
             /\ ~ManagedFd(f) /\ ~ManagedFd(g)
             /\ app' = [app EXCEPT ![g] = app[f]] /\ Served(Libc, app[f])
             /\ UNCHANGED <<phase, register, files, data>>
    <3>1. f \notin register /\ g \notin register
      BY <2>2 DEF ManagedFd, Tables
    <3>2. Assigns(g, app[f])
      BY <2>2, <3>1 DEF Assigns, Looked, Running
    <3> QED
      BY <3>2 DEF Kinds
  <2> QED
    BY <1>5, <2>1, <2>2 DEF Dup2, ExitsFd
<1>6. ASSUME NEW off \in Int, OnFile(f), UNCHANGED <<phase, register, app>>, MoveTo(f, off) PROVE Kinds
  BY <1>6, OnFileKinds DEF Moves, OnFile
<1>7. ASSUME OnFile(f), UNCHANGED <<phase, register, app>>, UNCHANGED files PROVE Kinds
  BY <1>7, OnFileKinds DEF Moves
<1>8. ASSUME NEW b \in Texts, Write(f, b, Busy) PROVE Kinds
  <2>1. ASSUME GoWrite(f, files[f].off, b, Busy), MoveTo(f, files[f].off + Len(b)), f \in DOMAIN files PROVE Kinds
    <3>1. files[f].off + Len(b) \in Int
      BY <2>1, StreamAssumption DEF Types
    <3> QED
      BY <1>6, <2>1, <3>1 DEF GoWrite
  <2> QED
    BY <1>1, <1>7, <1>8, <2>1 DEF Write, GoRefuses, fds
<1>9. ASSUME NEW b \in Texts, NEW off \in 0..MaxLen, Pwrite(f, off, b, Busy) PROVE Kinds
  BY <1>1, <1>7, <1>9 DEF Pwrite, GoWrite
<1>10. ASSUME NEW to \in 0..1, Lseek(f, to) PROVE Kinds
  BY <1>1, <1>6, <1>10 DEF Lseek
<1>11. ASSUME NEW n \in Nat, OnFile(f), UNCHANGED <<phase, register, app>>,
              MoveTo(f, files[f].off + Len(Got(f, files[f].off, n)))
       PROVE  Kinds
  <2>1. files[f].off \in Nat /\ Bytes(f) \in Seq(STRING)
    BY <1>11 DEF OnFile, Types, Bytes
  <2>2. Len(Got(f, files[f].off, n)) \in Nat
    BY <2>1, GotNat
  <2> QED
    BY <1>6, <1>11, <2>1, <2>2
<1>12. ASSUME NEW n \in 1..2, Read(f, n) PROVE Kinds
  BY <1>1, <1>7, <1>11, <1>12 DEF Read, GoRefuses, GoRead, fds
<1>13. ASSUME NEW b \in Texts, Vectors(f, b, Busy) PROVE Kinds
  <2>1. ASSUME GoWrite(f, files[f].off, b, Busy), MoveTo(f, files[f].off + Len(b)), f \in DOMAIN files PROVE Kinds
    <3>1. files[f].off + Len(b) \in Int
      BY <2>1, StreamAssumption DEF Types
    <3> QED
      BY <1>6, <2>1, <3>1 DEF GoWrite
  <2>2. Len(b) \in Nat
    BY StreamAssumption
  <2> QED
    BY <1>1, <1>11, <1>13, <2>1, <2>2 DEF Vectors
<1> QED
  BY <1>1, <1>2, <1>3, <1>4, <1>5, <1>8, <1>9, <1>10, <1>12, <1>13
     DEF OnFd, Fadvise, Fstat, Sync, Ioctl, Fstatfs, Fstatvfs, Pread, ExitsFd

LEMMA StreamKinds == ASSUME Tables, Types, NEW f \in Fd, Streaming(f) PROVE Kinds
<1>1. CASE LibcFd(f)
  BY <1>1, LibcFdKinds
<1>2. CASE GoFd(f)
  BY <1>2, GoFdKinds
<1>3. CASE Exits
  BY <1>3 DEF Kinds
<1>4. CASE Close(f)
  BY <1>4, CloseKinds
<1>5. ASSUME NEW off \in Int, OnFile(f), UNCHANGED <<phase, register, app>>, MoveTo(f, off) PROVE Kinds
  BY <1>5, OnFileKinds DEF Moves, OnFile
<1>6. ASSUME NEW b \in Texts, NEW n, Writes(f, b, n) PROVE Kinds
  <2>1. ASSUME OnFile(f) PROVE files[f].off + Len(b) \in Int
    BY <2>1, StreamAssumption DEF Types, OnFile
  <2> QED
    BY <1>1, <1>5, <1>6, <2>1 DEF Writes, LibcStream, GoWrite
<1>7. ASSUME NEW n \in Nat, GoRead(f, n) PROVE Kinds
  <2>1. files[f].off \in Nat /\ Bytes(f) \in Seq(STRING)
    BY <1>7 DEF GoRead, OnFile, Types, Bytes
  <2>2. Len(Got(f, files[f].off, n)) \in Nat
    BY <2>1, GotNat
  <2> QED
    BY <1>5, <1>7, <2>1, <2>2 DEF GoRead
<1>8. CASE Fread(f)
  <2>1. CASE FreadEnd(f)
    <3>1. Len(Bytes(f)) \in Int
      BY <2>1 DEF FreadEnd, OnFile, Types, Bytes
    <3> QED
      BY <1>5, <2>1, <3>1 DEF FreadEnd
  <2>2. CASE FreadSet(f)
    <3>0. call[f] \in Calls /\ call[f].op = "fread"
      BY <2>2 DEF FreadSet, Types
    <3>1. call[f].cur \in Int
      BY <3>0 DEF Calls, Idle
    <3> QED
      BY <1>5, <2>2, <3>1 DEF FreadSet
  <2> QED
    BY <1>2, <1>8, <2>1, <2>2 DEF Fread, FreadCur
<1>9. ASSUME NEW cap, NEW own, Delimited(f, cap, own) PROVE Kinds
  BY <1>9, OnFileKinds DEF Delimited, Ready, Moves, fds
<1>10. CASE Clearerr(f)
  BY <1>10 DEF Clearerr, Kinds
<1>11. ASSUME NEW size \in 1..2, NEW nmemb \in 1..2, FreadRead(f, size, nmemb) PROVE Kinds
  <2>1. size * nmemb \in Nat
    OBVIOUS
  <2> QED
    BY <1>1, <1>7, <1>11, <2>1 DEF FreadRead, LibcStream
<1>12. CASE Fgetc(f) \/ Line(f)
  BY <1>1, <1>3, <1>7, <1>12 DEF Fgetc, LibcStream, Line, LineChar, LineEnds, LineCut, LineAborts
<1> QED
  BY <1>1, <1>2, <1>3, <1>4, <1>6, <1>8, <1>9, <1>10, <1>11, <1>12
     DEF Streaming, Fclose, Fflush, LibcStream, Fdopen, ExitsFd, Reposition, Characters, Rewind, Stops,
         Fputc, Fputs, Fprintf, Fwrite, Getdelim, Fgets

LEMMA NextKinds == ASSUME Tables, Types, [Next]_vars PROVE Kinds
<1>1. CASE UNCHANGED vars
  BY <1>1 DEF vars, Kinds
<1>2. CASE (InitPdwfs \/ FinalizePdwfs) /\ Same
  BY <1>2 DEF Kinds
<1> QED
  BY <1>1, <1>2, PathKinds, OpenKinds, FdKinds, StreamKinds DEF Next

\* The tables after each kind of step.
LEMMA MoveFacts ==
  ASSUME \A f \in DOMAIN files : files[f] = Handle(files[f].name, files[f].off, files[f].can), Moves
  PROVE  /\ DOMAIN files' = DOMAIN files
         /\ \A f \in DOMAIN files : /\ files'[f].name = files[f].name /\ files'[f].can = files[f].can
                                    /\ files'[f] = Handle(files'[f].name, files'[f].off, files'[f].can)
<1>1. DOMAIN files' = DOMAIN files
  BY DEF Moves, MoveTo
<1>2. ASSUME NEW f \in DOMAIN files
      PROVE  /\ files'[f].name = files[f].name /\ files'[f].can = files[f].can
             /\ files'[f] = Handle(files'[f].name, files'[f].off, files'[f].can)
  <2>1. files[f] = Handle(files[f].name, files[f].off, files[f].can)
    OBVIOUS
  <2>2. CASE UNCHANGED files
    BY <2>1, <2>2
  <2>3. ASSUME NEW g \in DOMAIN files, NEW off \in Int, MoveTo(g, off)
        PROVE  /\ files'[f].name = files[f].name /\ files'[f].can = files[f].can
               /\ files'[f] = Handle(files'[f].name, files'[f].off, files'[f].can)
    <3>1. files'[f] = IF f = g THEN [files[f] EXCEPT !.off = off] ELSE files[f]
      BY <2>3 DEF MoveTo
    <3>2. files'[f] = files[f] \/ files'[f] = Handle(files[f].name, off, files[f].can)
      BY <2>1, <3>1 DEF Handle
    <3> QED
      BY <2>1, <3>2 DEF Handle
  <2> QED
    BY <2>2, <2>3 DEF Moves
<1> QED
  BY <1>1, <1>2

LEMMA OpenedFacts ==
  ASSUME Tables, NEW f \in Fd, NEW p \in Opens, NEW can, NEW trunc, Opened(f, p, can, trunc, Busy)
  PROVE  /\ f \notin DOMAIN files /\ f \notin Std /\ Normal(p) # NoFile
         /\ DOMAIN files' = DOMAIN files \cup {f} /\ files'[f] = Handle(Normal(p), 0, can)
         /\ \A g \in DOMAIN files : files'[g] = files[g] /\ app'[g] = app[g]
         /\ register' = register \cup {f} /\ phase = "up" /\ UNCHANGED phase
         /\ app' = [app EXCEPT ![f] = Normal(p)] /\ app'[f] = Normal(p)
<1>1. /\ app[f] = NoFile /\ f \notin DOMAIN files /\ phase = "up" /\ UNCHANGED phase
      /\ register' = register \cup {f} /\ app' = [app EXCEPT ![f] = Normal(p)]
      /\ files' = [g \in DOMAIN files \cup {f} |-> IF g = f THEN Handle(Normal(p), 0, can) ELSE files[g]]
  BY DEF Opened, Managed
<1>2. f \notin Std /\ Normal(p) # NoFile
  BY <1>1, StreamAssumption DEF Tables
<1>3. \A g \in DOMAIN files : g # f /\ app'[g] = app[g]
  BY <1>1 DEF Tables
<1>4. app'[f] = Normal(p)
  BY <1>1 DEF Tables
<1> QED
  BY <1>1, <1>2, <1>3, <1>4

LEMMA CloseFacts ==
  ASSUME Tables, NEW f \in Fd, GoClose(f)
  PROVE  /\ f \in register /\ register' = register \ {f} /\ DOMAIN files' = DOMAIN files \ {f} /\ UNCHANGED phase
         /\ \A g \in DOMAIN files' : files'[g] = files[g] /\ app'[g] = app[g]
         /\ app' = [app EXCEPT ![f] = NoFile] /\ f \notin Std
<1>1. /\ f \in DOMAIN files /\ app' = [app EXCEPT ![f] = NoFile] /\ register' = register \ {f} /\ UNCHANGED phase
      /\ files' = Restrict(files, DOMAIN files \ {f})
  BY DEF GoClose, OnFile
<1>2. DOMAIN files' = DOMAIN files \ {f} /\ \A g \in DOMAIN files \ {f} : files'[g] = files[g]
  BY <1>1 DEF Restrict
<1>3. f \in register /\ f \notin Std
  BY <1>1 DEF Tables
<1>4. \A g \in DOMAIN files' : app'[g] = app[g]
  BY <1>1, <1>2 DEF Tables
<1> QED
  BY <1>1, <1>2, <1>3, <1>4

LEMMA GoneFacts ==
  ASSUME Exits \/ FinalizePdwfs
  PROVE  /\ phase' \in {"over", "gone"} /\ register' = {} /\ DOMAIN files' = {} /\ files' = <<>>
         /\ data' = <<>> /\ UNCHANGED astray
BY DEF Exits, FinalizePdwfs

LEMMA TablesStep == ASSUME Tables, Kinds PROVE Tables'
<1>1. CASE Looking
  <2>1. /\ DOMAIN files' = DOMAIN files
        /\ \A f \in DOMAIN files : /\ files'[f].name = files[f].name
                                   /\ files'[f] = Handle(files'[f].name, files'[f].off, files'[f].can)
    BY <1>1, MoveFacts DEF Tables, Looking
  <2>2. UNCHANGED <<phase, register, app>>
    BY <1>1 DEF Looking
  <2> QED
    BY <2>1, <2>2 DEF Tables
<1>2. CASE Exits
  <2>1. /\ phase' = "gone" /\ register' = {} /\ DOMAIN files' = {} /\ app' = [f \in Fd |-> NoFile]
    BY <1>2 DEF Exits
  <2> QED
    BY <2>1 DEF Tables
<1>3. CASE InitPdwfs \/ UNCHANGED wraps
  BY <1>3 DEF InitPdwfs, wraps, fds, Tables
<1>4. CASE FinalizePdwfs
  <2>1. /\ phase' = "over" /\ register' = {} /\ DOMAIN files' = {} /\ phase = "up"
        /\ app' = [f \in Fd |-> IF f \in register THEN NoFile ELSE app[f]]
    BY <1>4 DEF FinalizePdwfs
  <2>2. \A f \in Std : f \in Fd /\ app'[f] = app[f]
    BY <2>1, InterceptionAssumption DEF Tables
  <2> QED
    BY <2>1, <2>2 DEF Tables
<1>5. ASSUME NEW f \in Fd, NEW n, Assigns(f, n) PROVE Tables'
  <2>1. f \notin register /\ app' = [app EXCEPT ![f] = n] /\ UNCHANGED <<phase, register, files>>
    BY <1>5 DEF Assigns
  <2>2. f \in Std => n # NoFile \/ phase = "gone"
    <3>1. CASE n = NoFile /\ f \notin Std
      BY <3>1
    <3>2. CASE \E g \in Fd \ register : n = app[g] /\ app[g] # NoFile
      BY <3>2
    <3>3. Libc # NoFile
      BY DEF Libc, NoFile
    <3> QED
      BY <1>5, <3>1, <3>2, <3>3 DEF Assigns
  <2>3. app'[f] = n /\ \A g \in Fd : g # f => app'[g] = app[g]
    BY <2>1 DEF Tables
  <2>4. app' = [g \in Fd |-> app'[g]]
    BY <2>1 DEF Tables
  <2>5. phase # "gone" => \A g \in Std : app'[g] # NoFile
    BY <2>2, <2>3, InterceptionAssumption DEF Tables
  <2>6. \A g \in register : g # f /\ g \in Fd
    BY <2>1 DEF Tables
  <2> QED
    BY <2>1, <2>3, <2>4, <2>5, <2>6 DEF Tables
<1>6. ASSUME NEW f \in Fd, NEW p \in Opens, NEW can \in SUBSET {"r", "w"}, NEW trunc \in BOOLEAN,
             Opened(f, p, can, trunc, Busy)
      PROVE  Tables'
  <2>1. /\ f \notin DOMAIN files /\ f \notin Std /\ Normal(p) # NoFile
        /\ DOMAIN files' = DOMAIN files \cup {f} /\ files'[f] = Handle(Normal(p), 0, can)
        /\ \A g \in DOMAIN files : files'[g] = files[g] /\ app'[g] = app[g]
        /\ register' = register \cup {f} /\ phase = "up" /\ UNCHANGED phase
        /\ app' = [app EXCEPT ![f] = Normal(p)] /\ app'[f] = Normal(p)
    BY <1>6, OpenedFacts
  <2>2. files'[f] = Handle(files'[f].name, files'[f].off, files'[f].can) /\ files'[f].name = Normal(p)
    BY <2>1 DEF Handle
  <2>3. app' = [g \in Fd |-> app'[g]] /\ \A g \in Std : app'[g] = app[g]
    BY <2>1, InterceptionAssumption DEF Tables
  <2>4. \A g \in register' : /\ files'[g] = Handle(files'[g].name, files'[g].off, files'[g].can)
                             /\ (app'[g] = files'[g].name \/ app'[g] = Taken) /\ app'[g] # NoFile
    BY <2>1, <2>2 DEF Tables
  <2> QED
    BY <2>1, <2>3, <2>4 DEF Tables
<1>7. ASSUME NEW f \in Fd, GoClose(f) PROVE Tables'
  <2>1. /\ f \in register /\ register' = register \ {f} /\ DOMAIN files' = DOMAIN files \ {f} /\ UNCHANGED phase
        /\ \A g \in DOMAIN files' : files'[g] = files[g] /\ app'[g] = app[g]
        /\ app' = [app EXCEPT ![f] = NoFile] /\ f \notin Std
    BY <1>7, CloseFacts
  <2>2. app' = [g \in Fd |-> app'[g]] /\ \A g \in Std : app'[g] = app[g]
    BY <2>1, InterceptionAssumption DEF Tables
  <2> QED
    BY <2>1, <2>2 DEF Tables
<1>8. ASSUME NEW f \in Fd, Takes(f) PROVE Tables'
  <2>1. f \in register /\ app' = [app EXCEPT ![f] = Taken] /\ UNCHANGED <<phase, register, files>>
    BY <1>8 DEF Takes
  <2>2. Taken # NoFile
    BY DEF Taken, NoFile
  <2>3. app'[f] = Taken /\ \A g \in Fd : g # f => app'[g] = app[g]
    BY <2>1 DEF Tables
  <2>4. app' = [g \in Fd |-> app'[g]] /\ \A g \in Std : app'[g] = app[g]
    BY <2>1, <2>3, InterceptionAssumption DEF Tables
  <2> QED
    BY <2>1, <2>2, <2>3, <2>4 DEF Tables
<1> QED
  BY <1>1, <1>2, <1>3, <1>4, <1>5, <1>6, <1>7, <1>8 DEF Kinds, Opens1

\* The layer that serves what, after each.
LEMMA LayersStep == ASSUME Resolved, Tables, Layers, Kinds PROVE Layers'
<1>1. CASE Looking
  <2>1. /\ DOMAIN files' = DOMAIN files
        /\ \A f \in DOMAIN files : files'[f].name = files[f].name
    BY <1>1, MoveFacts DEF Tables, Looking
  <2>2. UNCHANGED <<register, app>> /\ RightLayer'
    BY <1>1, LookedRight DEF Looking
  <2>3. \A f \in register : MountOf(f)' = MountOf(f)
    BY <2>1 DEF MountOf, Tables
  <2> QED
    BY <2>2, <2>3 DEF Layers
<1>2. CASE Exits
  BY <1>2 DEF Exits, Layers, RightLayer
<1>3. CASE InitPdwfs \/ UNCHANGED wraps
  <2>1. UNCHANGED <<register, app, files, astray>>
    BY <1>3 DEF InitPdwfs, wraps, fds
  <2> QED
    BY <2>1 DEF Layers, RightLayer, MountOf
<1>4. CASE FinalizePdwfs
  <2>1. /\ register' = {} /\ app' = [f \in Fd |-> IF f \in register THEN NoFile ELSE app[f]] /\ UNCHANGED astray
    BY <1>4 DEF FinalizePdwfs
  <2> QED
    BY <2>1 DEF Layers, RightLayer
<1>5. ASSUME NEW f \in Fd, NEW n, Assigns(f, n) PROVE Layers'
  <2>1. f \notin register /\ app' = [app EXCEPT ![f] = n] /\ UNCHANGED <<phase, register, files>> /\ RightLayer'
    BY <1>5, LookedRight DEF Assigns
  <2>2. n # NoFile => Home(n) = Libc
    <3>1. CASE \E g \in Fd \ register : n = app[g] /\ app[g] # NoFile
      BY <3>1 DEF Layers
    <3>2. Home(Libc) = Libc
      BY DEF Resolved
    <3> QED
      BY <1>5, <3>1, <3>2 DEF Assigns
  <2>3. \A g \in register : MountOf(g)' = MountOf(g) /\ app'[g] = app[g]
    BY <2>1 DEF MountOf, Tables
  <2>4. \A g \in Fd : app'[g] = IF g = f THEN n ELSE app[g]
    BY <2>1 DEF Tables
  <2> QED
    BY <2>1, <2>2, <2>3, <2>4 DEF Layers
<1>6. ASSUME NEW f \in Fd, NEW p \in Opens, NEW can \in SUBSET {"r", "w"}, NEW trunc \in BOOLEAN,
             Opened(f, p, can, trunc, Busy)
      PROVE  Layers'
  <2>1. /\ f \notin DOMAIN files
        /\ DOMAIN files' = DOMAIN files \cup {f} /\ files'[f] = Handle(Normal(p), 0, can)
        /\ \A g \in DOMAIN files : files'[g] = files[g] /\ app'[g] = app[g]
        /\ register' = register \cup {f}
        /\ app' = [app EXCEPT ![f] = Normal(p)] /\ app'[f] = Normal(p)
    BY <1>6, OpenedFacts
  <2>2. PICK m \in GoMounts(p) : Served(m, Normal(p))
    BY <1>6 DEF Opened
  <2>3. m = Home(Normal(p)) /\ p \in Paths
    BY <2>2, PathFacts, StreamAssumption
  <2>4. RightLayer'
    BY <2>2, <2>3 DEF Served, RightLayer
  <2>5. \A k \in Mounts : Begins(k, Normal(p)) <=> k = m
    BY <2>3 DEF Resolved
  <2>6. m \in Mounts
    BY <2>2 DEF GoMounts
  <2>7. (CHOOSE k \in Mounts : Begins(k, Normal(p))) = m
    BY <2>5, <2>6
  <2>8. MountOf(f)' = m
    BY <2>1, <2>7 DEF MountOf, Handle
  <2>9. \A g \in register : MountOf(g)' = MountOf(g) /\ app'[g] = app[g]
    BY <2>1 DEF MountOf, Tables
  <2>10. \A g \in Fd : g # f => app'[g] = app[g]
    BY <2>1 DEF Tables
  <2> QED
    BY <2>1, <2>3, <2>4, <2>8, <2>9, <2>10 DEF Layers
<1>7. ASSUME NEW f \in Fd, GoClose(f) PROVE Layers'
  <2>1. /\ f \in register /\ register' = register \ {f} /\ DOMAIN files' = DOMAIN files \ {f}
        /\ \A g \in DOMAIN files' : files'[g] = files[g] /\ app'[g] = app[g]
        /\ app' = [app EXCEPT ![f] = NoFile]
    BY <1>7, CloseFacts
  <2>2. Looked
    BY <1>7 DEF GoClose, OnFile, Looked
  <2>3. RightLayer'
    BY <2>2, LookedRight
  <2>4. \A g \in register' : MountOf(g)' = MountOf(g) /\ app'[g] = app[g]
    BY <2>1 DEF MountOf, Tables
  <2>5. \A g \in Fd : app'[g] = IF g = f THEN NoFile ELSE app[g]
    BY <2>1 DEF Tables
  <2> QED
    BY <2>1, <2>3, <2>4, <2>5 DEF Layers
<1>8. ASSUME NEW f \in Fd, Takes(f) PROVE Layers'
  <2>1. /\ f \in register /\ app' = [app EXCEPT ![f] = Taken] /\ UNCHANGED <<register, files>> /\ RightLayer'
    BY <1>8, LookedRight DEF Takes
  <2>2. \A g \in register : MountOf(g)' = MountOf(g)
    BY <2>1 DEF MountOf
  <2>3. \A g \in Fd : app'[g] = IF g = f THEN Taken ELSE app[g]
    BY <2>1 DEF Tables
  <2> QED
    BY <2>1, <2>2, <2>3 DEF Layers, Tables
<1> QED
  BY <1>1, <1>2, <1>3, <1>4, <1>5, <1>6, <1>7, <1>8 DEF Kinds, Opens1

\* Where a reader is, though its call be at the end of the file, and what it has read.
Reading(f) == f \in DOMAIN files /\ files[f].can = {"r"}
Place(f) == IF call[f].op = "fread" /\ call[f].at = "set" THEN call[f].cur ELSE files[f].off
Passed(f) == SubSeq(Bytes(f), 1, Place(f))

\* A reader is within its file; a call of fread knows where it started, and why it
\* was short; the line that getdelim has is what the program has not yet been given.
Fits(f) == /\ files[f].off <= Len(Bytes(f)) /\ Place(f) \in Nat /\ Place(f) <= Len(Bytes(f))
FreadKnows(f) == call[f].op = "fread" =>
  /\ call[f].end <= Len(Bytes(f))
  /\ call[f].at = "end" => call[f].cur = files[f].off
  /\ call[f].short => IF call[f].at = "set" THEN eof[f] \/ Len(Bytes(f)) > call[f].end
                                            ELSE Place(f) = call[f].end
Given(f) == "ff" \notin Range(Passed(f)) =>
  Passed(f) = IF call[f].op = "getdelim" THEN seen[f] \o call[f].text ELSE seen[f]
LineRoom(f) == call[f].op = "getdelim" /\ ~call[f].tiny => Len(call[f].text) + 2 <= call[f].cap
Stream(f) == /\ call[f] # Idle => Reading(f)
             /\ Reading(f) => Fits(f) /\ FreadKnows(f) /\ Given(f) /\ LineRoom(f)
Inv == Types /\ \A f \in Fd : Stream(f)

Safe == \A f \in DOMAIN files :
          /\ files[f].name \in DOMAIN data'
          /\ files[f].name \in Busy => Extends(data[files[f].name], data'[files[f].name])

\* What a reader has passed stays when more is added.
LEMMA PrefixStays ==
  ASSUME NEW s \in Seq(STRING), NEW t \in Seq(STRING), Extends(s, t), NEW k \in 0..Len(s)
  PROVE  SubSeq(s, 1, k) = SubSeq(t, 1, k)
<1>1. /\ SubSeq(s, 1, k) \in Seq(STRING) /\ Len(SubSeq(s, 1, k)) = k
      /\ SubSeq(t, 1, k) \in Seq(STRING) /\ Len(SubSeq(t, 1, k)) = k
  BY DEF Extends
<1>2. \A i \in 1..k : SubSeq(s, 1, k)[i] = SubSeq(t, 1, k)[i]
  BY DEF Extends
<1> QED
  BY <1>1, <1>2, SeqEqual

\* A stream whose own call does not move.
LEMMA StreamStays ==
  ASSUME Inv, Types', Safe, NEW f \in Fd, call'[f] = call[f], seen'[f] = seen[f],
         eof[f] => eof'[f] \/ call[f] = Idle,
         f \in DOMAIN files <=> f \in DOMAIN files', f \in DOMAIN files => files'[f] = files[f]
  PROVE  Stream(f)'
<1> SUFFICES ASSUME Reading(f)' PROVE Fits(f)' /\ FreadKnows(f)' /\ Given(f)' /\ LineRoom(f)'
  BY DEF Inv, Stream, Reading
<1>1. Reading(f) /\ Fits(f) /\ FreadKnows(f) /\ Given(f) /\ LineRoom(f)
      /\ files'[f] = files[f] /\ f \in DOMAIN files
  BY DEF Inv, Stream, Reading
<1>a. Place(f)' = Place(f)
  BY <1>1 DEF Place
<1>2. PICK n : n = files[f].name
  OBVIOUS
<1>3. /\ n \in DOMAIN data /\ n \in DOMAIN data' /\ data[n] \in Seq(STRING) /\ data'[n] \in Seq(STRING)
      /\ Bytes(f) = data[n] /\ Bytes(f)' = data'[n] /\ files[f].off \in Nat /\ call[f] \in Calls
  BY <1>1, <1>2 DEF Inv, Types, Safe, Bytes, Reading
<1>4. CASE files[f].off > 0 \/ call[f] # Idle
  <2>1. Extends(data[n], data'[n])
    BY <1>1, <1>2, <1>4 DEF Safe, Busy, Reading
  <2>2. Place(f) \in 0..Len(data[n])
    BY <1>1, <1>3 DEF Fits
  <2>3. Passed(f)' = Passed(f)
    BY <1>a, <1>3, <2>1, <2>2, PrefixStays DEF Passed
  <2>4. Len(data[n]) \in Nat /\ Len(data'[n]) \in Nat /\ Len(data[n]) <= Len(data'[n])
    BY <1>3, <2>1 DEF Extends
  <2>5. Fits(f)'
    BY <1>1, <1>a, <1>3, <2>4 DEF Fits
  <2>6. FreadKnows(f)'
    <3> SUFFICES ASSUME call[f].op = "fread" PROVE FreadKnows(f)'
      BY DEF FreadKnows
    <3>1. call[f] # Idle /\ call[f].end \in Nat
      BY <1>3 DEF Idle, Calls
    <3>2. call'[f] = call[f] /\ (eof[f] => eof'[f]) /\ Len(Bytes(f)') >= Len(Bytes(f))
      BY <3>1, <1>3, <2>4
    <3>3. call[f].end <= Len(Bytes(f)') /\ (call[f].at = "end" => call[f].cur = files[f].off)
      BY <3>1, <1>1, <1>3, <2>4 DEF FreadKnows
    <3>4. call[f].short => IF call[f].at = "set" THEN eof[f] \/ Len(Bytes(f)') > call[f].end
                                                ELSE Place(f) = call[f].end
      BY <3>1, <1>1, <1>3, <2>4 DEF FreadKnows
    <3> QED
      BY <3>2, <3>3, <3>4, <1>1, <1>a DEF FreadKnows
  <2> QED
    BY <1>1, <2>3, <2>5, <2>6 DEF Given, LineRoom
<1>5. CASE files[f].off = 0 /\ call[f] = Idle
  <2>1. Place(f) = 0 /\ call[f].op = "none"
    BY <1>5 DEF Place, Idle
  <2>2. Passed(f) = <<>> /\ Passed(f)' = <<>>
    BY <1>1, <1>a, <1>3, <2>1 DEF Passed
  <2>3. Len(data'[n]) \in Nat
    BY <1>3
  <2>4. Fits(f)'
    BY <1>1, <1>a, <1>3, <1>5, <2>1, <2>3 DEF Fits
  <2>5. Given(f)'
    BY <1>1, <2>1, <2>2 DEF Given
  <2> QED
    BY <2>1, <2>4, <2>5 DEF FreadKnows, LineRoom
<1> QED
  BY <1>3, <1>4, <1>5
\* The others' streams.
Others(f) == \A g \in Fd \ {f} : /\ call'[g] = call[g] /\ seen'[g] = seen[g] /\ eof'[g] = eof[g]
                                 /\ g \in DOMAIN files <=> g \in DOMAIN files'
                                 /\ g \in DOMAIN files => files'[g] = files[g]
\* A step of one stream has but that stream to answer for.
LEMMA OneStream ==
  ASSUME Inv, Types', Safe, NEW f \in Fd, Others(f), Stream(f)'
  PROVE  Inv'
<1>1. ASSUME NEW g \in Fd, g # f PROVE Stream(g)'
  BY <1>1, StreamStays DEF Others
<1> QED
  BY <1>1 DEF Inv
LEMMA AllStay ==
  ASSUME Inv, Types', Safe, UNCHANGED <<files, call, seen, eof>>
  PROVE  Inv'
BY StreamStays DEF Inv

\* Files that do not change are safe for their readers.
LEMMA SafeData == ASSUME Types, UNCHANGED data PROVE Safe
<1>1. ASSUME NEW f \in DOMAIN files PROVE Extends(data[files[f].name], data[files[f].name])
  BY DEF Types, Extends
<1> QED
  BY <1>1 DEF Safe, Types

\* With no file left, no stream has anything to answer for.
LEMMA Cleared ==
  ASSUME DOMAIN files' = {}, \A n \in DOMAIN data' : data'[n] \in Seq(STRING),
         eof' = NoStream[1], err' = NoStream[2], call' = NoStream[3], seen' = NoStream[4]
  PROVE  Inv'
<1>1. /\ eof' = [f \in Fd |-> FALSE] /\ err' = [f \in Fd |-> FALSE]
      /\ call' = [f \in Fd |-> Idle] /\ seen' = [f \in Fd |-> <<>>]
  BY DEF NoStream
<1>3. Types'
  BY <1>1 DEF Types, Calls
<1>4. \A f \in Fd : Stream(f)'
  BY <1>1 DEF Stream, Reading
<1> QED
  BY <1>3, <1>4 DEF Inv

\* An offset that moves leaves the rest of the handle, and the others.
LEMMA Moved ==
  ASSUME Types, NEW f \in DOMAIN files, NEW off \in Nat, MoveTo(f, off)
  PROVE  /\ DOMAIN files' = DOMAIN files /\ files'[f] = Handle(files[f].name, off, files[f].can)
         /\ \A g \in DOMAIN files : g # f => files'[g] = files[g]
         /\ files'[f].off = off /\ files'[f].name = files[f].name /\ files'[f].can = files[f].can
<1>1. /\ DOMAIN files' = DOMAIN files /\ files'[f] = [files[f] EXCEPT !.off = off]
      /\ \A g \in DOMAIN files : g # f => files'[g] = files[g]
  BY DEF MoveTo
<1>2. files[f] = Handle(files[f].name, files[f].off, files[f].can)
  BY DEF Types
<1>3. files'[f] = Handle(files[f].name, off, files[f].can)
  BY <1>1, <1>2 DEF Handle
<1> QED
  BY <1>1, <1>3 DEF Handle

\* Files typed after a move, and with data changed in what they hold.
FilesOK == \A f \in DOMAIN files : /\ f \in Fd /\ files[f].off \in Nat /\ files[f].name \in DOMAIN data
                                   /\ files[f] = Handle(files[f].name, files[f].off, files[f].can)
LEMMA MovedFiles ==
  ASSUME Types, NEW f \in DOMAIN files, NEW off \in Nat, MoveTo(f, off), DOMAIN data' = DOMAIN data
  PROVE  FilesOK'
BY Moved DEF FilesOK, Types

\* A stream with no call, put somewhere in its file.
LEMMA Put1 ==
  ASSUME Types', NEW f \in Fd, call'[f] = Idle,
         Reading(f)' => files'[f].off <= Len(Bytes(f)') /\ seen'[f] = Before(f)'
  PROVE  Stream(f)'
<1> SUFFICES ASSUME Reading(f)' PROVE Fits(f)' /\ FreadKnows(f)' /\ Given(f)' /\ LineRoom(f)'
  BY DEF Stream
<1>1. call'[f].op = "none" /\ Place(f)' = files'[f].off /\ files'[f].off \in Nat
  BY DEF Idle, Place, Types, Reading
<1>2. PICK s : s = Bytes(f)'
  OBVIOUS
<1>3. s \in Seq(STRING)
  BY <1>2 DEF Types, Reading, Bytes
<1>4. PICK o : o = files'[f].off
  OBVIOUS
<1>5. o \in 0..Len(s)
  BY <1>1, <1>2, <1>3, <1>4
<1>6. Before(f)' = SubSeq(s, 1, o)
  <2>1. Before(f)' = SubSeq(s, 0 + 1, IF 0 + o <= Len(s) THEN 0 + o ELSE Len(s))
    BY <1>2, <1>4 DEF Before, Got
  <2> QED
    BY <2>1, <1>5
<1>7. Passed(f)' = SubSeq(s, 1, o)
  BY <1>1, <1>2, <1>4 DEF Passed
<1> QED
  BY <1>1, <1>6, <1>7 DEF Fits, FreadKnows, Given, LineRoom

\* What a read does, when the offset is where the reader is.
Upto(f) == SubSeq(Bytes(f), 1, files[f].off)
LEMMA ReadOn ==
  ASSUME Inv, NEW f \in Fd, NEW n \in Nat, GoRead(f, n), Reading(f), Place(f) = files[f].off,
         NEW b, b = Got(f, files[f].off, n)
  PROVE  /\ data' = data /\ FilesOK' /\ Safe
         /\ DOMAIN files' = DOMAIN files /\ \A g \in DOMAIN files : g # f => files'[g] = files[g]
         /\ Reading(f)' /\ Bytes(f)' = Bytes(f) /\ Len(Bytes(f)) \in Nat
         /\ files'[f].off \in Nat /\ files'[f].off <= Len(Bytes(f))
         /\ b \in Seq(STRING) /\ Len(b) \in 0..n /\ (Len(b) < n => files'[f].off = Len(Bytes(f)))
         /\ Upto(f)' = Passed(f) \o b
         /\ "ff" \notin Range(Upto(f)') => "ff" \notin Range(Passed(f)) /\ "ff" \notin Range(b)
<1>1. PICK o : o = files[f].off
  OBVIOUS
<1>2. PICK s : s = Bytes(f)
  OBVIOUS
<1>3. f \in DOMAIN files /\ Types /\ Fits(f)
  BY DEF Inv, Stream, Reading
<1>4. o \in Nat /\ s \in Seq(STRING) /\ o <= Len(s) /\ Len(s) \in Nat
  BY <1>1, <1>2, <1>3 DEF Types, Bytes, Fits
<1>5. o \in 0..Len(s) /\ b = Got(f, o, n) /\ s = Bytes(f)
  BY <1>1, <1>2, <1>4
<1>6. /\ b \in Seq(STRING) /\ Len(b) \in 0..n /\ o + Len(b) \in 0..Len(s)
      /\ Len(b) < n => o + Len(b) = Len(s)
  BY <1>4, <1>5, GotFacts
<1>7. PICK off \in Nat : off = o + Len(b)
  BY <1>6
<1>14a. SubSeq(s, 1, off) = SubSeq(s, 1, o) \o b
  <2>1. \A k : k = o + Len(b) => SubSeq(s, 1, k) = SubSeq(s, 1, o) \o b
    BY <1>4, <1>5, GotFacts, SMTT(30)
  <2> QED
    BY <1>7, <2>1
<1>8. MoveTo(f, off) /\ data' = data
  BY <1>1, <1>7 DEF GoRead
<1>9. /\ DOMAIN files' = DOMAIN files /\ \A g \in DOMAIN files : g # f => files'[g] = files[g]
      /\ files'[f].off = off /\ files'[f].name = files[f].name /\ files'[f].can = files[f].can
  BY <1>3, <1>8, Moved
<1>10. Reading(f)' /\ Bytes(f)' = Bytes(f)
  BY <1>8, <1>9 DEF Reading, Bytes
<1>11. FilesOK' /\ Safe
  BY <1>3, <1>8, MovedFiles, SafeData
<1>12. Passed(f) = SubSeq(s, 1, o) /\ Upto(f)' = SubSeq(s, 1, off)
  BY <1>1, <1>2, <1>9, <1>10 DEF Passed, Upto
<1>13. Upto(f)' = Passed(f) \o b
  BY <1>14a, <1>12
<1>14. Passed(f) \in Seq(STRING)
  BY <1>4, <1>12
<1>15. Range(Passed(f) \o b) = Range(Passed(f)) \cup Range(b)
  BY <1>6, <1>14, RangeConcatenation
<1>16. files'[f].off \in Nat /\ files'[f].off <= Len(Bytes(f)) /\ (Len(b) < n => files'[f].off = Len(Bytes(f)))
  BY <1>2, <1>6, <1>7, <1>9
<1> QED
  BY <1>2, <1>4, <1>6, <1>8, <1>9, <1>10, <1>11, <1>13, <1>15, <1>16

\* The types, from those of the parts.
LEMMA TypesFrom ==
  ASSUME FilesOK', \A n \in DOMAIN data' : data'[n] \in Seq(STRING),
         eof' \in [Fd -> BOOLEAN], err' \in [Fd -> BOOLEAN], seen' \in [Fd -> Seq(STRING)], call' \in [Fd -> Calls]
  PROVE  Types'
BY DEF Types, FilesOK

\* The call c that a read of b leaves, and w, what the program has then been given.
RoomIn(c) == c.op = "getdelim" /\ ~c.tiny => Len(c.text) + 2 <= c.cap
Begun(c, f, b, n) == c.op = "fread" => c.at = "cur" /\ c.end = Len(Bytes(f)) /\ (c.short => Len(b) < n)
Told(c, f, b, w) == b \in Seq(STRING) /\ "ff" \notin Range(Passed(f)) /\ "ff" \notin Range(b)
                      => Passed(f) \o b = IF c.op = "getdelim" THEN w \o c.text ELSE w
\* After a read from where a stream is, it is in order again, with c for its call.
LEMMA AfterRead ==
  ASSUME Inv, NEW f \in Fd, NEW n \in Nat, GoRead(f, n), Reading(f), Place(f) = files[f].off,
         NEW b, b = Got(f, files[f].off, n),
         NEW c \in Calls, call' = [call EXCEPT ![f] = c],
         NEW w, b \in Seq(STRING) => w \in Seq(STRING), seen' = [seen EXCEPT ![f] = w],
         NEW e \in BOOLEAN, eof' = [eof EXCEPT ![f] = e], UNCHANGED err,
         Begun(c, f, b, n), RoomIn(c), Told(c, f, b, w)
  PROVE  Inv'
<1>1. /\ data' = data /\ FilesOK' /\ Safe
      /\ DOMAIN files' = DOMAIN files /\ \A g \in DOMAIN files : g # f => files'[g] = files[g]
      /\ Reading(f)' /\ Bytes(f)' = Bytes(f) /\ Len(Bytes(f)) \in Nat
      /\ files'[f].off \in Nat /\ files'[f].off <= Len(Bytes(f))
      /\ b \in Seq(STRING) /\ Upto(f)' = Passed(f) \o b
      /\ Len(b) < n => files'[f].off = Len(Bytes(f))
      /\ "ff" \notin Range(Upto(f)') => "ff" \notin Range(Passed(f)) /\ "ff" \notin Range(b)
  BY ReadOn
<1>2. /\ eof \in [Fd -> BOOLEAN] /\ err \in [Fd -> BOOLEAN] /\ seen \in [Fd -> Seq(STRING)]
      /\ call \in [Fd -> Calls] /\ \A k \in DOMAIN data : data[k] \in Seq(STRING)
  BY DEF Inv, Types
<1>3. /\ eof' \in [Fd -> BOOLEAN] /\ err' \in [Fd -> BOOLEAN] /\ seen' \in [Fd -> Seq(STRING)]
      /\ call' \in [Fd -> Calls]
  BY <1>1, <1>2
<1>4. Types'
  BY <1>1, <1>2, <1>3, TypesFrom
<1>5. Others(f)
  BY <1>1, <1>2 DEF Others
<1>6. call'[f] = c /\ seen'[f] = w /\ eof'[f] = e
  BY <1>2
<1>7. Place(f)' = files'[f].off /\ Passed(f)' = Upto(f)'
  BY <1>6 DEF Place, Passed, Upto, Begun
<1>8. Given(f)'
  BY <1>1, <1>6, <1>7 DEF Given, Told
<1>9. Fits(f)'
  BY <1>1, <1>7 DEF Fits
<1>10. FreadKnows(f)'
  BY <1>1, <1>6, <1>7 DEF FreadKnows, Begun
<1>11. Stream(f)'
  BY <1>1, <1>6, <1>8, <1>9, <1>10 DEF Stream, LineRoom, RoomIn
<1> QED
  BY <1>1, <1>4, <1>5, <1>11, OneStream

LEMMA IdleCall == Idle \in Calls /\ Idle.op = "none"
BY DEF Idle, Calls
LEMMA FreadCall ==
  ASSUME NEW at \in {"cur", "end", "set"}, NEW short \in BOOLEAN, NEW cur \in Nat, NEW end \in Nat
  PROVE  /\ InFread(at, short, cur, end) \in Calls /\ InFread(at, short, cur, end).op = "fread"
         /\ InFread(at, short, cur, end).at = at /\ InFread(at, short, cur, end).short = short
         /\ InFread(at, short, cur, end).cur = cur /\ InFread(at, short, cur, end).end = end
         /\ InFread(at, short, cur, end) # Idle
BY DEF InFread, Calls, Idle
LEMMA LineCall ==
  ASSUME NEW text \in Seq(STRING), NEW cap \in Nat, NEW tiny \in BOOLEAN, NEW own \in BOOLEAN,
         NEW c, c = InLine(text, cap, tiny, own)
  PROVE  c \in Calls /\ c.op = "getdelim" /\ c # Idle /\ c.text = text /\ c.cap = cap /\ c.tiny = tiny
BY DEF InLine, Calls, Idle
LEMMA Same1 ==
  ASSUME Types, NEW f \in Fd
  PROVE  /\ call = [call EXCEPT ![f] = call[f]] /\ seen = [seen EXCEPT ![f] = seen[f]]
         /\ eof = [eof EXCEPT ![f] = eof[f]] /\ eof[f] \in BOOLEAN /\ seen[f] \in Seq(STRING) /\ call[f] \in Calls
BY DEF Types

\* fgetc, and the first step of fread.
LEMMA FgetcKeeps == ASSUME Inv, NEW f \in Fd, Fgetc(f), ~LibcStream(f) PROVE Inv'
<1>1. PICK b : b = Got(f, files[f].off, 1)
  OBVIOUS
<1>2. /\ call[f] = Idle /\ Reading(f) /\ GoRead(f, 1) /\ seen' = [seen EXCEPT ![f] = seen[f] \o b]
      /\ eof' = [eof EXCEPT ![f] = eof[f] \/ b = <<>>] /\ UNCHANGED <<err, call>>
  BY <1>1 DEF Fgetc, Ready, Free, Reads, Reading, OnFile, Gives, Flag
<1>3. call[f].op = "none" /\ Place(f) = files[f].off
  BY <1>2, IdleCall DEF Place
<1>4. PICK w : w = seen[f] \o b
  OBVIOUS
<1>5. seen' = [seen EXCEPT ![f] = w] /\ call' = [call EXCEPT ![f] = Idle] /\ (eof[f] \/ b = <<>>) \in BOOLEAN
      /\ (b \in Seq(STRING) => w \in Seq(STRING))
  BY <1>2, <1>4, Same1 DEF Inv
<1>6. PICK e \in BOOLEAN : e = (eof[f] \/ b = <<>>)
  BY <1>5
<1>7. "ff" \notin Range(Passed(f)) => Passed(f) = seen[f]
  BY <1>2, <1>3 DEF Inv, Stream, Given
<1>8. PICK c \in Calls : c = Idle /\ c.op = "none"
  BY IdleCall
<1>9. /\ eof' = [eof EXCEPT ![f] = e] /\ call' = [call EXCEPT ![f] = c] /\ UNCHANGED err
      /\ c.op # "fread" /\ c.op # "getdelim"
  BY <1>2, <1>5, <1>6, <1>8
<1>10. PICK n \in Nat : n = 1
  OBVIOUS
<1>11. Begun(c, f, b, n) /\ RoomIn(c)
  BY <1>8 DEF Begun, RoomIn
<1>12. Told(c, f, b, w)
  BY <1>4, <1>7, <1>8 DEF Told
<1>13. GoRead(f, n) /\ b = Got(f, files[f].off, n)
  BY <1>1, <1>2, <1>10
<1>14. Reading(f) /\ seen' = [seen EXCEPT ![f] = w] /\ (b \in Seq(STRING) => w \in Seq(STRING)) /\ e \in BOOLEAN
  BY <1>2, <1>5, <1>6
<1> QED
  BY <1>3, <1>8, <1>9, <1>11, <1>12, <1>13, <1>14, <1>10, AfterRead

LEMMA FreadReadKeeps ==
  ASSUME Inv, NEW f \in Fd, NEW size \in 1..2, NEW nmemb \in 1..2, FreadRead(f, size, nmemb), ~LibcStream(f)
  PROVE  Inv'
<1>0. PICK n \in Nat : n = size * nmemb
  OBVIOUS
<1>1. PICK b : b = Got(f, files[f].off, n)
  OBVIOUS
<1>2. PICK end : end = Len(Bytes(f))
  OBVIOUS
<1>3. PICK c : c = IF Len(b) = nmemb THEN Idle ELSE InFread("cur", Len(b) < n, 0, end)
  OBVIOUS
<1>4. PICK w : w = seen[f] \o b
  OBVIOUS
<1>5. /\ call[f] = Idle /\ Reading(f) /\ GoRead(f, n) /\ seen' = [seen EXCEPT ![f] = w]
      /\ call' = [call EXCEPT ![f] = c] /\ UNCHANGED <<eof, err>>
  BY <1>0, <1>1, <1>2, <1>3, <1>4 DEF FreadRead, Ready, Free, Reads, Reading, OnFile, Gives
<1>6. call[f].op = "none" /\ Place(f) = files[f].off
  BY <1>5, IdleCall DEF Place
<1>7. eof' = [eof EXCEPT ![f] = eof[f]] /\ eof[f] \in BOOLEAN /\ seen[f] \in Seq(STRING)
  BY <1>5, Same1 DEF Inv
<1>8. "ff" \notin Range(Passed(f)) => Passed(f) = seen[f]
  BY <1>5, <1>6 DEF Inv, Stream, Given
<1>9. end \in Nat
  BY <1>2, <1>5 DEF Inv, Types, Reading, Bytes
<1>10. /\ c \in Calls /\ c.op # "getdelim"
       /\ c.op = "fread" => c.at = "cur" /\ c.end = end /\ (c.short => Len(b) < n)
  <2>1. CASE c = Idle
    BY <2>1, IdleCall
  <2>2. CASE c = InFread("cur", TRUE, 0, end) /\ Len(b) < n
    BY <1>9, <2>2 DEF InFread, Calls, Idle
  <2>3. CASE c = InFread("cur", FALSE, 0, end)
    BY <1>9, <2>3 DEF InFread, Calls, Idle
  <2>4. (Len(b) < n) = TRUE \/ (Len(b) < n) = FALSE
    OBVIOUS
  <2> QED
    BY <1>3, <2>1, <2>2, <2>3, <2>4
<1>11. b \in Seq(STRING) => w \in Seq(STRING)
  BY <1>4, <1>7
<1>12. Begun(c, f, b, n) /\ RoomIn(c)
  BY <1>2, <1>10 DEF Begun, RoomIn
<1>13. Told(c, f, b, w)
  BY <1>4, <1>8, <1>10 DEF Told
<1> QED
  BY <1>0, <1>1, <1>5, <1>6, <1>7, <1>10, <1>11, <1>12, <1>13, AfterRead

\* A line: the call that getdelim is in, and what it reads.
LEMMA LineFacts ==
  ASSUME Inv, NEW f \in Fd, InCall(f), GoRead(f, 1)
  PROVE  /\ call[f].text \in Seq(STRING) /\ call[f].cap \in Nat
         /\ call[f].tiny \in BOOLEAN /\ call[f].own \in BOOLEAN
         /\ ~call[f].tiny => Len(call[f].text) + 2 <= call[f].cap
         /\ Reading(f) /\ Place(f) = files[f].off /\ seen[f] \in Seq(STRING)
         /\ "ff" \notin Range(Passed(f)) => Passed(f) = seen[f] \o call[f].text
         /\ Got(f, files[f].off, 1) \in Seq(STRING) /\ Len(Got(f, files[f].off, 1)) \in 0..1
<1>1. call[f].op = "getdelim" /\ call[f] \in Calls /\ seen[f] \in Seq(STRING)
  BY DEF InCall, Inv, Types
<1>2. /\ call[f].text \in Seq(STRING) /\ call[f].cap \in Nat /\ call[f] # Idle
      /\ call[f].tiny \in BOOLEAN /\ call[f].own \in BOOLEAN
  BY <1>1 DEF Calls, Idle
<1>3. Reading(f) /\ Place(f) = files[f].off /\ Given(f) /\ LineRoom(f)
  BY <1>1, <1>2 DEF Inv, Stream, Place
<1>4. PICK b, n : b = Got(f, files[f].off, 1) /\ n = 1
  OBVIOUS
<1>5. n \in Nat /\ GoRead(f, n) /\ b = Got(f, files[f].off, n)
  BY <1>4
<1>6. b \in Seq(STRING) /\ Len(b) \in 0..n
  BY <1>3, <1>5, ReadOn
<1> QED
  BY <1>1, <1>2, <1>3, <1>4, <1>6 DEF Given, LineRoom

\* Its steps: a character more, the end of the file, byte 255.
LEMMA LineKeeps == ASSUME Inv, NEW f \in Fd, LineChar(f) \/ LineEnds(f) \/ LineCut(f) PROVE Inv'
<1>1. PICK n \in Nat : n = 1
  OBVIOUS
<1>2. PICK b : b = Got(f, files[f].off, 1)
  OBVIOUS
<1>3. PICK text : text = call[f].text
  OBVIOUS
<1>4. /\ GoRead(f, 1) /\ InCall(f) /\ UNCHANGED err
  BY DEF LineChar, LineEnds, LineCut
<1>5. /\ text \in Seq(STRING) /\ call[f].cap \in Nat /\ (~call[f].tiny => Len(text) + 2 <= call[f].cap)
      /\ Reading(f) /\ Place(f) = files[f].off /\ seen[f] \in Seq(STRING)
      /\ "ff" \notin Range(Passed(f)) => Passed(f) = seen[f] \o text
      /\ b \in Seq(STRING) /\ Len(b) \in 0..1
  BY <1>2, <1>3, <1>4, LineFacts
<1>6. GoRead(f, n) /\ b = Got(f, files[f].off, n)
  BY <1>1, <1>2, <1>4
<1>7. eof = [eof EXCEPT ![f] = eof[f]] /\ seen = [seen EXCEPT ![f] = seen[f]] /\ eof[f] \in BOOLEAN
  BY Same1 DEF Inv
<1>8. PICK idle \in Calls : idle = Idle /\ idle.op = "none"
  BY IdleCall
<1>9. Begun(idle, f, b, n) /\ RoomIn(idle)
  BY <1>8 DEF Begun, RoomIn
<1>10. CASE LineChar(f)
  <2>0. (seen[f] \o text) \o b = seen[f] \o (text \o b)
    <3>1. PICK v \in Seq(STRING) : v = seen[f]
      BY <1>5
    <3>2. v \in Seq(STRING) /\ text \in Seq(STRING) /\ b \in Seq(STRING)
      BY <1>5, <3>1
    <3>3. (v \o text) \o b = v \o (text \o b)
      BY <3>2, ConcatAssociative
    <3> QED
      BY <3>1, <3>3
  <2>1. PICK more : more = text \o b
    OBVIOUS
  <2>2. more \in Seq(STRING) /\ Len(more) = Len(text) + Len(b) /\ Len(more) \in Nat /\ Len(text) \in Nat
    BY <1>5, <2>1
  <2>3. eof' = [eof EXCEPT ![f] = eof[f]]
    BY <1>7, <1>10 DEF LineChar
  <2>4. CASE b = <<"nl">>
    <3>1. PICK w : w = seen[f] \o more
      OBVIOUS
    <3>2. w \in Seq(STRING)
      BY <1>5, <2>2, <3>1
    <3>3. call' = [call EXCEPT ![f] = idle] /\ seen' = [seen EXCEPT ![f] = w]
      BY <1>2, <1>3, <1>8, <1>10, <2>1, <2>4, <3>1 DEF LineChar, Return, Gives
    <3>4. (seen[f] \o text) \o b = w
      BY <2>0, <2>1, <3>1
    <3>5. Told(idle, f, b, w)
      BY <1>5, <1>8, <3>4 DEF Told
    <3> QED
      BY <1>1, <1>4, <1>5, <1>6, <1>7, <1>8, <1>9, <2>3, <3>2, <3>3, <3>5, AfterRead
  <2>5. CASE b # <<"nl">>
    <3>1. PICK cap \in Nat : cap = Grown(Len(more), call[f].cap)
      BY <1>5, <2>2 DEF Grown
    <3>2. ~call[f].tiny => Len(more) + 2 <= cap
      <4>0. SUFFICES ASSUME ~call[f].tiny PROVE Len(more) + 2 <= cap
        OBVIOUS
      <4>1. PICK k \in Nat, m \in Nat, old \in Nat : k = Len(more) /\ m = Len(text) /\ old = call[f].cap
        BY <1>5, <2>2
      <4>2. m + 2 <= old /\ k <= m + 1
        <5>0. Len(b) \in 0..1
          BY <1>2, <1>4, LineFacts
        <5>1. PICK l \in 0..1 : l = Len(b)
          BY <5>0
        <5>2. k = m + l /\ m + 2 <= old
          BY <1>5, <2>2, <4>0, <4>1, <5>1
        <5>3. l = 0 \/ l = 1
          BY <5>1
        <5> QED
          BY <4>1, <5>2, <5>3
      <4>3. cap = IF k + 2 >= old THEN 2 * old ELSE old
        BY <3>1, <4>1 DEF Grown
      <4>4. k + 2 <= cap
        BY <4>2, <4>3
      <4> QED
        BY <4>1, <4>4
    <3>2a. PICK own \in BOOLEAN : own = (call[f].own /\ cap = call[f].cap)
      OBVIOUS
    <3>2b. PICK tiny \in BOOLEAN : tiny = call[f].tiny
      BY <1>4, LineFacts
    <3>3. PICK c \in Calls : /\ c = InLine(more, cap, tiny, own) /\ c.op = "getdelim" /\ c.text = more
                             /\ c.cap = cap /\ c.tiny = tiny
      BY <2>2, <3>1, LineCall
    <3>4. PICK w : w = seen[f]
      OBVIOUS
    <3>5. call' = [call EXCEPT ![f] = c] /\ seen' = [seen EXCEPT ![f] = w] /\ w \in Seq(STRING)
      <4>1. call' = [call EXCEPT ![f] = InLine(more, cap, call[f].tiny, call[f].own /\ cap = call[f].cap)]
        BY <1>2, <1>3, <1>10, <2>1, <2>5, <3>1 DEF LineChar
      <4>2. UNCHANGED seen
        BY <1>2, <1>10, <2>5 DEF LineChar
      <4> QED
        BY <1>5, <1>7, <3>2a, <3>2b, <3>3, <3>4, <4>1, <4>2
    <3>6. (seen[f] \o text) \o b = w \o more
      BY <2>0, <2>1, <3>4
    <3>7. Told(c, f, b, w)
      BY <1>5, <3>3, <3>6 DEF Told
    <3>8. Begun(c, f, b, n) /\ RoomIn(c)
      BY <3>2, <3>2b, <3>3 DEF Begun, RoomIn
    <3>9. Reading(f) /\ Place(f) = files[f].off /\ eof[f] \in BOOLEAN /\ UNCHANGED err
      BY <1>4, <1>5, <1>7
    <3> QED
      BY <1>1, <1>6, <2>3, <3>3, <3>5, <3>7, <3>8, <3>9, AfterRead
  <2> QED
    BY <2>4, <2>5
<1>11. CASE LineEnds(f)
  <2>1. PICK w : w = seen[f] \o text
    OBVIOUS
  <2>2. w \in Seq(STRING) /\ b = <<>> /\ TRUE \in BOOLEAN
    BY <1>2, <1>5, <1>11, <2>1 DEF LineEnds
  <2>3. call' = [call EXCEPT ![f] = idle] /\ seen' = [seen EXCEPT ![f] = w]
    BY <1>3, <1>8, <1>11, <2>1 DEF LineEnds, Return, Gives
  <2>4. eof' = [eof EXCEPT ![f] = TRUE]
    BY <1>11 DEF LineEnds, Flag
  <2>5. w \o b = w
    BY <2>2, ConcatEmptySeq
  <2>6. Told(idle, f, b, w)
    BY <1>5, <1>8, <2>1, <2>2, <2>5 DEF Told
  <2>7. w \in Seq(STRING) /\ TRUE \in BOOLEAN
    BY <2>2
  <2> QED
    BY <1>1, <1>4, <1>5, <1>6, <1>8, <1>9, <2>3, <2>4, <2>6, <2>7, AfterRead
<1>12. CASE LineCut(f)
  <2>1. PICK got \in Seq(STRING) : got = IF eof[f] THEN text ELSE <<>>
    <3>1. <<>> \in Seq(STRING)
      OBVIOUS
    <3>2. eof[f] = TRUE \/ eof[f] = FALSE
      BY <1>7
    <3> QED
      BY <1>5, <3>1, <3>2
  <2>2. PICK w : w = seen[f] \o got
    OBVIOUS
  <2>3. w \in Seq(STRING) /\ b = <<"ff">>
    BY <1>2, <1>5, <1>12, <2>1, <2>2 DEF LineCut
  <2>4. call' = [call EXCEPT ![f] = idle] /\ seen' = [seen EXCEPT ![f] = w]
    BY <1>3, <1>8, <1>12, <2>1, <2>2 DEF LineCut, Return, Gives
  <2>5. eof' = [eof EXCEPT ![f] = eof[f]]
    BY <1>7, <1>12 DEF LineCut
  <2>6. Told(idle, f, b, w)
    BY <2>3 DEF Range, Told
  <2> QED
    BY <1>1, <1>4, <1>5, <1>6, <1>7, <1>8, <1>9, <2>3, <2>4, <2>5, <2>6, AfterRead
<1> QED
  BY <1>10, <1>11, <1>12

\* The start of a line: a buffer of more than one byte has room for two.
LEMMA DelimitedKeeps ==
  ASSUME Inv, NEW f \in Fd, NEW cap \in Nat, NEW own \in BOOLEAN, Delimited(f, cap, own)
  PROVE  Inv'
<1>0. PICK tiny \in BOOLEAN : tiny = (cap = 1)
  OBVIOUS
<1>0a. PICK room \in Nat : room = IF cap = 0 THEN BufSiz ELSE cap
  BY StreamAssumption
<1>1. ~tiny => room >= 2
  <2>1. cap # 1 => room >= 2
    BY <1>0a, StreamAssumption
  <2> QED
    BY <1>0, <2>1
<1>2. PICK c \in Calls : /\ c = InLine(<<>>, room, tiny, own) /\ c.op = "getdelim" /\ c.text = <<>>
                         /\ c.cap = room /\ c.tiny = tiny /\ c # Idle
  <2>1. <<>> \in Seq(STRING)
    OBVIOUS
  <2>2. ASSUME NEW text \in Seq(STRING)
        PROVE  \E c \in Calls : /\ c = InLine(text, room, tiny, own) /\ c.op = "getdelim" /\ c.text = text
                                /\ c.cap = room /\ c.tiny = tiny /\ c # Idle
    BY LineCall
  <2> QED
    BY <2>1, <2>2
<1>3. /\ call[f] = Idle /\ Reading(f) /\ call' = [call EXCEPT ![f] = c]
      /\ UNCHANGED <<files, data, eof, err, seen>>
  BY <1>0, <1>0a, <1>2 DEF Delimited, Ready, Free, Reads, Reading, OnFile, fds
<1>4. /\ Types /\ Fits(f) /\ Given(f) /\ call[f].op = "none" /\ call'[f] = c /\ seen[f] \in Seq(STRING)
      /\ call' \in [Fd -> Calls]
  BY <1>3, IdleCall DEF Inv, Stream, Types
<1>5. Types'
  BY <1>3, <1>4 DEF Types
<1>6. Safe
  BY <1>3, <1>4, SafeData
<1>7. Others(f)
  BY <1>3, <1>4 DEF Others, Types
<1>8. /\ Reading(f)' = Reading(f) /\ Bytes(f)' = Bytes(f) /\ Place(f) = files[f].off /\ Place(f)' = files[f].off
      /\ Passed(f)' = Passed(f)
  BY <1>2, <1>3, <1>4 DEF Reading, Bytes, Place, Passed
<1>9. seen[f] \o <<>> = seen[f]
  BY <1>4, ConcatEmptySeq
<1>10. Given(f)'
  BY <1>2, <1>3, <1>4, <1>8, <1>9 DEF Given
<1>11. LineRoom(f)' /\ FreadKnows(f)' /\ Fits(f)'
  BY <1>1, <1>2, <1>3, <1>4, <1>8 DEF LineRoom, FreadKnows, Fits
<1>12. Stream(f)'
  BY <1>3, <1>8, <1>10, <1>11 DEF Stream
<1> QED
  BY <1>5, <1>6, <1>7, <1>12, OneStream

\* A fread on its way: the call it is in, and its stream.
LEMMA FreadFacts ==
  ASSUME Inv, NEW f \in Fd, call[f].op = "fread"
  PROVE  /\ Reading(f) /\ Fits(f) /\ FreadKnows(f) /\ Given(f) /\ f \in DOMAIN files
         /\ \E short \in BOOLEAN, cur \in Nat, end \in Nat : call[f] = InFread(call[f].at, short, cur, end)
         /\ call[f].at \in {"cur", "end", "set"}
         /\ files[f].off \in Nat /\ Bytes(f) \in Seq(STRING) /\ Len(Bytes(f)) \in Nat /\ Types
<1>1. call[f] # Idle /\ call[f] \in Calls
  BY DEF Idle, Inv, Types
<1>2. Reading(f) /\ Fits(f) /\ FreadKnows(f) /\ Given(f) /\ f \in DOMAIN files
  BY <1>1 DEF Inv, Stream, Reading
<1>3. /\ call[f].at \in {"cur", "end", "set"}
      /\ \E short \in BOOLEAN, cur \in Nat, end \in Nat : call[f] = InFread(call[f].at, short, cur, end)
  BY <1>1 DEF Calls, Idle, InFread
<1>4. files[f].off \in Nat /\ Bytes(f) \in Seq(STRING) /\ Types
  BY <1>2 DEF Inv, Types, Bytes
<1> QED
  BY <1>2, <1>3, <1>4

\* Its three calls of lseek: where it is; to the end, where the flag is raised if nothing
\* has come since; and back.
LEMMA FreadCurKeeps == ASSUME Inv, NEW f \in Fd, FreadCur(f) PROVE Inv'
<1>1. /\ call[f].op = "fread" /\ call[f].at = "cur" /\ UNCHANGED <<files, data, eof, err, seen>>
      /\ call' = [call EXCEPT ![f] = [call[f] EXCEPT !.at = "end", !.cur = files[f].off]]
  BY DEF FreadCur, GoFd, fds
<1>2. /\ Reading(f) /\ Fits(f) /\ FreadKnows(f) /\ Given(f) /\ f \in DOMAIN files
      /\ files[f].off \in Nat /\ Bytes(f) \in Seq(STRING) /\ Len(Bytes(f)) \in Nat /\ Types
  BY <1>1, FreadFacts
<1>3. PICK short \in BOOLEAN, cur \in Nat, end \in Nat : call[f] = InFread("cur", short, cur, end)
  BY <1>1, FreadFacts
<1>4. PICK off \in Nat : off = files[f].off
  BY <1>2
<1>5. [call[f] EXCEPT !.at = "end", !.cur = files[f].off] = InFread("end", short, off, end)
  <2>1. PICK c0 : c0 = call[f]
    OBVIOUS
  <2>2. c0 = [op |-> "fread", at |-> "cur", short |-> short, cur |-> cur, end |-> end]
    BY <1>3, <2>1 DEF InFread
  <2>3. [c0 EXCEPT !.at = "end", !.cur = off] = InFread("end", short, off, end)
    <3>1. PICK d : d = [c0 EXCEPT !.at = "end", !.cur = off]
      OBVIOUS
    <3>2. /\ DOMAIN d = {"op", "at", "short", "cur", "end"}
          /\ d.op = "fread" /\ d.at = "end" /\ d.short = short /\ d.cur = off /\ d.end = end
      BY <2>2, <3>1
    <3>3. d = [x \in {"op", "at", "short", "cur", "end"} |-> d[x]]
      BY <2>2, <3>1
    <3> QED
      BY <3>1, <3>2, <3>3 DEF InFread
  <2> QED
    BY <1>4, <2>1, <2>3
<1>6. PICK c : c = InFread("end", short, off, end)
  OBVIOUS
<1>7. c \in Calls /\ c.op = "fread" /\ c.at = "end" /\ c.short = short /\ c.cur = off /\ c.end = end
  BY <1>3, <1>4, <1>6 DEF InFread, Calls
<1>8. call[f].op = "fread" /\ call[f].at = "cur" /\ call[f].short = short /\ call[f].end = end
  BY <1>3 DEF InFread
<1>9. call' = [call EXCEPT ![f] = c] /\ call'[f] = c
  BY <1>1, <1>2, <1>5, <1>6 DEF Types
<1>10. Types'
  BY <1>1, <1>2, <1>7, <1>9 DEF Types
<1>11. Safe
  BY <1>1, <1>2, SafeData
<1>12. Others(f)
  BY <1>1, <1>2, <1>9 DEF Others, Types
<1>13. /\ Reading(f)' = Reading(f) /\ Bytes(f)' = Bytes(f) /\ Place(f) = files[f].off /\ Place(f)' = files[f].off
       /\ Passed(f)' = Passed(f)
  BY <1>1, <1>7, <1>8, <1>9 DEF Reading, Bytes, Place, Passed
<1>14. Given(f)' /\ LineRoom(f)' /\ Fits(f)'
  BY <1>1, <1>2, <1>7, <1>8, <1>9, <1>13 DEF Given, LineRoom, Fits
<1>15. FreadKnows(f)'
  BY <1>1, <1>2, <1>4, <1>7, <1>8, <1>9, <1>13 DEF FreadKnows
<1>16. Stream(f)'
  BY <1>2, <1>13, <1>14, <1>15 DEF Stream
<1> QED
  BY <1>10, <1>11, <1>12, <1>16, OneStream

LEMMA FreadEndKeeps == ASSUME Inv, NEW f \in Fd, FreadEnd(f) PROVE Inv'
<1>1. /\ call[f].op = "fread" /\ call[f].at = "end" /\ UNCHANGED <<data, err, seen>>
      /\ call' = [call EXCEPT ![f] = [call[f] EXCEPT !.at = "set"]]
      /\ MoveTo(f, Len(Bytes(f))) /\ eof' = [eof EXCEPT ![f] = eof[f] \/ call[f].cur = Len(Bytes(f))]
  BY DEF FreadEnd, Flag
<1>2. /\ Reading(f) /\ Fits(f) /\ FreadKnows(f) /\ Given(f) /\ f \in DOMAIN files
      /\ files[f].off \in Nat /\ Bytes(f) \in Seq(STRING) /\ Len(Bytes(f)) \in Nat /\ Types
  BY <1>1, FreadFacts
<1>3. PICK short \in BOOLEAN, cur \in Nat, end \in Nat : call[f] = InFread("end", short, cur, end)
  BY <1>1, FreadFacts
<1>4. [call[f] EXCEPT !.at = "set"] = InFread("set", short, cur, end)
  BY <1>3 DEF InFread
<1>5. PICK c : c = InFread("set", short, cur, end)
  OBVIOUS
<1>6. c \in Calls /\ c.op = "fread" /\ c.at = "set" /\ c.short = short /\ c.cur = cur /\ c.end = end
  BY <1>3, <1>5 DEF InFread, Calls
<1>7. call[f].op = "fread" /\ call[f].at = "end" /\ call[f].short = short /\ call[f].cur = cur /\ call[f].end = end
  BY <1>3 DEF InFread
<1>8. call' = [call EXCEPT ![f] = c] /\ call'[f] = c
  BY <1>1, <1>2, <1>4, <1>5 DEF Types
<1>9. PICK size \in Nat : size = Len(Bytes(f))
  BY <1>2
<1>10. /\ DOMAIN files' = DOMAIN files /\ \A g \in DOMAIN files : g # f => files'[g] = files[g]
       /\ files'[f].off = size /\ files'[f].name = files[f].name /\ files'[f].can = files[f].can /\ FilesOK'
  BY <1>1, <1>2, <1>9, Moved, MovedFiles
<1>11. (eof[f] \/ cur = size) \in BOOLEAN /\ (eof'[f] <=> (eof[f] \/ cur = size)) /\ eof' \in [Fd -> BOOLEAN]
       /\ \A g \in Fd : g # f => eof'[g] = eof[g]
  BY <1>1, <1>2, <1>7, <1>9 DEF Types
<1>12. Types'
  <2>1. /\ err' \in [Fd -> BOOLEAN] /\ seen' \in [Fd -> Seq(STRING)] /\ call' \in [Fd -> Calls]
        /\ \A n \in DOMAIN data' : data'[n] \in Seq(STRING)
    BY <1>1, <1>2, <1>6, <1>8 DEF Types
  <2> QED
    BY <1>10, <1>11, <2>1, TypesFrom
<1>13. Safe
  BY <1>1, <1>2, SafeData
<1>14. Others(f)
  BY <1>1, <1>2, <1>8, <1>10, <1>11 DEF Others, Types
<1>15. Place(f) = files[f].off /\ cur = files[f].off /\ cur <= size
  BY <1>2, <1>7, <1>9 DEF Place, FreadKnows, Fits
<1>16. /\ Reading(f)' /\ Bytes(f)' = Bytes(f) /\ Place(f)' = cur /\ Passed(f)' = Passed(f)
  BY <1>1, <1>2, <1>6, <1>8, <1>10, <1>15 DEF Reading, Bytes, Place, Passed
<1>17. Given(f)' /\ LineRoom(f)'
  BY <1>1, <1>2, <1>6, <1>7, <1>8, <1>16 DEF Given, LineRoom
<1>18. Fits(f)'
  BY <1>9, <1>10, <1>15, <1>16 DEF Fits
<1>19. FreadKnows(f)'
  <2>1. end <= size /\ (short => cur = end)
    BY <1>2, <1>7, <1>9, <1>15 DEF FreadKnows
  <2>2. short => eof'[f] \/ size > end
    BY <1>11, <1>15, <2>1
  <2> QED
    BY <1>6, <1>8, <1>9, <1>16, <2>1, <2>2 DEF FreadKnows
<1>20. Stream(f)'
  BY <1>16, <1>17, <1>18, <1>19 DEF Stream
<1> QED
  BY <1>12, <1>13, <1>14, <1>20, OneStream

LEMMA FreadSetKeeps == ASSUME Inv, NEW f \in Fd, FreadSet(f) PROVE Inv'
<1>1. /\ call[f].op = "fread" /\ call[f].at = "set" /\ UNCHANGED <<data, eof, err, seen>>
      /\ call' = [call EXCEPT ![f] = Idle] /\ MoveTo(f, call[f].cur)
  BY DEF FreadSet
<1>2. /\ Reading(f) /\ Fits(f) /\ FreadKnows(f) /\ Given(f) /\ f \in DOMAIN files
      /\ files[f].off \in Nat /\ Bytes(f) \in Seq(STRING) /\ Len(Bytes(f)) \in Nat /\ Types
  BY <1>1, FreadFacts
<1>3. PICK cur \in Nat : cur = call[f].cur /\ Place(f) = cur
  BY <1>1, <1>2 DEF Place, Fits
<1>4. /\ DOMAIN files' = DOMAIN files /\ \A g \in DOMAIN files : g # f => files'[g] = files[g]
      /\ files'[f].off = cur /\ files'[f].name = files[f].name /\ files'[f].can = files[f].can /\ FilesOK'
  BY <1>1, <1>2, <1>3, Moved, MovedFiles
<1>5. call'[f] = Idle /\ call'[f].op = "none" /\ call' \in [Fd -> Calls]
  BY <1>1, <1>2, IdleCall DEF Types
<1>6. Types'
  BY <1>1, <1>2, <1>4, <1>5, TypesFrom DEF Types
<1>7. Safe
  BY <1>1, <1>2, SafeData
<1>8. Others(f)
  BY <1>1, <1>2, <1>4 DEF Others, Types
<1>9. /\ Reading(f)' /\ Bytes(f)' = Bytes(f) /\ Place(f)' = cur /\ Passed(f)' = Passed(f)
  BY <1>1, <1>2, <1>3, <1>4, <1>5 DEF Reading, Bytes, Place, Passed
<1>10. Given(f)' /\ LineRoom(f)' /\ FreadKnows(f)' /\ Fits(f)'
  BY <1>1, <1>2, <1>3, <1>4, <1>5, <1>9 DEF Given, LineRoom, FreadKnows, Fits
<1>11. Stream(f)'
  BY <1>5, <1>9, <1>10 DEF Stream
<1> QED
  BY <1>6, <1>7, <1>8, <1>11, OneStream

\* A stream with no call that is positioned, others of the process having no part in it.
DataOK == \A n \in DOMAIN data : data[n] \in Seq(STRING)
LEMMA Positioned ==
  ASSUME Inv, NEW f \in Fd, call[f] = Idle, UNCHANGED call, FilesOK', DataOK', Safe, Others(f),
         eof' \in [Fd -> BOOLEAN], err' \in [Fd -> BOOLEAN],
         NEW w, seen' = [seen EXCEPT ![f] = w],
         Reading(f)' => files'[f].off <= Len(Bytes(f)') /\ w = Before(f)',
         ~Reading(f)' => w = <<>>
  PROVE  Inv'
<1>1. w \in Seq(STRING)
  <2>1. CASE Reading(f)'
    <3>1. PICK s : s = Bytes(f)'
      OBVIOUS
    <3>2. s \in Seq(STRING)
      BY <2>1, <3>1 DEF FilesOK, DataOK, Reading, Bytes
    <3>3. PICK o \in Nat : o = files'[f].off
      BY <2>1 DEF FilesOK, Reading
    <3>4. Before(f)' = SubSeq(s, 0 + 1, IF 0 + o <= Len(s) THEN 0 + o ELSE Len(s))
      BY <3>1, <3>3 DEF Before, Got
    <3>5. o <= Len(s)
      BY <2>1, <3>1, <3>3
    <3>6. Before(f)' = SubSeq(s, 1, o) /\ o \in 0..Len(s)
      BY <3>2, <3>3, <3>4, <3>5
    <3>7. \A i \in 1..o : s[i] \in STRING
      BY <3>2, <3>6
    <3>8. SubSeq(s, 1, o) \in Seq(STRING)
      BY <3>7, SubSeqProperties
    <3> QED
      BY <2>1, <3>6, <3>8
  <2>2. CASE ~Reading(f)'
    <3>1. <<>> \in Seq(STRING)
      OBVIOUS
    <3> QED
      BY <2>2, <3>1
  <2> QED
    BY <2>1, <2>2
<1>2. seen' \in [Fd -> Seq(STRING)] /\ seen'[f] = w /\ call' \in [Fd -> Calls] /\ call'[f] = Idle
  BY <1>1 DEF Inv, Types
<1>3. Types'
  BY <1>2, TypesFrom DEF DataOK
<1>4. Stream(f)'
  BY <1>2, <1>3, Put1
<1> QED
  BY <1>3, <1>4, OneStream

\* One that is cleared: opened or closed, or not a reader.
LEMMA ClearedOne ==
  ASSUME Inv, NEW f \in Fd, call[f] = Idle, Clear(f), FilesOK', DataOK', Safe,
         \A g \in Fd \ {f} : /\ g \in DOMAIN files <=> g \in DOMAIN files'
                             /\ g \in DOMAIN files => files'[g] = files[g],
         Reading(f)' => files'[f].off = 0
  PROVE  Inv'
<1>1. /\ eof' = [eof EXCEPT ![f] = FALSE] /\ err' = [err EXCEPT ![f] = FALSE]
      /\ seen' = [seen EXCEPT ![f] = <<>>] /\ UNCHANGED call
  BY DEF Clear
<1>2. eof \in [Fd -> BOOLEAN] /\ err \in [Fd -> BOOLEAN] /\ seen \in [Fd -> Seq(STRING)]
  BY DEF Inv, Types
<1>3. eof' \in [Fd -> BOOLEAN] /\ err' \in [Fd -> BOOLEAN]
  BY <1>1, <1>2
<1>4. Others(f)
  BY <1>1, <1>2 DEF Others
<1>5. ASSUME Reading(f)' PROVE files'[f].off <= Len(Bytes(f)') /\ <<>> = Before(f)'
  <2>1. PICK s : s = Bytes(f)'
    OBVIOUS
  <2>2. s \in Seq(STRING)
    BY <1>5, <2>1 DEF FilesOK, DataOK, Reading, Bytes
  <2>3. files'[f].off = 0
    BY <1>5
  <2>4. Before(f)' = SubSeq(s, 0 + 1, IF 0 + 0 <= Len(s) THEN 0 + 0 ELSE Len(s))
    BY <2>1, <2>3 DEF Before, Got
  <2>5. 0 <= Len(s)
    BY <2>2
  <2>6. Before(f)' = SubSeq(s, 1, 0)
    BY <2>4, <2>5
  <2>7. SubSeq(s, 1, 0) = <<>>
    BY <2>2
  <2> QED
    BY <2>1, <2>3, <2>5, <2>6, <2>7
<1>6. PICK w : w = <<>>
  OBVIOUS
<1>7. seen' = [seen EXCEPT ![f] = w] /\ (Reading(f)' => files'[f].off <= Len(Bytes(f)') /\ w = Before(f)')
  BY <1>1, <1>5, <1>6
<1> QED
  BY <1>1, <1>3, <1>4, <1>6, <1>7, Positioned

\* Nothing moves.
LEMMA Quiet == ASSUME Inv, UNCHANGED <<files, data, streams>> PROVE Inv'
<1>1. Types /\ Types'
  BY DEF Inv, Types, streams
<1> QED
  BY <1>1, SafeData, AllStay DEF streams
LEMMA SameKeeps ==
  ASSUME Inv, Tables', Same, UNCHANGED files, DataOK', Safe
  PROVE  Inv'
<1>1. CASE phase' \in {"over", "gone"}
  <2>1. DOMAIN files' = {}
    BY <1>1 DEF Tables
  <2> QED
    BY <1>1, <2>1, Cleared DEF Same, DataOK
<1>2. CASE phase' \notin {"over", "gone"}
  <2>1. UNCHANGED <<eof, err, call, seen>>
    BY <1>2 DEF Same, streams
  <2>2. Types'
    BY <2>1 DEF Inv, Types, DataOK, Safe
  <2> QED
    BY <2>1, <2>2, AllStay
<1> QED
  BY <1>1, <1>2
LEMMA SameQuiet == ASSUME Inv, Tables', Same, UNCHANGED <<files, data>> PROVE Inv'
<1>1. Safe /\ DataOK'
  BY SafeData DEF Inv, Types, DataOK
<1> QED
  BY <1>1, SameKeeps
LEMMA ExitsKeeps == ASSUME Exits \/ FinalizePdwfs, Same PROVE Inv'
<1>1. phase' \in {"over", "gone"} /\ DOMAIN files' = {} /\ data' = <<>>
  BY GoneFacts
<1> QED
  BY <1>1, Cleared DEF Same

\* What the writers do to the files of the readers: add to them.
LEMMA WriteFacts ==
  ASSUME Types, NEW f \in Fd, NEW off \in Nat, NEW b \in Seq(STRING), GoWrite(f, off, b, Busy)
  PROVE  /\ DOMAIN data' = DOMAIN data /\ DataOK' /\ Safe /\ f \in DOMAIN files
         /\ off + Len(b) <= Len(data'[files[f].name]) /\ files[f].name \in DOMAIN data
<1>1. PICK n : n = files[f].name
  OBVIOUS
<1>2. f \in DOMAIN files /\ n \in DOMAIN data /\ data[n] \in Seq(STRING) /\ Bytes(f) = data[n]
  BY <1>1 DEF GoWrite, OnFile, Types, Bytes
<1>3. PICK s \in Seq(STRING) : s = data[n]
  BY <1>2
<1>4. off <= Len(s) /\ (off < Len(s) => n \notin Busy) /\ data' = [data EXCEPT ![n] = Put(s, off, b)]
  BY <1>1, <1>2, <1>3 DEF GoWrite
<1>5. off \in 0..Len(s)
  BY <1>3, <1>4
<1>6. PICK t : t = Put(s, off, b)
  OBVIOUS
<1>7. t \in Seq(STRING) /\ Len(t) >= off + Len(b) /\ (off = Len(s) => Extends(s, t))
  BY <1>3, <1>5, <1>6, PutFacts
<1>8. DOMAIN data' = DOMAIN data /\ data'[n] = t /\ \A m \in DOMAIN data : m # n => data'[m] = data[m]
  BY <1>2, <1>4, <1>6
<1>9. DataOK'
  BY <1>7, <1>8 DEF DataOK, Types
<1>10. n \in Busy => Extends(data[n], data'[n])
  BY <1>3, <1>4, <1>5, <1>7, <1>8
<1>11. \A m \in DOMAIN data : m # n => Extends(data[m], data'[m])
  BY <1>8 DEF Types, Extends
<1>12. Safe
  BY <1>8, <1>10, <1>11 DEF Safe, Types
<1>13. off + Len(b) \in Nat /\ Len(t) \in Nat
  BY <1>7
<1> QED
  BY <1>1, <1>2, <1>7, <1>8, <1>9, <1>12, <1>13

\* The calls on paths.
LEMMA PathKeeps == ASSUME Inv, Tables', NEW p \in Paths, OnPath(p) PROVE Inv'
<1>0. Same
  BY DEF OnPath
<1>1. CASE LibcPath(p) \/ GoPath(p) \/ \E ps : LibcAt(ps)
  <2>1. UNCHANGED <<files, data>>
    BY <1>1 DEF LibcPath, GoPath, LibcAt, CallNext, fds
  <2> QED
    BY <1>0, <2>1, SameQuiet
<1>2. CASE Exits
  BY <1>0, <1>2, ExitsKeeps
<1>3. CASE Unlink(p) /\ ~LibcPath(p)
  <2>1. PICK n : n = Normal(p)
    OBVIOUS
  <2>2. /\ \A f \in DOMAIN files : files[f].name # n
        /\ data' = Restrict(data, DOMAIN data \ {n}) /\ UNCHANGED files
    BY <1>3, <2>1 DEF Unlink, fds
  <2>3. DOMAIN data' = DOMAIN data \ {n} /\ \A m \in DOMAIN data' : data'[m] = data[m]
    BY <2>2 DEF Restrict
  <2>4. DataOK' /\ \A m \in DOMAIN data : Extends(data[m], data[m])
    BY <2>3 DEF DataOK, Inv, Types, Extends
  <2>5. Safe
    BY <2>2, <2>3, <2>4 DEF Safe, Inv, Types
  <2> QED
    BY <1>0, <2>2, <2>4, <2>5, SameKeeps
<1> QED
  BY <1>1, <1>2, <1>3
     DEF OnPath, Access, Stat, Statfs, Statvfs, MakeDir, RemoveDir, Getxattr, Creat, TruncatePath, Opendir,
         FaccessAt, FxstatAt, UnlinkAt, MkdirAt, RenameAt, Rename, ExitsPath

\* A descriptor of the Go layer that is new has no stream yet.
LEMMA NoCall == ASSUME Inv, NEW f \in Fd, f \notin DOMAIN files PROVE call[f] = Idle
BY DEF Inv, Stream, Reading

\* Those that open: no file is emptied while it is read.
LEMMA OpenedKeeps ==
  ASSUME Inv, Tables, NEW f \in Fd, NEW p \in Opens, NEW can, NEW trunc, Opened(f, p, can, trunc, Busy), Clear(f)
  PROVE  Inv'
<1>1. PICK n : n = Normal(p)
  OBVIOUS
<1>2. /\ f \notin DOMAIN files /\ DOMAIN files' = DOMAIN files \cup {f} /\ files'[f] = Handle(n, 0, can)
      /\ \A g \in DOMAIN files : files'[g] = files[g]
  BY <1>1, OpenedFacts
<1>3. /\ n \in DOMAIN data /\ trunc => n \notin Busy
      /\ data' = [o \in DOMAIN data \cup {n} |-> IF o = n /\ (trunc \/ n \notin DOMAIN data) THEN <<>> ELSE data[o]]
  BY <1>1 DEF Opened
<1>4. files'[f].off = 0 /\ files'[f].name = n /\ files'[f] = Handle(files'[f].name, files'[f].off, files'[f].can)
  BY <1>2 DEF Handle
<1>5. DOMAIN data' = DOMAIN data \cup {n} /\ call[f] = Idle
  BY <1>2, <1>3, NoCall
<1>6. FilesOK'
  BY <1>2, <1>4, <1>5 DEF FilesOK, Inv, Types
<1>7. DataOK'
  <2>1. <<>> \in Seq(STRING)
    OBVIOUS
  <2> QED
    BY <1>3, <2>1 DEF DataOK, Inv, Types
<1>8. Safe
  <2>1. ASSUME NEW m \in DOMAIN data, m \in Busy PROVE data'[m] = data[m]
    BY <1>3, <2>1
  <2>2. \A m \in DOMAIN data : Extends(data[m], data[m])
    BY DEF Inv, Types, Extends
  <2> QED
    BY <1>5, <2>1, <2>2 DEF Safe, Inv, Types
<1>9. \A g \in Fd \ {f} : /\ g \in DOMAIN files <=> g \in DOMAIN files'
                          /\ g \in DOMAIN files => files'[g] = files[g]
  BY <1>2
<1> QED
  BY <1>4, <1>5, <1>6, <1>7, <1>8, <1>9, ClearedOne

LEMMA QuietClear ==
  ASSUME Inv, NEW f \in Fd, call[f] = Idle, Clear(f), UNCHANGED <<files, data>>, f \notin DOMAIN files
  PROVE  Inv'
<1>1. FilesOK' /\ DataOK' /\ Safe /\ ~Reading(f)'
  BY SafeData DEF Inv, Types, FilesOK, DataOK, Reading
<1> QED
  BY <1>1, ClearedOne

\* The flags of a stream that no call is on.
LEMMA FlagsKeep ==
  ASSUME Inv, NEW f \in Fd, call[f] = Idle, UNCHANGED <<files, data, call, seen>>,
         eof' = [eof EXCEPT ![f] = FALSE], err' = [err EXCEPT ![f] = FALSE]
  PROVE  Inv'
<1>1. Types' /\ Safe
  BY SafeData DEF Inv, Types
<1>2. \A g \in Fd : eof[g] => eof'[g] \/ call[g] = Idle
  BY DEF Inv, Types
<1> QED
  BY <1>1, <1>2, StreamStays DEF Inv

LEMMA OpeningKeeps == ASSUME Inv, Tables, Tables', NEW f \in Fd, Opening(f) PROVE Inv'
<1>1. ASSUME NEW p \in Opens, LibcOpen(f, p) \/ OpenFails(f, p) \/ Openat(f, p), Clear(f) PROVE Inv'
  <2>1. f \notin DOMAIN files /\ UNCHANGED <<files, data>>
    BY <1>1 DEF LibcOpen, OpenFails, Openat, Tables, fds
  <2> QED
    BY <1>1, <2>1, NoCall, QuietClear
<1>2. ASSUME NEW p \in Opens, OpenFails(f, p), UNCHANGED streams PROVE Inv'
  BY <1>2, Quiet DEF OpenFails, fds
<1>2a. ASSUME NEW p \in Opens, LibcFreopen(f, p) PROVE Inv'
  BY <1>2a, FlagsKeep DEF LibcFreopen, Free
<1>3. ASSUME NEW p \in Opens, NEW can, NEW trunc, Opened(f, p, can, trunc, Busy), Clear(f) PROVE Inv'
  BY <1>3, OpenedKeeps
<1>4. ASSUME Exits, Same PROVE Inv'
  BY <1>4, ExitsKeeps
<1>5. PICK p \in Opens : \/ (LibcOpen(f, p) \/ OpenFails(f, p) \/ Openat(f, p)) /\ Clear(f)
                         \/ OpenFails(f, p) /\ UNCHANGED streams
                         \/ LibcFreopen(f, p)
                         \/ Exits /\ Same
                         \/ Clear(f) /\ \E trunc \in BOOLEAN : Opened(f, p, {"r", "w"}, trunc, Busy)
                         \/ Clear(f) /\ (Opened(f, p, {"r"}, FALSE, Busy) \/ Opened(f, p, {"w"}, TRUE, Busy))
  BY DEF Opening, Open, Fopen, Freopen, ExitsPath
<1> QED
  BY <1>1, <1>2, <1>2a, <1>3, <1>4, <1>5

\* Those that close, or clear the flags.
LEMMA FcloseKeeps == ASSUME Inv, Tables, NEW f \in Fd, Fclose(f) PROVE Inv'
<1>1. call[f] = Idle /\ Clear(f)
  BY DEF Fclose, Free
<1>2. CASE LibcClose(f)
  <2>1. f \notin DOMAIN files /\ UNCHANGED <<files, data>>
    BY <1>2 DEF LibcClose, ManagedFd, Tables
  <2> QED
    BY <1>1, <2>1, QuietClear
<1>3. CASE GoClose(f)
  <2>1. DOMAIN files' = DOMAIN files \ {f} /\ \A g \in DOMAIN files' : files'[g] = files[g]
    BY <1>3, CloseFacts
  <2>2. UNCHANGED data
    BY <1>3 DEF GoClose
  <2>3. FilesOK' /\ DataOK' /\ Safe /\ ~Reading(f)'
    BY <2>1, <2>2, SafeData DEF Inv, Types, FilesOK, DataOK, Reading
  <2> QED
    BY <1>1, <2>1, <2>3, ClearedOne
<1> QED
  BY <1>2, <1>3 DEF Fclose, Close

LEMMA ClearerrKeeps == ASSUME Inv, NEW f \in Fd, Clearerr(f) PROVE Inv'
BY FlagsKeep DEF Clearerr, Free, wraps, fds

\* Those that write, which a handle for reading only does not.
LEMMA WrittenKeeps ==
  ASSUME Inv, NEW f \in DOMAIN files, NEW b \in Seq(STRING), call[f] = Idle, "w" \in files[f].can,
         GoWrite(f, files[f].off, b, Busy), MoveTo(f, files[f].off + Len(b)),
         UNCHANGED <<eof, call, seen>>, err' \in [Fd -> BOOLEAN]
  PROVE  Inv'
<1>1. f \in Fd /\ files[f].off \in Nat
  BY DEF Inv, Types
<1>2. PICK off \in Nat : off = files[f].off
  BY <1>1
<1>3. PICK to \in Nat : to = off + Len(b)
  OBVIOUS
<1>4. MoveTo(f, to) /\ GoWrite(f, off, b, Busy)
  BY <1>2, <1>3
<1>5. DOMAIN data' = DOMAIN data /\ DataOK' /\ Safe
  BY <1>1, <1>4, WriteFacts DEF Inv
<1>6. /\ DOMAIN files' = DOMAIN files /\ \A g \in DOMAIN files : g # f => files'[g] = files[g]
      /\ files'[f].can = files[f].can /\ FilesOK'
  BY <1>4, <1>5, Moved, MovedFiles DEF Inv
<1>7. Types'
  BY <1>5, <1>6, TypesFrom DEF Inv, Types, DataOK
<1>8. Others(f)
  BY <1>6 DEF Others
<1>9. ~Reading(f)'
  BY <1>6 DEF Reading
<1>10. Stream(f)'
  BY <1>1, <1>7, <1>9, Put1
<1> QED
  BY <1>1, <1>5, <1>7, <1>8, <1>10, OneStream

LEMMA WritesKeeps ==
  ASSUME Inv, NEW f \in Fd, NEW b \in Seq(STRING), NEW n, Writes(f, b, n), ~LibcStream(f)
  PROVE  Inv'
<1>1. /\ call[f] = Idle /\ f \in DOMAIN files /\ files[f].can = {"w"} /\ GoWrite(f, files[f].off, b, Busy)
      /\ UNCHANGED <<eof, call, seen>> /\ MoveTo(f, files[f].off + Len(b))
  BY DEF Writes, Ready, Free, OnFile
<1>2. err' \in [Fd -> BOOLEAN]
  <2>1. err' = [err EXCEPT ![f] = err[f] \/ Len(b) # n] /\ err \in [Fd -> BOOLEAN]
    BY DEF Writes, Flag, Inv, Types
  <2>2. (err[f] \/ Len(b) # n) \in BOOLEAN
    OBVIOUS
  <2> QED
    BY <2>1, <2>2
<1> QED
  BY <1>1, <1>2, WrittenKeeps

\* All calls on streams.
LEMMA StreamingKeeps == ASSUME Inv, Tables, Tables', NEW f \in Fd, Streaming(f) PROVE Inv'
<1>1. ASSUME LibcStream(f) PROVE Inv'
  BY <1>1, Quiet DEF LibcStream, LibcFd, CallNext, fds
<1>2. ASSUME GoFd(f), UNCHANGED streams PROVE Inv'
  BY <1>2, Quiet DEF GoFd, fds
<1>3. ASSUME LibcFd(f), Same PROVE Inv'
  BY <1>3, SameQuiet DEF LibcFd, CallNext, fds
<1>4. ASSUME Exits, Same PROVE Inv'
  BY <1>4, ExitsKeeps
<1>5. ASSUME NEW b \in Texts, NEW n, Writes(f, b, n) PROVE Inv'
  <2>1. b \in Seq(STRING)
    BY StreamAssumption
  <2> QED
    BY <1>1, <1>5, <2>1, WritesKeeps
<1>7. ASSUME NEW size \in 1..2, NEW nmemb \in 1..2, FreadRead(f, size, nmemb) PROVE Inv'
  BY <1>1, <1>7, FreadReadKeeps
<1>8. CASE Fclose(f) \/ Clearerr(f) \/ Fread(f) \/ Fgetc(f) \/ Line(f)
  BY <1>1, <1>4, <1>8, FcloseKeeps, ClearerrKeeps, FreadCurKeeps, FreadEndKeeps, FreadSetKeeps, FgetcKeeps, LineKeeps
     DEF Fread, Line, LineAborts
<1>9. CASE Fflush(f) \/ Fdopen(f) \/ Reposition(f) \/ Characters(f) \/ Rewind(f)
  BY <1>1, <1>2, <1>3, <1>4, <1>9 DEF Fflush, Fdopen, Reposition, Characters, Rewind, Stops, ExitsFd
<1>10. CASE \E b \in Texts : \/ Fputc(f, b) \/ Fputs(f, b) \/ Fprintf(f, b)
                            \/ \E size \in 1..2 : Fwrite(f, b, size)
  BY <1>5, <1>10 DEF Fputc, Fputs, Fprintf, Fwrite
<1>11. CASE \E size, nmemb \in 1..2 : FreadRead(f, size, nmemb)
  BY <1>7, <1>11
<1>12. ASSUME NEW cap \in Caps, Getdelim(f, cap) PROVE Inv'
  <2>1. cap \in Nat /\ FALSE \in BOOLEAN
    BY StreamAssumption
  <2> QED
    BY <1>1, <1>12, <2>1, DelimitedKeeps DEF Getdelim
<1>13. ASSUME NEW max \in Caps, Fgets(f, max) PROVE Inv'
  <2>1. CASE max >= 2 /\ Delimited(f, max - 1, TRUE)
    <3>1. PICK cap \in Nat : cap = max - 1
      BY <2>1, StreamAssumption
    <3>2. Delimited(f, cap, TRUE) /\ TRUE \in BOOLEAN
      BY <2>1, <3>1
    <3> QED
      BY <3>2, DelimitedKeeps
  <2> QED
    BY <1>1, <1>13, <2>1 DEF Fgets
<1> QED
  BY <1>8, <1>9, <1>10, <1>11, <1>12, <1>13 DEF Streaming

\* A file's descriptor that a call on it has moved: for a reader's, what has been seen.
Now(f) == IF f \in DOMAIN files /\ files[f].can = {"r"} THEN Before(f)' ELSE <<>>
LEMMA MovedOn ==
  ASSUME Inv, NEW f \in DOMAIN files, call[f] = Idle, NEW off \in Nat, MoveTo(f, off),
         DOMAIN data' = DOMAIN data, DataOK', Safe, Reading(f) => off <= Len(data'[files[f].name]),
         seen' = [seen EXCEPT ![f] = Now(f)], UNCHANGED <<eof, err, call>>
  PROVE  Inv'
<1>1. f \in Fd /\ files[f].name \in DOMAIN data /\ eof \in [Fd -> BOOLEAN] /\ err \in [Fd -> BOOLEAN]
      /\ seen \in [Fd -> Seq(STRING)]
  BY DEF Inv, Types
<1>2. /\ DOMAIN files' = DOMAIN files /\ \A g \in DOMAIN files : g # f => files'[g] = files[g]
      /\ files'[f].off = off /\ files'[f].name = files[f].name /\ files'[f].can = files[f].can /\ FilesOK'
  BY Moved, MovedFiles DEF Inv
<1>3. PICK w : w = Now(f)
  OBVIOUS
<1>4. seen' = [seen EXCEPT ![f] = w]
  BY <1>3
<1>5. Others(f)
  BY <1>1, <1>2, <1>4 DEF Others
<1>6. Reading(f)' <=> files[f].can = {"r"}
  BY <1>2 DEF Reading
<1>7. Reading(f)' => w = Before(f)'
  BY <1>3, <1>6 DEF Now
<1>8. ~Reading(f)' => w = <<>>
  BY <1>3, <1>6 DEF Now
<1>9. Bytes(f)' = data'[files[f].name]
  BY <1>1, <1>2 DEF Bytes
<1>10. Reading(f)' => files'[f].off <= Len(Bytes(f)')
  BY <1>2, <1>6, <1>9 DEF Reading
<1> QED
  BY <1>1, <1>2, <1>4, <1>5, <1>7, <1>8, <1>10, Positioned

LEMMA StoodStill ==
  ASSUME Inv, NEW f \in Fd, call[f] = Idle, UNCHANGED <<files, data, eof, err, call>>,
         seen' = [seen EXCEPT ![f] = Now(f)]
  PROVE  Inv'
<1>1. eof \in [Fd -> BOOLEAN] /\ err \in [Fd -> BOOLEAN] /\ seen \in [Fd -> Seq(STRING)]
  BY DEF Inv, Types
<1>2. FilesOK' /\ DataOK' /\ Safe
  BY SafeData DEF Inv, Types, FilesOK, DataOK
<1>3. PICK w : w = Now(f)
  OBVIOUS
<1>4. seen' = [seen EXCEPT ![f] = w]
  BY <1>3
<1>5. Others(f)
  BY <1>1, <1>4 DEF Others
<1>6. (Reading(f)' => w = Before(f)') /\ (~Reading(f)' => w = <<>>)
  BY <1>3 DEF Now, Reading
<1>7. Reading(f)' => files'[f].off <= Len(Bytes(f)')
  BY DEF Inv, Stream, Fits, Reading, Bytes
<1> QED
  BY <1>1, <1>2, <1>4, <1>5, <1>6, <1>7, Positioned

\* The calls on descriptors that move no stream: of what they write, readers see more.
LEMMA FdSameKeeps ==
  ASSUME Inv, Tables, Tables', NEW f \in Fd, call[f] = Idle, Same,
         \/ Fadvise(f) \/ Fstat(f) \/ Sync(f) \/ Ioctl(f) \/ Fstatfs(f) \/ Fstatvfs(f) \/ Pread(f)
         \/ Ftruncate(f, Busy) \/ \E g \in Fd : Dup2(f, g) /\ Free(g)
         \/ \E b \in Texts : \/ Write(f, b, Busy) \/ \E off \in 0..MaxLen : Pwrite(f, off, b, Busy)
  PROVE  Inv'
<1>1. CASE LibcFd(f) \/ GoFd(f) \/ GoRefuses(f, "w")
  <2>1. UNCHANGED <<files, data>>
    BY <1>1 DEF LibcFd, GoFd, GoRefuses, CallNext, fds
  <2> QED
    BY <2>1, SameQuiet
<1>2. CASE Exits
  BY <1>2, ExitsKeeps
<1>3. CASE Ftruncate(f, Busy) /\ ~LibcFd(f)
  <2>1. PICK n : n = files[f].name
    OBVIOUS
  <2>2. n \in DOMAIN data /\ data[n] \in Seq(STRING) /\ Bytes(f) = data[n] /\ n \notin Busy /\ UNCHANGED files
    BY <1>3, <2>1 DEF Ftruncate, OnFile, Inv, Types, Bytes, fds
  <2>3. PICK k \in 0..Len(data[n]) : data' = [data EXCEPT ![n] = SubSeq(@, 1, k)]
    BY <1>3, <2>1, <2>2 DEF Ftruncate
  <2>4. PICK s \in Seq(STRING) : s = data[n]
    BY <2>2
  <2>5. k \in 0..Len(s)
    BY <2>3, <2>4
  <2>6. \A i \in 1..k : s[i] \in STRING
    BY <2>5
  <2>7. SubSeq(s, 1, k) \in Seq(STRING)
    BY <2>6, SubSeqProperties
  <2>8. DOMAIN data' = DOMAIN data /\ data'[n] \in Seq(STRING) /\ \A m \in DOMAIN data : m # n => data'[m] = data[m]
    BY <2>2, <2>3, <2>4, <2>7
  <2>9. DataOK'
    BY <2>8 DEF DataOK, Inv, Types
  <2>9a. \A m \in DOMAIN data : Extends(data[m], data[m])
    BY DEF Inv, Types, Extends
  <2>10. Safe
    BY <2>2, <2>8, <2>9a DEF Safe, Inv, Types
  <2> QED
    BY <2>2, <2>9, <2>10, SameKeeps
<1>4. ASSUME NEW g \in Fd, Dup2(f, g) PROVE Inv'
  <2>1. UNCHANGED <<files, data>> \/ Exits
    BY <1>4 DEF Dup2, ExitsFd
  <2> QED
    BY <1>2, <2>1, SameQuiet
<1>5. ASSUME NEW b \in Texts, Write(f, b, Busy), ~LibcFd(f), ~GoRefuses(f, "w") PROVE Inv'
  <2>1. /\ f \in DOMAIN files /\ "w" \in files[f].can /\ GoWrite(f, files[f].off, b, Busy)
        /\ MoveTo(f, files[f].off + Len(b))
    BY <1>5 DEF Write
  <2>2. phase' \notin {"over", "gone"}
    BY <2>1 DEF GoWrite, OnFile
  <2>3. UNCHANGED <<eof, err, call, seen>>
    BY <2>2 DEF Same, streams
  <2>4. b \in Seq(STRING) /\ err' \in [Fd -> BOOLEAN]
    BY <2>3, StreamAssumption DEF Inv, Types
  <2> QED
    BY <2>1, <2>3, <2>4, WrittenKeeps
<1>6. ASSUME NEW b \in Texts, NEW off \in 0..MaxLen, Pwrite(f, off, b, Busy), ~LibcFd(f) PROVE Inv'
  <2>1. b \in Seq(STRING) /\ off \in Nat /\ GoWrite(f, off, b, Busy) /\ UNCHANGED files
    BY <1>6, StreamAssumption DEF Pwrite
  <2>2. DataOK' /\ Safe
    BY <2>1, WriteFacts DEF Inv
  <2> QED
    BY <2>1, <2>2, SameKeeps
<1> QED
  BY <1>1, <1>2, <1>3, <1>4, <1>5, <1>6
     DEF Fadvise, Fstat, Sync, Ioctl, Fstatfs, Fstatvfs, Pread, ExitsFd

\* Those that move it.
LEMMA FdMovesKeeps ==
  ASSUME Inv, Tables, NEW f \in Fd, call[f] = Idle,
         seen' = [seen EXCEPT ![f] = Now(f)], UNCHANGED <<eof, err, call>>,
         \/ \E to \in 0..1 : Lseek(f, to)
         \/ \E n \in 1..2 : Read(f, n)
         \/ \E b \in Texts : Vectors(f, b, Busy)
  PROVE  Inv'
<1>1. CASE LibcFd(f) \/ GoRefuses(f, "r")
  <2>1. UNCHANGED <<files, data>>
    BY <1>1 DEF LibcFd, GoRefuses, CallNext, fds
  <2> QED
    BY <2>1, StoodStill
<1>2. ASSUME NEW to \in 0..1, Lseek(f, to), ~LibcFd(f) PROVE Inv'
  <2>1. f \in DOMAIN files /\ to <= Len(Bytes(f)) /\ MoveTo(f, to) /\ UNCHANGED data
    BY <1>2 DEF Lseek, OnFile
  <2>2. DataOK' /\ Safe /\ Bytes(f) = data'[files[f].name] /\ to \in Nat
    BY <2>1, SafeData DEF Inv, Types, DataOK, Bytes
  <2> QED
    BY <2>1, <2>2, MovedOn
<1>3. ASSUME NEW n \in Nat, OnFile(f), UNCHANGED <<phase, register, app, data>>,
             MoveTo(f, files[f].off + Len(Got(f, files[f].off, n)))
      PROVE  Inv'
  <2>1. f \in DOMAIN files /\ files[f].off \in Nat /\ Bytes(f) \in Seq(STRING)
        /\ Bytes(f) = data'[files[f].name]
    BY <1>3 DEF OnFile, Inv, Types, Bytes
  <2>2. PICK b : b = Got(f, files[f].off, n)
    OBVIOUS
  <2>3. b \in Seq(STRING)
    BY <2>1, <2>2, GotNat
  <2>4. PICK o \in Nat : o = files[f].off
    BY <2>1
  <2>5. PICK to \in Nat : to = o + Len(b)
    BY <2>3
  <2>6. Reading(f) => to <= Len(data'[files[f].name])
    <3>1. SUFFICES ASSUME Reading(f) PROVE to <= Len(data'[files[f].name])
      OBVIOUS
    <3>2. o <= Len(Bytes(f))
      BY <2>4, <3>1 DEF Inv, Stream, Fits
    <3>3. PICK s \in Seq(STRING) : s = Bytes(f)
      BY <2>1
    <3>4. o <= Len(s) /\ b = Got(f, o, n)
      BY <2>2, <2>4, <3>2, <3>3
    <3>5. o + Len(b) \in 0..Len(s)
      BY <3>3, <3>4, GotFacts
    <3> QED
      BY <2>1, <2>5, <3>3, <3>5
  <2>7. MoveTo(f, to)
    BY <1>3, <2>2, <2>4, <2>5
  <2>8. DataOK' /\ Safe
    BY <1>3, SafeData DEF Inv, Types, DataOK
  <2> QED
    BY <1>3, <2>1, <2>6, <2>7, <2>8, MovedOn
<1>4. ASSUME NEW n \in 1..2, Read(f, n), ~LibcFd(f), ~GoRefuses(f, "r") PROVE Inv'
  <2>1. n \in Nat /\ GoRead(f, n)
    BY <1>4 DEF Read
  <2> QED
    BY <1>3, <2>1 DEF GoRead
<1>5. ASSUME NEW b \in Texts, Vectors(f, b, Busy), ~LibcFd(f) PROVE Inv'
  <2>1. b \in Seq(STRING) /\ Len(b) \in Nat
    BY StreamAssumption
  <2>2. CASE /\ OnFile(f) /\ MoveTo(f, files[f].off + Len(Got(f, files[f].off, Len(b))))
             /\ UNCHANGED <<phase, register, app, data>>
    BY <1>3, <2>1, <2>2
  <2>3. CASE f \in DOMAIN files /\ GoWrite(f, files[f].off, b, Busy) /\ MoveTo(f, files[f].off + Len(b))
    <3>1. PICK off \in Nat : off = files[f].off
      BY <2>3 DEF Inv, Types
    <3>2. PICK to \in Nat : to = off + Len(b)
      BY <2>1
    <3>3. GoWrite(f, off, b, Busy) /\ MoveTo(f, to)
      BY <2>3, <3>1, <3>2
    <3>4. DOMAIN data' = DOMAIN data /\ DataOK' /\ Safe /\ to <= Len(data'[files[f].name])
      BY <2>1, <3>2, <3>3, WriteFacts DEF Inv
    <3> QED
      BY <2>3, <3>3, <3>4, MovedOn
  <2> QED
    BY <1>5, <2>2, <2>3 DEF Vectors
<1> QED
  BY <1>1, <1>2, <1>4, <1>5

\* All calls on descriptors.
LEMMA FdKeeps == ASSUME Inv, Tables, Tables', NEW f \in Fd, OnFd(f) PROVE Inv'
<1>1. call[f] = Idle
  BY DEF OnFd, Free
<1>2. CASE Same /\ \/ Fadvise(f) \/ Fstat(f) \/ Sync(f) \/ Ioctl(f) \/ Fstatfs(f) \/ Fstatvfs(f) \/ Pread(f)
                   \/ Ftruncate(f, Busy) \/ \E g \in Fd : Dup2(f, g) /\ Free(g)
                   \/ \E b \in Texts : \/ Write(f, b, Busy) \/ \E off \in 0..MaxLen : Pwrite(f, off, b, Busy)
  BY <1>1, <1>2, FdSameKeeps
<1>3. CASE /\ seen' = [seen EXCEPT ![f] = Now(f)] /\ UNCHANGED <<eof, err, call>>
           /\ \/ \E to \in 0..1 : Lseek(f, to)
              \/ \E n \in 1..2 : Read(f, n)
              \/ \E b \in Texts : Vectors(f, b, Busy)
  BY <1>1, <1>3, FdMovesKeeps
<1> QED
  BY <1>2, <1>3 DEF OnFd, Now

\* The invariant is kept by every step, and holds at the start.
LEMMA InvStep == ASSUME Tables, Inv, [Next]_vars PROVE Tables' /\ Inv'
<1>1. Tables'
  BY NextKinds, TablesStep DEF Inv
<1>2. CASE UNCHANGED vars
  BY <1>1, <1>2, Quiet DEF vars, wraps, fds
<1>3. CASE InitPdwfs /\ Same
  BY <1>1, <1>3, SameQuiet DEF InitPdwfs, fds
<1>4. CASE FinalizePdwfs /\ Same
  BY <1>1, <1>4, ExitsKeeps
<1> QED
  BY <1>1, <1>2, <1>3, <1>4, PathKeeps, OpeningKeeps, FdKeeps, StreamingKeeps DEF Next

LEMMA InvInit == ASSUME Init PROVE Tables /\ Inv
<1>1. /\ phase = "loading" /\ register = {} /\ files = <<>> /\ data = <<>> /\ astray = {}
      /\ app = [f \in Fd |-> IF f \in Std THEN Libc ELSE NoFile]
      /\ eof = [f \in Fd |-> FALSE] /\ err = [f \in Fd |-> FALSE]
      /\ call = [f \in Fd |-> Idle] /\ seen = [f \in Fd |-> <<>>]
  BY DEF Init, InitWraps, NoStream
<1>2. DOMAIN files = {} /\ DOMAIN data = {}
  BY <1>1
<1>3. Libc # NoFile
  BY DEF Libc, NoFile
<1>4. Tables
  BY <1>1, <1>2, <1>3, InterceptionAssumption DEF Tables
<1>5. Types
  BY <1>1, <1>2 DEF Types, Calls
<1>6. \A f \in Fd : Stream(f)
  BY <1>1, <1>2 DEF Stream, Reading
<1> QED
  BY <1>4, <1>5, <1>6 DEF Inv
-----------------------------------------------------------------------------
\* What holds of every program's streams in each state: the tables agree, and a reader
\* is where its calls have it.
THEOREM StreamsInvariant == Spec => [](Tables /\ Inv)
<1>1. Init => Tables /\ Inv
  BY InvInit
<1>2. Tables /\ Inv /\ [Next]_vars => (Tables /\ Inv)'
  BY InvStep
<1> QED
  BY <1>1, <1>2, PTL DEF Spec

\* Whatever is read a line at a time, the next character and the NUL behind it have room
\* in the buffer, of getdelim's caller, of fgets's or none: it is doubled when two places
\* are left.  A buffer that the call was given with one byte, which has no room for the
\* NUL of an empty line, is excepted (pdwfs.c:1168).
THEOREM LinesAlwaysFit == Spec => []LineFits
<1>1. Inv => LineFits
  <2> SUFFICES ASSUME Inv, NEW f \in Fd, call[f].op = "getdelim", ~call[f].tiny
               PROVE  Len(call[f].text) + 2 <= call[f].cap
    BY DEF LineFits
  <2>1. call[f] # Idle
    BY DEF Idle
  <2> QED
    BY <2>1 DEF Inv, Stream, LineRoom
<1> QED
  BY <1>1, StreamsInvariant, PTL

\* A program whose fread gave less than it asked for, and looks for the end of the file,
\* is told why before the call ends, though others write to the file meanwhile.  Nothing
\* is said of the fread that does not look, because it has read as many bytes as it was
\* asked for elements (pdwfs.c:892).
THEOREM ShortReadsExplained == Spec => []ShortReadExplained
<1>1. Inv => ShortReadExplained
  <2> SUFFICES ASSUME Inv, NEW f \in Fd, call[f].op = "fread", call[f].at = "set", call[f].short
               PROVE  eof[f] \/ Len(Bytes(f)) > call[f].end
    BY DEF ShortReadExplained
  <2>1. call[f] # Idle
    BY DEF Idle
  <2> QED
    BY <2>1 DEF Inv, Stream, FreadKnows
<1> QED
  BY <1>1, StreamsInvariant, PTL

\* Between its calls a reader has been given the bytes of its file up to where it is,
\* each once and in order, whoever writes to the file and however it reads.
THEOREM NothingEverLost == Spec => []NothingLost
<1>1. Inv => NothingLost
  <2> SUFFICES ASSUME Inv, NEW f \in DOMAIN files, call[f] = Idle, files[f].can = {"r"}, "ff" \notin Range(Before(f))
               PROVE  seen[f] = Before(f)
    BY DEF NothingLost, Free
  <2>1. f \in Fd /\ Reading(f) /\ call[f].op = "none"
    BY IdleCall DEF Inv, Types, Reading
  <2>2. Fits(f) /\ Given(f) /\ Place(f) = files[f].off
    BY <2>1 DEF Inv, Stream, Place
  <2>3. PICK s : s = Bytes(f)
    OBVIOUS
  <2>4. PICK o : o = files[f].off
    OBVIOUS
  <2>5. s \in Seq(STRING) /\ o \in Nat /\ o <= Len(s)
    BY <2>1, <2>2, <2>3, <2>4 DEF Inv, Types, Bytes, Fits
  <2>6. Before(f) = SubSeq(s, 0 + 1, IF 0 + o <= Len(s) THEN 0 + o ELSE Len(s))
    BY <2>3, <2>4 DEF Before, Got
  <2>7. Before(f) = SubSeq(s, 1, o)
    BY <2>5, <2>6
  <2>8. Passed(f) = Before(f)
    BY <2>2, <2>3, <2>4, <2>7 DEF Passed
  <2> QED
    BY <2>1, <2>2, <2>8 DEF Given
<1> QED
  BY <1>1, StreamsInvariant, PTL

\* Whatever path or descriptor a call of the program is for, the layer that serves it is
\* the one that has its file, of paths that resolve to what they stand for and mount
\* points that are not inside of each other; but a call that starts from a descriptor
\* and names something below a mount point, and one on a stream that freopen has given
\* a file of libc's.
THEOREM LayersAlwaysRight == ASSUME Resolved PROVE Spec => []RightLayer
<1>1. Init => Tables /\ Inv /\ Layers
  <2> SUFFICES ASSUME Init PROVE Layers
    BY InvInit
  <2>1. /\ register = {} /\ astray = {}
        /\ app = [f \in Fd |-> IF f \in Std THEN Libc ELSE NoFile]
    BY DEF Init, InitWraps
  <2>2. Home(Libc) = Libc
    BY DEF Resolved
  <2> QED
    BY <2>1, <2>2 DEF Layers, RightLayer
<1>2. Tables /\ Inv /\ Layers /\ [Next]_vars => (Tables /\ Inv /\ Layers)'
  BY InvStep, NextKinds, LayersStep DEF Inv
<1>3. Tables /\ Inv /\ Layers => RightLayer
  BY DEF Layers, RightLayer
<1> QED
  BY <1>1, <1>2, <1>3, PTL DEF Spec
=============================================================================
