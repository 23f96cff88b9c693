------------------------------- MODULE Streams ------------------------------
(***************************************************************************)
(* The calls on streams that libpdwfs has of its own (src/c/pdwfs.c).  A   *)
(* FILE of pdwfs is the one of the twin file: of it only the descriptor    *)
(* and the two flags are used, nothing is buffered, and each call makes    *)
(* one or more calls of the Go layer, which other calls come between: each *)
(* of those is a step, and so is each character of a line that is read.    *)
(*                                                                         *)
(* libc would lock the stream; here nothing does, and a program uses a     *)
(* stream from one thread at a time.                                       *)
(***************************************************************************)
EXTENDS Interception

CONSTANTS Paths,          \* the paths the program uses
          Opens,          \* those it opens
          Texts,          \* what it writes in one call
          Caps,           \* the sizes of the buffers it reads lines into
          BufSiz          \* BUFSIZ
ASSUME StreamAssumption ==
  BufSiz \in Nat /\ BufSiz >= 2 /\ Opens \subseteq Paths /\ Texts \subseteq Seq(STRING)
  /\ Caps \subseteq Nat
  /\ \A p \in Opens : Normal(p) # NoFile              \* not the root directory

VARIABLES
  eof, err,    \* the flags of each stream
  call,        \* the call in progress on each stream
  seen         \* the bytes each has given the program since it was last positioned
streams == <<eof, err, call, seen>>
vars == <<wraps, streams>>

Idle == [op |-> "none"]
InFread(at, short, cur, end) == [op |-> "fread", at |-> at, short |-> short, cur |-> cur, end |-> end]
\* tiny: it began with a buffer of one byte; own: it still has fgets's caller's buffer
InLine(text, cap, tiny, own) ==
  [op |-> "getdelim", text |-> text, cap |-> cap, tiny |-> tiny, own |-> own]

NoStream == <<[f \in Fd |-> FALSE], [f \in Fd |-> FALSE], [f \in Fd |-> Idle], [f \in Fd |-> <<>>]>>
Init == /\ InitWraps
        /\ eof = NoStream[1] /\ err = NoStream[2] /\ call = NoStream[3] /\ seen = NoStream[4]
\* None is left when the process ends, or the library.
Same == IF phase' \in {"over", "gone"}
        THEN eof' = NoStream[1] /\ err' = NoStream[2] /\ call' = NoStream[3] /\ seen' = NoStream[4]
        ELSE UNCHANGED streams

\* The files of which a stream has given the program some bytes already.
Busy == {files[f].name : f \in {g \in DOMAIN files : /\ files[g].can = {"r"}
                                                    /\ (files[g].off > 0 \/ call[g] # Idle)}}
Free(f) == call[f] = Idle
\* The program's streams are fopen's, for one direction each, which it keeps to; the
\* FILE behind a descriptor of open it does not know.
Ready(f, ways) == Free(f) /\ OnFile(f) /\ files[f].can \in ways
Reads == {{"r"}}
Either == {{"r"}, {"w"}}
Flag(flags, f, on) == flags' = [flags EXCEPT ![f] = flags[f] \/ on]
Gives(f, b) == seen' = [seen EXCEPT ![f] = seen[f] \o b]
Clear(f) == /\ eof' = [eof EXCEPT ![f] = FALSE] /\ err' = [err EXCEPT ![f] = FALSE]
            /\ seen' = [seen EXCEPT ![f] = <<>>] /\ UNCHANGED call
LibcStream(f) == Free(f) /\ LibcFd(f) /\ UNCHANGED streams
-----------------------------------------------------------------------------
(* fopen, fclose, fflush *)

Fopen(f, p) == \/ LibcOpen(f, p) /\ Clear(f)
               \/ OpenFails(f, p) /\ UNCHANGED streams
               \/ Opened(f, p, {"r"}, FALSE, Busy) /\ Normal(p) \in DOMAIN data /\ Clear(f)
               \/ Opened(f, p, {"w"}, TRUE, Busy) /\ Clear(f)
\* Only the path is looked at.  libc puts the file it opens under the descriptor the
\* stream has, which stays in both tables if it is in them: what is done with it goes
\* on in the Go layer's file, where it was.  Bounds: libc's freopen succeeds, and
\* reopens for the direction the stream had.  freopen64 is an alias of fopen, and
\* leaves the old stream open.
LibcFreopen(f, p) ==
  /\ phase \in {"loading", "up"} /\ ~Managed(p) /\ (phase = "loading" => GoMounts(p) = {})
  /\ Free(f) /\ app[f] # NoFile /\ (f \in DOMAIN files => files[f].can \in Either)
  /\ Served(Libc, Normal(p))
  /\ app' = [app EXCEPT ![f] = IF f \in register THEN Taken ELSE Libc]
  /\ eof' = [eof EXCEPT ![f] = FALSE] /\ err' = [err EXCEPT ![f] = FALSE]
  /\ UNCHANGED <<phase, register, files, data, call, seen>>
Freopen(f, p) == LibcFreopen(f, p) \/ (ExitsPath(p) /\ Same)
Fclose(f) == Free(f) /\ Close(f) /\ Clear(f)
Fflush(f) == LibcStream(f) \/ (Ready(f, Either) /\ GoFd(f) /\ UNCHANGED streams)
Fdopen(f) == LibcStream(f) \/ (ExitsFd(f) /\ Same)
-----------------------------------------------------------------------------
(* Writing: a count other than nmemb raises the error flag, though it is of bytes. *)

Writes(f, b, nmemb) ==
  \/ LibcStream(f)
  \/ /\ Ready(f, {{"w"}}) /\ GoWrite(f, files[f].off, b, Busy) /\ MoveTo(f, files[f].off + Len(b))
     /\ Flag(err, f, Len(b) # nmemb) /\ UNCHANGED <<eof, call, seen>>
Fputc(f, b) == Len(b) = 1 /\ Writes(f, b, 1)
Fwrite(f, b, size) == Len(b) % size = 0 /\ Writes(f, b, Len(b) \div size)
Fputs(f, b) == Writes(f, b, Len(b))
\* fprintf and __fprintf_chk: the formatted text is given to fputs
Fprintf(f, b) == Fputs(f, b)
-----------------------------------------------------------------------------
(* fread *)

\* Read; if it gives as many bytes as elements were asked for, this is all.
FreadRead(f, size, nmemb) ==
  \/ LibcStream(f)
  \/ LET b == Got(f, files[f].off, size * nmemb)
     IN  /\ Ready(f, Reads) /\ GoRead(f, size * nmemb) /\ Gives(f, b)
         /\ call' = [call EXCEPT ![f] = IF Len(b) = nmemb THEN Idle
                                        ELSE InFread("cur", Len(b) < size * nmemb, 0, Len(Bytes(f)))]
         /\ UNCHANGED <<eof, err>>

FreadCur(f) == /\ call[f].op = "fread" /\ call[f].at = "cur" /\ GoFd(f)
               /\ call' = [call EXCEPT ![f].at = "end", ![f].cur = files[f].off]
               /\ UNCHANGED <<eof, err, seen>>
\* a bug: the flag is for the case that more has come
FreadEnd_more(f) == LET end == Len(Bytes(f))
                    IN  /\ call[f].op = "fread" /\ call[f].at = "end" /\ OnFile(f)
                        /\ MoveTo(f, end) /\ Flag(eof, f, call[f].cur < end)
                        /\ call' = [call EXCEPT ![f].at = "set"]
                        /\ UNCHANGED <<phase, register, app, data, err, seen>>
FreadEnd(f) == LET end == Len(Bytes(f))
               IN  /\ call[f].op = "fread" /\ call[f].at = "end" /\ OnFile(f)
                   /\ MoveTo(f, end) /\ Flag(eof, f, call[f].cur = end)
                   /\ call' = [call EXCEPT ![f].at = "set"]
                   /\ UNCHANGED <<phase, register, app, data, err, seen>>
\* a bug: the offset is left at the end
FreadSet_end(f) == /\ call[f].op = "fread" /\ call[f].at = "set" /\ GoFd(f)
                   /\ call' = [call EXCEPT ![f] = Idle] /\ UNCHANGED <<eof, err, seen>>
FreadSet(f) == /\ call[f].op = "fread" /\ call[f].at = "set" /\ OnFile(f)
               /\ MoveTo(f, call[f].cur) /\ call' = [call EXCEPT ![f] = Idle]
               /\ UNCHANGED <<phase, register, app, data, eof, err, seen>>
Fread(f) == FreadCur(f) \/ FreadEnd(f) \/ FreadSet(f)
-----------------------------------------------------------------------------
(* fgetc, getdelim, getline, fgets *)

\* What fgetc gives of the file: one byte, at the end none
Fgetc(f) == \/ LibcStream(f)
            \/ /\ Ready(f, Reads) /\ GoRead(f, 1) /\ Gives(f, Got(f, files[f].off, 1))
               /\ Flag(eof, f, Got(f, files[f].off, 1) = <<>>) /\ UNCHANGED <<err, call>>

\* Without a buffer, one of BUFSIZ.
Delimited(f, cap, own) ==
  /\ Ready(f, Reads)
  /\ call' = [call EXCEPT ![f] = InLine(<<>>, IF cap = 0 THEN BufSiz ELSE cap, cap = 1, own)]
  /\ UNCHANGED <<phase, fds, data, eof, err, seen>>
Getdelim(f, cap) == LibcStream(f) \/ Delimited(f, cap, FALSE)
\* Into max - 1 bytes of the program's own buffer; with one byte nothing is read.
Fgets(f, max) == LibcStream(f) \/ (max >= 2 /\ Delimited(f, max - 1, TRUE))

InCall(f) == call[f].op = "getdelim" /\ OnFile(f)
Return(f, b) == call' = [call EXCEPT ![f] = Idle] /\ Gives(f, b)

\* a bug: as if the buffer needed no room for the NUL
Grown_full(n, cap) == IF n >= cap THEN 2 * cap ELSE cap
\* The buffer is doubled when there are but two places left.
Grown(n, cap) == IF n + 2 >= cap THEN 2 * cap ELSE cap

\* A character is stored behind the others; the delimiter ends the line.  A buffer
\* that is doubled is realloc's, also if it was fgets's caller's.
LineChar(f) ==
  LET b == Got(f, files[f].off, 1)
      text == call[f].text \o b
      cap == Grown(Len(text), call[f].cap)
  IN  /\ InCall(f) /\ GoRead(f, 1) /\ b \notin {<<>>, <<"ff">>}
      /\ IF b = <<"nl">> THEN Return(f, text)
         ELSE /\ call' = [call EXCEPT ![f] = InLine(text, cap, call[f].tiny, call[f].own /\ cap = call[f].cap)]
              /\ UNCHANGED seen
      /\ UNCHANGED <<eof, err>>
\* realloc of a buffer that is not malloc's ends the process (of one that is, it
\* leaves fgets's caller with a pointer to nothing: LineChar, and no more of it).
LineAborts(f) == /\ call[f].op = "getdelim" /\ call[f].own /\ phase = "up" /\ ManagedFd(f)
                 /\ Got(f, files[f].off, 1) \notin {<<>>, <<"ff">>, <<"nl">>}
                 /\ Grown(Len(call[f].text) + 1, call[f].cap) # call[f].cap
                 /\ Exits /\ Same
\* The end of the file: what there is of the line
LineEnds(f) == /\ InCall(f) /\ GoRead(f, 1) /\ Got(f, files[f].off, 1) = <<>>
               /\ Return(f, call[f].text) /\ Flag(eof, f, TRUE) /\ UNCHANGED err
\* fgetc gives byte 255 as -1, which is taken for the end or an error: a line that
\* is cut short there, or lost.
LineCut(f) == /\ InCall(f) /\ GoRead(f, 1) /\ Got(f, files[f].off, 1) = <<"ff">>
              /\ Return(f, IF eof[f] THEN call[f].text ELSE <<>>) /\ UNCHANGED <<eof, err>>
Line(f) == LineChar(f) \/ LineEnds(f) \/ LineCut(f) \/ LineAborts(f)
-----------------------------------------------------------------------------
(* The flags, and the calls that are not implemented *)

Clearerr(f) == /\ Free(f) /\ Running(f) /\ app[f] # NoFile /\ f \notin Std
               /\ eof' = [eof EXCEPT ![f] = FALSE] /\ err' = [err EXCEPT ![f] = FALSE]
               /\ UNCHANGED <<wraps, call, seen>>
Stops(f) == (LibcFd(f) \/ ExitsFd(f)) /\ Free(f) /\ Same
Reposition(f) == Stops(f)      \* fgetpos, fseek, fsetpos
Characters(f) == Stops(f)      \* putc, getc, ungetc, ftell
Rewind(f) == Stops(f)
-----------------------------------------------------------------------------
OnPath(p) ==
  /\ \/ Access(p) \/ Stat(p) \/ Statfs(p) \/ Statvfs(p) \/ MakeDir(p) \/ RemoveDir(p) \/ Getxattr(p)
     \/ Creat(p) \/ TruncatePath(p) \/ Opendir(p) \/ Unlink(p)
     \/ FaccessAt(p) \/ FxstatAt(p) \/ UnlinkAt(p) \/ MkdirAt(p)
     \/ \E q \in Paths : Rename(p, q) \/ RenameAt(p, q)
  /\ Same
Opening(f) == \E p \in Opens : \/ (Open(f, p, Busy) \/ Openat(f, p)) /\ Clear(f)
                               \/ Fopen(f, p) \/ Freopen(f, p)
OnFd(f) ==
  /\ Free(f)
  /\ \/ /\ \/ Fadvise(f) \/ Fstat(f) \/ Sync(f) \/ Ioctl(f) \/ Fstatfs(f) \/ Fstatvfs(f) \/ Pread(f)
           \/ Ftruncate(f, Busy) \/ \E g \in Fd : Dup2(f, g) /\ Free(g)
           \/ \E b \in Texts : \/ Write(f, b, Busy) \/ \E off \in 0..MaxLen : Pwrite(f, off, b, Busy)
        /\ Same
     \/ /\ \/ \E to \in 0..1 : Lseek(f, to)
           \/ \E n \in 1..2 : Read(f, n)
           \/ \E b \in Texts : Vectors(f, b, Busy)
        /\ seen' = [seen EXCEPT ![f] = IF f \in DOMAIN files /\ files[f].can = {"r"} THEN Before(f)' ELSE <<>>]
        /\ UNCHANGED <<eof, err, call>>
Streaming(f) ==
  \/ Fclose(f) \/ Fflush(f) \/ Fdopen(f) \/ Clearerr(f) \/ Reposition(f) \/ Characters(f) \/ Rewind(f)
  \/ \E b \in Texts : Fputc(f, b) \/ Fputs(f, b) \/ Fprintf(f, b) \/ \E size \in 1..2 : Fwrite(f, b, size)
  \/ \E size, nmemb \in 1..2 : FreadRead(f, size, nmemb)
  \/ Fread(f) \/ Fgetc(f) \/ Line(f)
  \/ \E cap \in Caps : Getdelim(f, cap) \/ Fgets(f, cap)
Next == \/ (InitPdwfs \/ FinalizePdwfs) /\ Same
        \/ \E p \in Paths : OnPath(p)
        \/ \E f \in Fd : Opening(f) \/ (OnFd(f) \/ Streaming(f))
Spec == Init /\ [][Next]_vars
-----------------------------------------------------------------------------
\* What a name under a mount point stands for is in the Go layer, in that mount
\* point's file system, and all else is libc's: however the path is written, and
\* whichever path a descriptor had before.  Two kinds of calls do go astray, and no
\* others: those that start from a descriptor (openat, unlinkat, ...) and name
\* something below a mount point, which libc is given (pdwfs.c:1005); and those on a
\* stream that freopen has given a file of libc's, which the Go layer still has
\* (pdwfs.c:659).
RightLayer == astray \subseteq {At, Taken}
\* What it needs: that the paths resolve (PathsResolve), and the names of mount points
\* begin no other's name but those below them, and not each other's.
Resolved == /\ Home(Libc) = Libc /\ Home(Taken) = Libc
            /\ \A p \in Paths : /\ ~Fails(p) /\ AbsPath(p).out = Normal(p)
                                /\ Normal(p) \notin {Libc, At, Taken}
                                /\ \A m \in Mounts : Begins(m, Normal(p)) <=> m = Home(Normal(p))

\* A stream gives the program each byte of the file once and in order, though a
\* short fread goes to the end of the file and back while others write, and a
\* line is read in many steps.  Byte 255 is lost to the line calls.
NothingLost ==
  \A f \in DOMAIN files :
    Free(f) /\ files[f].can = {"r"} /\ "ff" \notin Range(Before(f)) => seen[f] = Before(f)

\* When an fread that looks for the end of the file has read less than it was asked
\* for, the program finds out why: the flag is up, or the file has grown since.  An
\* fread looks unless the BYTES it has read are as many as the ELEMENTS it was asked
\* for (pdwfs.c:892): with elements of several bytes, one that is short by just that
\* much returns without a flag, and is not among those of which this speaks.
ShortReadExplained ==
  \A f \in Fd : call[f].op = "fread" /\ call[f].at = "set" /\ call[f].short
    => eof[f] \/ Len(Bytes(f)) > call[f].end

\* The next character of a line and the NUL behind it have room in the buffer,
\* whatever buffer the line was begun with but one of one byte, where there is no
\* room for the NUL (pdwfs.c:1168), nor in the two bytes it grows to.
LineFits == \A f \in Fd :
  call[f].op = "getdelim" /\ ~call[f].tiny => Len(call[f].text) + 2 <= call[f].cap
=============================================================================
