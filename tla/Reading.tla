-------------------------------- MODULE Reading --------------------------------
(***************************************************************************)
(* Reading lines (src/src/io.c), from a descriptor that is polled, from a  *)
(* file, and from a file mapped into memory.  A chunk is what one read(2)  *)
(* returns.  A call is lines(how, size, word): BUFSIZ and sizeof(b->buf),  *)
(* or lines("map", text).                                                  *)
(***************************************************************************)
EXTENDS Filter

LOCAL Line == 10

Map == Arg(1) = "map"       \* STRM_IO_NOFILL
NoWait == Arg(1) = "file"   \* a regular file where mmap(2) is not used
BufSize == Arg(2)
Word == Arg(3)

\* What b points to: buf up to b->end, beg bytes of it done with; and the next
\* task.  An empty file cannot be mapped, and no regular file can be polled.
ExecLines(c) ==
  CASE c.args[1] # "map" -> [buf |-> <<>>, beg |-> 0, task |-> "read"]
    [] c.args[1] = "map" /\ c.args[2] = <<>> -> [buf |-> <<>>, beg |-> 0, task |-> "none"]
    [] OTHER -> [buf |-> c.args[2], beg |-> 0, task |-> "line"]

Pending(d) == SubSeq(d.buf, d.beg + 1, Len(d.buf))
LineEnd(p) == CHOOSE i \in DOMAIN p : p[i] = Line /\ \A j \in 1..(i - 1) : p[j] # Line

\* mutant: the start of the buffer is not set back
MovedOnly(d) == IF Len(Pending(d)) < Word THEN [d EXCEPT !.buf = Pending(d)] ELSE d

\* What is left of the buffer is moved to its front if it is short.
Moved(d) == IF Len(Pending(d)) < Word THEN [d EXCEPT !.buf = Pending(d), !.beg = 0] ELSE d

\* readline_cb.  After a mapped last line without its end, what lies behind the
\* file is searched.
ReadlineCb(d) ==
  LET p == Pending(d) IN
  \/ /\ Line \in Range(p)
     /\ Emit(<<Str(SubSeq(p, 1, LineEnd(p) - 1))>>)
     /\ data' = [d EXCEPT !.beg = @ + LineEnd(p), !.task = "line"]
     /\ UNCHANGED mode
  \/ /\ Line \notin Range(p) /\ Map /\ p # <<>>
     /\ Emit(<<Str(p)>>)
     /\ data' = [d EXCEPT !.beg = @ + Len(p) + 1, !.task = "line"]
     /\ UNCHANGED mode
  \/ /\ Map /\ p = <<>>
     /\ IF d.beg > Len(d.buf) THEN data' = [d EXCEPT !.task = "beyond"] /\ UNCHANGED mode
                              ELSE data' = d /\ mode' = "killed"
     /\ UNCHANGED out
  \/ /\ Line \notin Range(p) /\ ~Map
     /\ data' = [Moved(d) EXCEPT !.task = "read"]
     /\ UNCHANGED <<out, mode>>

\* read_cb, when read has returned some bytes ...
ReadCb(x) ==
  /\ Is("lines") /\ data.task = "read" /\ Len(Of(x)) <= BufSize - Len(data.buf)
  /\ ReadlineCb([data EXCEPT !.buf = @ \o Of(x)])

\* ... or none: because the input has ended, or because the buffer is full.
ReadNone ==
  /\ Is("lines") /\ data.task = "read"
  /\ IF data.buf # <<>>
       THEN /\ Emit(<<Str(Pending(data))>>)
            /\ data' = [buf |-> <<>>, beg |-> 0, task |-> IF NoWait THEN "none" ELSE "read"]
            /\ UNCHANGED mode
       ELSE mode' = "killed" /\ UNCHANGED <<data, out>>

ReadOn ==
  /\ Is("lines")
  /\ \/ data.task = "line" /\ ReadlineCb(data)
     \/ data.task = "read" /\ (closed \/ Len(data.buf) = BufSize) /\ ReadNone
=============================================================================
