------------------------------- MODULE Filter -------------------------------
(***************************************************************************)
(* A stream with a state of its own, as its callbacks see it: the          *)
(* scheduler calls start_func once per element, or, for a producer, once   *)
(* per continuation, and close_func once at the end; no two of these calls *)
(* overlap (module Scheduler, Exclusive).  The modules that extend this    *)
(* one hold the callbacks of the library: one action per callback.         *)
(***************************************************************************)
EXTENDS Integers, Sequences, SequencesExt, Values

CONSTANTS
  Funcall(_, _),  \* strm_funcall: the value a function returns for arguments
  Failed          \* what Funcall returns when the function fails

VARIABLES
  call,   \* [name, args]: the call that has made the stream
  data,   \* strm->data
  fed,    \* the elements received so far
  out,    \* the elements emitted so far
  mode,   \* "open", or "killed" when the stream has closed itself
  closed  \* close_func has been called

filterVars == <<call, data, fed, out, mode, closed>>

\* strm_emit passes everything on but nil.
Heard(s) == SelectSeq(s, LAMBDA v : ~IsNil(v))
Emit(s) == out' = out \o Heard(s)

\* A callback that returns NG: nothing more of it has an effect.
NG == UNCHANGED <<data, out, mode>>

Is(name) == call.name = name
Arg(i) == call.args[i]
Argc == Len(call.args)

Unary(f, x) == Funcall(f, <<x>>)
Fails(f, x) == Unary(f, x) = Failed
=============================================================================
