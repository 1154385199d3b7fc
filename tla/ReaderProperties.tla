-------------------------- MODULE ReaderProperties --------------------------
(***************************************************************************)
(* What the line reader of a stratum connection promises.                  *)
(***************************************************************************)
EXTENDS StratumReader

\* The variables have their types, and the zero written after the bytes read
\* (buffer[offset] = 0) stays in the buffer.
ReaderTypeOK ==
  /\ sent \in Seq([kind : Kinds, end : Nat]) /\ open \in BOOLEAN
  /\ received \in Nat
  /\ buffer \in Seq(Nat) /\ Len(buffer) < BufferSize
  /\ message \in Nat
  /\ phase \in {"read", "handle", "ended"}
  /\ handled \in Seq(Seq(Nat))

\* Lines are handled in the order they were written, each once and whole:
\* however the socket splits or joins them, and whatever was left in the
\* buffer by the line before.
LinesArriveIntact ==
  /\ Len(handled) <= Len(sent)
  /\ \A i \in DOMAIN handled : handled[i] = Body(i)

\* The pool drops a connection only when it is closed from outside, when a
\* line is not JSON (JsonError), or when a line does not fit in the buffer.
DroppedForAReason ==
  phase = "ended" =>
    \/ ~open
    \/ handled # <<>> /\ sent[Len(handled)].kind = "notJson"
    \/ Len(handled) < Len(sent) /\ Size(Len(handled) + 1) >= BufferSize

\* While bytes are on their way to the pool, the line that is next is going to
\* be handled: a client that waits for each answer is always served.  One that
\* does not may leave a complete line in the buffer, as each read hands over
\* one, but the next bytes release it.  The connection ends before that only
\* from outside, for the line before, or for a line that does not fit.
NextBytesReleaseLine ==
  \A i \in 1..MaxLines :
    Len(handled) + 1 = i /\ Len(sent) >= i /\ Written > received
    ~> \/ Len(handled) >= i
       \/ phase = "ended" /\ ~open
       \/ phase = "ended" /\ handled # <<>> /\ sent[Len(handled)].kind = "notJson"
       \/ phase = "ended" /\ Len(sent) >= i /\ Size(i) >= BufferSize
=============================================================================
