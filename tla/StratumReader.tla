--------------------------- MODULE StratumReader ---------------------------
(***************************************************************************)
(* How stratumProc cuts the byte stream of one connection into lines.  The *)
(* buffer collects what the socket delivers; after each read at most one   *)
(* line is handed to decodeStratumMessage, and the rest moves to the       *)
(* begin of the buffer when its handler returns.                           *)
(*                                                                         *)
(* A byte is known by its position in the stream the client wrote, so the  *)
(* buffer holds positions and a line ends at the position of its '\n'.     *)
(***************************************************************************)
EXTENDS Integers, Sequences

CONSTANTS
  BufferSize,     \* 40960 bytes, the last for the terminating zero
  LineSizes,      \* bound: sizes of the lines clients write, '\n' included
  MaxLines,       \* bound: lines written
  MemcpyForward   \* does memcpy copy overlapping regions like memmove?

ASSUME BufferAssumption == BufferSize \in Nat \ {0, 1}
ASSUME LinesAssumption == LineSizes \subseteq Nat \ {0} /\ MaxLines \in Nat
ASSUME ReaderFlagsAssumption == MemcpyForward \in BOOLEAN

VARIABLES
  \* ---- the client and the network (external)
  sent,      \* the lines written: what decoding finds, where each ends
  open,      \* the connection is not closed by the client or the network
  \* ---- locals of stratumProc
  received,  \* bytes read from the socket
  buffer,    \* buffer[0..offset-1]
  message,   \* bytes up to the '\n' found and with it; 0 outside a handler
  phase,     \* "read" (in ioRead), "handle" (in a handler), "ended"
  handled    \* history: the lines given to decodeStratumMessage

clientVars == <<sent, open>>
readerVars == <<received, buffer, message, phase, handled>>
vars == <<sent, open, received, buffer, message, phase, handled>>

Kinds == {"request", "notJson"}

Start(i) == IF i = 1 THEN 0 ELSE sent[i - 1].end
Size(i) == sent[i].end - Start(i)
Body(i) == [k \in 1..(Size(i) - 1) |-> Start(i) + k]
Written == Start(Len(sent) + 1)
IsNewline(byte) == \E i \in DOMAIN sent : sent[i].end = byte

Init ==
  /\ sent = <<>> /\ open = TRUE
  /\ received = 0 /\ buffer = <<>> /\ message = 0
  /\ phase = "read" /\ handled = <<>>

-----------------------------------------------------------------------------
\* The client

\* An empty line is no JSON text.
ClientWrites(kind, size) ==
  /\ open /\ Len(sent) < MaxLines
  /\ size = 1 => kind = "notJson"
  /\ sent' = Append(sent, [kind |-> kind, end |-> Written + size])
  /\ UNCHANGED <<open, readerVars>>

ClientLeaves == open /\ open' = FALSE /\ UNCHANGED <<sent, readerVars>>

-----------------------------------------------------------------------------
\* The reader

\* ioRead(socket, buffer+offset, 40960 - offset - 1)
SpaceForZero == BufferSize - Len(buffer)         \* mutant: no byte for the zero
SpaceTooShort == BufferSize - Len(buffer) - 2    \* mutant: one byte too few
Space == BufferSize - Len(buffer) - 1

\* strchr(buffer, '\n')
NewNewline(bytes, p) ==   \* mutant: strchr(buffer+offset, '\n')
  /\ p \in DOMAIN bytes /\ p > Len(buffer) /\ IsNewline(bytes[p])
  /\ \A q \in (Len(buffer) + 1)..(p - 1) : ~IsNewline(bytes[q])
FirstNewline(bytes, p) ==
  /\ p \in DOMAIN bytes /\ IsNewline(bytes[p])
  /\ \A q \in 1..(p - 1) : ~IsNewline(bytes[q])

Read(size) ==
  /\ phase = "read" /\ size <= Space /\ received + size <= Written
  /\ received' = received + size
  /\ buffer' = buffer \o [k \in 1..size |-> received + k]
  /\ UNCHANGED clientVars
  /\ \/ /\ \A p \in DOMAIN buffer' : ~FirstNewline(buffer', p)
        /\ UNCHANGED <<message, phase, handled>>
     \/ \E p \in DOMAIN buffer' :
          /\ FirstNewline(buffer', p)
          /\ message' = p /\ phase' = "handle"
          /\ handled' = Append(handled, SubSeq(buffer', 1, p - 1))

\* Bytes that are no line the client wrote may decode to anything.
Decoded(bytes) ==
  {kind \in Kinds : \A i \in DOMAIN sent : Body(i) = bytes => sent[i].kind = kind}

\* memcpy(buffer, buffer+nextMsgOffset, offset-nextMsgOffset).  The regions
\* overlap when more remains than was handled; a memcpy that starts at the far
\* end then reads bytes it has overwritten.
Remaining == Len(buffer) - message
MovedForward == [k \in 1..Remaining |-> buffer[message + k]]
MovedBackward ==
  [k \in 1..Remaining |->
     buffer[k + message * ((Remaining - k) \div message + 1)]]
Nothing == {<<>>}    \* mutant: offset = 0 whatever remains
Moved == {MovedForward} \cup (IF MemcpyForward THEN {} ELSE {MovedBackward})

\* The handler returns, perhaps after an RPC, and the rest is moved.
HandlerReturns ==
  /\ phase = "handle"
  /\ \E kind \in Decoded(handled[Len(handled)]) :
       phase' = IF kind = "notJson" THEN "ended" ELSE "read"
  /\ buffer' \in Moved
  /\ message' = 0
  /\ UNCHANGED <<clientVars, received, handled>>

\* ioRead returns nothing: the connection is gone, or there is no space.
ReadFails ==
  /\ phase = "read" /\ (~open \/ Space = 0)
  /\ phase' = "ended"
  /\ UNCHANGED <<clientVars, received, buffer, message, handled>>

-----------------------------------------------------------------------------
Next ==
  \/ \E kind \in Kinds, size \in LineSizes : ClientWrites(kind, size)
  \/ ClientLeaves
  \/ \E size \in 1..(BufferSize - 1) : Read(size)
  \/ HandlerReturns
  \/ ReadFails

\* The event loop resumes a coroutine whose socket is ready, and the RPCs a
\* handler waits for return.
Fairness ==
  /\ WF_vars(\E size \in 1..(BufferSize - 1) : Read(size))
  /\ WF_vars(HandlerReturns)
  /\ WF_vars(ReadFails)

Spec == Init /\ [][Next]_vars
FairSpec == Spec /\ Fairness
=============================================================================
