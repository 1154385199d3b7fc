------------------------------ MODULE Signals ------------------------------
(***************************************************************************)
(* How miners of the native protocol hear of a new block: a miner asks the *)
(* connect port for the port of the signals, subscribes there, and gets    *)
(* what sendSignal writes to every socket of signalSockets.  A send ends   *)
(* later, or inside the call, in sendSignalCb; that is the only place      *)
(* where a miner that left is noticed.  SIGINT closes the connect port and *)
(* is announced the same way, and three seconds later the process quits.   *)
(* A request may state the height the miner works at: if it is lower than  *)
(* the current block's, the reply has the block.  That is how a miner that *)
(* missed a signal gets on.  The block is put into the reply before the    *)
(* handler waits for the wallet, and the reply is sent after.              *)
(*                                                                         *)
(* Everything but the peers runs in the event loop, whose other steps wait *)
(* for a sendSignal loop to end.                                           *)
(***************************************************************************)
EXTENDS Naturals, SequencesExt

CONSTANTS
  Sockets,     \* the sockets signalsProc may create, each named by its miner
  Blocks,
  NoBlock,     \* the current block while the wallet is away, of height 0
  Height,
  MaxPending   \* bound on the sends under way on a socket

Tips == Blocks \cup {NoBlock}
ASSUME HeightAssumption == Height \in [Tips -> Nat] /\ Height[NoBlock] = 0
ASSUME MaxPendingAssumption == MaxPending \in Nat \ {0}

VARIABLES
  stage,          \* of the process: "running", "stopping", "quit"
  conn,           \* how far each miner and its socket have come
  signalSockets,
  pending,        \* the signals whose sends are under way on each socket
  at,             \* sendSignal's i, counted from 1; 0 when no loop runs
  deletes,        \* how often each socket was deleted
  tip,            \* mCurrBlock
  data,           \* the last signal: a block or "shutdown"
  known,          \* the block each miner works on
  reply,          \* the block in the reply that each miner's mainProc has yet to send
  owed            \* history: the subscribers the last signal has not reached

vars == <<stage, conn, signalSockets, pending, at, deletes,
          tip, data, known, reply, owed>>
process == <<stage, tip, data>>
miners == <<conn, signalSockets, pending, at, deletes, known, reply, owed>>

Stages == {"new", "connected", "accepting", "open", "gone"}

Init ==
  /\ stage = "running"
  /\ conn = [s \in Sockets |-> "new"]
  /\ signalSockets = <<>> /\ at = 0
  /\ pending = [s \in Sockets |-> <<>>]
  /\ deletes = [s \in Sockets |-> 0]
  /\ tip = NoBlock /\ data = NoBlock
  /\ known = [s \in Sockets |-> NoBlock] /\ owed = {}
  /\ reply = [s \in Sockets |-> "none"]

EventLoop == stage # "quit" /\ at = 0

-----------------------------------------------------------------------------
\* sendSignal and its callback

sendSignal(signal) ==
  at' = 1 /\ data' = signal /\ owed' = {s \in Sockets : conn[s] = "open"}

AnyFailure(status) == status # "success"       \* mutant: whatever went wrong
Disconnected(status) == status = "disconnected"

KeptListed(s) == signalSockets                  \* mutant: no erase
ErasedToEnd(s) == SelectSeq(signalSockets, LAMBDA t :   \* mutant: erase(I, IE)
  \E j, k \in DOMAIN signalSockets : signalSockets[j] = t /\ signalSockets[k] = s /\ j < k)
Erased(s) == RemoveFirst(signalSockets, s)

\* The socket behind the one the loop is at, which an erase moves under i.
Behind == {signalSockets[k] : k \in {at + 1} \cap DOMAIN signalSockets}

sendSignalCb(s, status) ==
  IF Disconnected(status)
  THEN /\ signalSockets' = Erased(s)
       /\ deletes' = [deletes EXCEPT ![s] = @ + 1]
  ELSE UNCHANGED <<signalSockets, deletes>>

\* How a send may end: deleting a socket cancels the sends left on it.
Outcomes(s) ==
  IF deletes[s] > 0 THEN {"canceled"}
  ELSE {"success", "timeout"} \cup (IF conn[s] = "gone" THEN {"disconnected"} ELSE {})

\* A miner works on the block it is sent.
Ends(s, status, signal) ==
  /\ status \in Outcomes(s)
  /\ known' = IF status = "success" /\ conn[s] = "open" /\ signal \in Tips
              THEN [known EXCEPT ![s] = signal] ELSE known
  /\ sendSignalCb(s, status)

\* One round of the loop: the send is queued behind others ...
Queue ==
  /\ at \in DOMAIN signalSockets
  /\ pending' = [pending EXCEPT ![signalSockets[at]] = Append(@, data)]
  /\ at' = at + 1
  /\ UNCHANGED <<process, conn, signalSockets, deletes, known, reply, owed>>

\* ... or ends, with its callback, before aioZmtpSend returns.
SendNow(s, status) ==
  /\ at \in DOMAIN signalSockets /\ signalSockets[at] = s /\ pending[s] = <<>>
  /\ Ends(s, status, data)
  /\ at' = at + 1
  /\ owed' = owed \ (IF status = "disconnected" THEN Behind ELSE {s})
  /\ UNCHANGED <<process, conn, pending, reply>>

LoopEnds ==
  /\ at > Len(signalSockets) /\ at' = 0
  /\ UNCHANGED <<process, conn, signalSockets, pending, deletes, known, reply, owed>>

SendDone(s, status) ==
  /\ EventLoop /\ pending[s] # <<>>
  /\ Ends(s, status, Head(pending[s]))
  /\ pending' = [pending EXCEPT ![s] = Tail(@)]
  /\ owed' = IF Head(pending[s]) = data THEN owed \ {s} ELSE owed
  /\ UNCHANGED <<process, conn, at, reply>>

-----------------------------------------------------------------------------
\* signalHandler and timerProc announce a block, sigintProc the shutdown

Room == \A s \in Sockets : Len(pending[s]) < MaxPending

NewBlock(block) ==
  /\ EventLoop /\ Room
  /\ tip' = block /\ sendSignal(block)
  /\ UNCHANGED <<stage, conn, signalSockets, pending, deletes, known, reply>>

\* SIGINT may come at any time; it is read from a pipe.
sigintProc ==
  /\ EventLoop /\ stage = "running"
  /\ stage' = "stopping" /\ sendSignal("shutdown")
  /\ UNCHANGED <<tip, conn, signalSockets, pending, deletes, known, reply>>

Quit ==
  /\ EventLoop /\ stage = "stopping" /\ stage' = "quit"
  /\ UNCHANGED <<tip, data, miners>>

-----------------------------------------------------------------------------
\* A miner

Moves(s, from, to) == conn[s] = from /\ conn' = [conn EXCEPT ![s] = to]

\* A request states one height or none: its optional field.
Stated == {{}} \cup {{Height[b]} : b \in Tips}
WhenLower(stated) == \E h \in stated : Height[tip] < h  \* mutant: the wrong way round
NeedsBlock(stated) == \E h \in stated : h < Height[tip]
checkRequest(stated) == IF NeedsBlock(stated) THEN tip ELSE "none"

Takes(s, block) ==
  known' = IF block \in Tips THEN [known EXCEPT ![s] = block] ELSE known

\* The connect port is the one listener that shutdown deletes.
Accept(s) ==
  /\ EventLoop /\ stage = "running" /\ Moves(s, "new", "connected")
  /\ UNCHANGED <<process, signalSockets, pending, at, deletes, known, reply, owed>>

\* The reply names the port of the signals, and the miner connects to it.
onConnect(s) ==
  /\ EventLoop /\ Moves(s, "connected", "accepting")
  /\ \E stated \in Stated : Takes(s, checkRequest(stated))
  /\ UNCHANGED <<process, signalSockets, pending, at, deletes, reply, owed>>

ListedFirst(s) ==   \* mutant: the socket is listed before the handshake
  /\ EventLoop /\ conn[s] = "accepting" /\ ~Contains(signalSockets, s)
  /\ signalSockets' = Append(signalSockets, s)
  /\ UNCHANGED <<process, conn, pending, at, deletes, known, reply, owed>>
signalsProc(s) ==
  /\ EventLoop /\ Moves(s, "accepting", "open")
  /\ signalSockets' = Append(signalSockets, s)
  /\ UNCHANGED <<process, pending, at, deletes, known, reply, owed>>

\* A miner without signals is not looked at any further.
Forgets(s) ==
  known' = [known EXCEPT ![s] = NoBlock] /\ reply' = [reply EXCEPT ![s] = "none"]
AcceptFails(s) ==
  /\ EventLoop /\ Moves(s, "accepting", "gone") /\ Forgets(s)
  /\ deletes' = [deletes EXCEPT ![s] = @ + 1]
  /\ UNCHANGED <<process, signalSockets, pending, at, owed>>

\* A request on the work port: GETWORK, SHARE or STATS.  mainProc serves one
\* at a time; the first two wait for the wallet before the reply is sent ...
Subscribing(s) == conn[s] \in {"accepting", "open"}
Request(s, stated) ==
  /\ EventLoop /\ Subscribing(s) /\ reply[s] = "none"
  /\ reply' = [reply EXCEPT ![s] = checkRequest(stated)]
  /\ UNCHANGED <<process, conn, signalSockets, pending, at, deletes, known, owed>>

\* ... and nobody looks whether it was.
Reply(s) ==
  /\ EventLoop /\ Subscribing(s) /\ reply[s] \in Tips
  /\ Takes(s, reply[s]) /\ reply' = [reply EXCEPT ![s] = "none"]
  /\ UNCHANGED <<process, conn, signalSockets, pending, at, deletes, owed>>
ReplyLost(s) ==
  /\ EventLoop /\ reply[s] \in Tips /\ reply' = [reply EXCEPT ![s] = "none"]
  /\ UNCHANGED <<process, conn, signalSockets, pending, at, deletes, known, owed>>

PeerLeaves(s) ==
  /\ stage # "quit" /\ Moves(s, "open", "gone") /\ owed' = owed \ {s}
  /\ Forgets(s)
  /\ UNCHANGED <<process, signalSockets, pending, at, deletes>>

-----------------------------------------------------------------------------
Miner(s) ==
  \/ Accept(s) \/ onConnect(s) \/ signalsProc(s) \/ AcceptFails(s)
  \/ Reply(s) \/ ReplyLost(s) \/ PeerLeaves(s)
  \/ \E stated \in Stated : Request(s, stated)
Sent(s) ==
  \/ \E status \in {"success", "disconnected"} : SendNow(s, status)
  \/ \E status \in Outcomes(s) : SendDone(s, status)
Stopped == stage = "quit" /\ UNCHANGED vars

Next ==
  \/ \E block \in Tips : NewBlock(block)
  \/ sigintProc \/ Quit \/ Stopped
  \/ Queue \/ LoopEnds \/ \E s \in Sockets : Sent(s) \/ Miner(s)

\* The loop and every send come to an end; sends to a peer that is gone do not
\* succeed or time out forever: in the end TCP gives up.  A miner goes on
\* sending requests that state its height, as its shares do, is served between
\* the loops, and not every reply with a block is lost.
FindsGone(s) == SendNow(s, "disconnected") \/ SendDone(s, "disconnected")
Fairness ==
  /\ WF_vars(Queue \/ LoopEnds)
  /\ \A s \in Sockets :
       /\ WF_vars(Sent(s)) /\ SF_vars(FindsGone(s))
       /\ SF_vars(Request(s, {Height[known[s]]})) /\ SF_vars(Reply(s))

Spec == Init /\ [][Next]_vars /\ Fairness
=============================================================================
