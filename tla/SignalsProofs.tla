--------------------------- MODULE SignalsProofs ---------------------------
(***************************************************************************)
(* For every number of miners, blocks and sends under way: no socket is    *)
(* deleted twice, and no subscriber but the one named in ListedAreTold is  *)
(* left without the signal.                                                *)
(*                                                                         *)
(* Neither is inductive.  Standing says where each socket is on its way    *)
(* from the handshake into the list and out of it; Sends bounds the sends  *)
(* of the sockets that a loop has yet to reach; Owing says that during a   *)
(* loop those still without the signal stand before it.                    *)
(***************************************************************************)
EXTENDS SignalsProperties, SequenceTheorems, TLAPS

Early == {"new", "connected", "accepting"}
SignalsSent == Tips \cup {"shutdown"}
Listed(s) == \E k \in 1..Len(signalSockets) : signalSockets[k] = s
Ahead(s) == \E k \in 1..Len(signalSockets) : k >= at /\ signalSockets[k] = s
UnderWay(s, signal) == \E k \in 1..Len(pending[s]) : pending[s][k] = signal

Types ==
  /\ stage \in {"running", "stopping", "quit"}
  /\ conn \in [Sockets -> Stages]
  /\ signalSockets \in Seq(Sockets)
  /\ pending \in [Sockets -> Seq(SignalsSent)]
  /\ at \in Nat /\ deletes \in [Sockets -> Nat]
  /\ tip \in Tips /\ data \in SignalsSent
  /\ known \in [Sockets -> Tips] /\ owed \subseteq Sockets
  /\ reply \in [Sockets -> Tips \cup {"none"}]

Distinct ==
  \A j, k \in 1..Len(signalSockets) : signalSockets[j] = signalSockets[k] => j = k

\* A socket is early, listed, or gone and deleted once.
Standing ==
  \A s \in Sockets :
    /\ conn[s] \in Early => ~Listed(s) /\ deletes[s] = 0 /\ pending[s] = <<>>
    /\ conn[s] = "open" => Listed(s)
    /\ Listed(s) => deletes[s] = 0
    /\ deletes[s] <= 1

\* A block is signalled only when there is room on every socket, the shutdown
\* once and at any time.
Sends ==
  /\ stage = "quit" => at = 0
  /\ \A s \in Sockets :
       /\ Len(pending[s]) <= MaxPending + 1
       /\ stage = "running" => Len(pending[s]) <= MaxPending
       /\ at # 0 /\ Ahead(s) =>
            /\ Len(pending[s]) <= MaxPending
            /\ stage = "running" => Len(pending[s]) < MaxPending

Owing ==
  \A s \in owed :
    conn[s] = "open" /\ (UnderWay(s, data) \/ (at # 0 /\ Ahead(s)))

SignalsInv == Types /\ Distinct /\ Standing /\ Sends /\ Owing

-----------------------------------------------------------------------------
\* RemoveFirst takes out the one place of an element.
LEMMA Removed ==
  ASSUME NEW S, NEW seq \in Seq(S), NEW k \in 1..Len(seq),
         \A j \in 1..Len(seq) : seq[j] = seq[k] => j = k
  PROVE  /\ RemoveFirst(seq, seq[k]) \in Seq(S)
         /\ Len(RemoveFirst(seq, seq[k])) = Len(seq) - 1
         /\ \A j \in 1..(k - 1) : RemoveFirst(seq, seq[k])[j] = seq[j]
         /\ \A j \in k..(Len(seq) - 1) : RemoveFirst(seq, seq[k])[j] = seq[j + 1]
<1> DEFINE places == {j \in 1..Len(seq) : seq[j] = seq[k]}
           front == SubSeq(seq, 1, k - 1)
           back == SubSeq(seq, k + 1, Len(seq))
<1>1. places = {k}
  OBVIOUS
<1>2. Min({k}) = k
  BY DEF Min
<1>3. SelectInSeq(seq, LAMBDA v : v = seq[k]) = k
  BY <1>1, <1>2 DEF SelectInSeq
<1>4. RemoveFirst(seq, seq[k]) = front \o back
  BY <1>3 DEF RemoveFirst, RemoveAt
<1>5. /\ front \in Seq(S) /\ Len(front) = k - 1
      /\ \A j \in 1..(k - 1) : front[j] = seq[j]
  <2>1. Len(seq) \in Nat /\ \A j \in 1..Len(seq) : seq[j] \in S
    OBVIOUS
  <2> QED BY <2>1, SubSeqProperties
<1>6. /\ back \in Seq(S) /\ Len(back) = Len(seq) - k
      /\ \A j \in 1..(Len(seq) - k) : back[j] = seq[k + j]
  <2> DEFINE first == k + 1
             last == Len(seq)
  <2>1. first \in Int /\ last \in Int /\ \A j \in first..last : seq[j] \in S
    OBVIOUS
  <2>2. first <= last + 1 /\ last - first + 1 = last - k
        /\ \A j \in Int : first + j - 1 = k + j
    OBVIOUS
  <2> HIDE DEF first, last
  <2>3. /\ SubSeq(seq, first, last) \in Seq(S)
        /\ Len(SubSeq(seq, first, last)) = IF first <= last THEN last - first + 1 ELSE 0
        /\ \A j \in 1..(last - first + 1) : SubSeq(seq, first, last)[j] = seq[first + j - 1]
    BY <2>1, SubSeqProperties
  <2>4. Len(SubSeq(seq, first, last)) = last - k
    BY <2>1, <2>2, <2>3
  <2>5. \A j \in 1..(last - k) : SubSeq(seq, first, last)[j] = seq[k + j]
    BY <2>1, <2>2, <2>3
  <2> QED BY <2>3, <2>4, <2>5 DEF first, last
<1> HIDE DEF front, back
<1>7. /\ front \o back \in Seq(S)
      /\ Len(front \o back) = Len(front) + Len(back)
      /\ \A j \in 1..(Len(front) + Len(back)) :
           (front \o back)[j] = IF j <= Len(front) THEN front[j] ELSE back[j - Len(front)]
  BY <1>5, <1>6, ConcatProperties
<1>8. Len(front) + Len(back) = Len(seq) - 1 /\ Len(seq) \in Nat
  BY <1>5, <1>6
<1>9. ASSUME NEW j \in 1..(k - 1)
      PROVE  (front \o back)[j] = seq[j]
  BY <1>5, <1>7, <1>8
<1>10. ASSUME NEW j \in k..(Len(seq) - 1)
       PROVE  (front \o back)[j] = seq[j + 1]
  <2>1. j \in 1..(Len(front) + Len(back)) /\ ~(j <= Len(front)) /\ j - Len(front) = j - (k - 1)
    BY <1>5, <1>8
  <2>2. j - (k - 1) \in 1..(Len(seq) - k) /\ k + (j - (k - 1)) = j + 1
    BY <1>8
  <2>3. (front \o back)[j] = back[j - (k - 1)]
    BY <1>7, <2>1
  <2>4. back[j - (k - 1)] = seq[k + (j - (k - 1))]
    BY <1>6, <2>2
  <2> QED BY <2>2, <2>3, <2>4
<1> QED BY <1>4, <1>7, <1>8, <1>9, <1>10

\* The callback of a send to a miner that left takes its socket, and no other,
\* out of the list; those behind it move up.
LEMMA Erasing ==
  ASSUME Types, Distinct, NEW s \in Sockets, signalSockets' = Erased(s)
  PROVE  /\ signalSockets' \in Seq(Sockets)
         /\ Distinct'
         /\ \A t \in Sockets : Listed(t)' <=> (Listed(t) /\ t # s)
         /\ \A k \in 1..Len(signalSockets) : signalSockets[k] = s =>
              /\ \A j \in 1..Len(signalSockets) :
                   j > k + 1 => /\ j - 1 \in 1..Len(signalSockets')
                                /\ signalSockets'[j - 1] = signalSockets[j]
              /\ \A j \in 1..Len(signalSockets') :
                   j > k => /\ j + 1 \in 1..Len(signalSockets)
                            /\ signalSockets'[j] = signalSockets[j + 1]
<1>1. CASE ~Listed(s)
  <2>1. signalSockets' = signalSockets
    BY <1>1 DEF Erased, RemoveFirst, Listed
  <2> QED BY <1>1, <2>1 DEF Types, Distinct, Listed
<1>2. CASE Listed(s)
  <2>1. PICK k \in 1..Len(signalSockets) : signalSockets[k] = s
    BY <1>2 DEF Listed
  <2> DEFINE old == signalSockets
             new == signalSockets'
  <2>2. old \in Seq(Sockets) /\ \A j, m \in 1..Len(old) : old[j] = old[m] => j = m
    BY DEF Types, Distinct
  <2>3. new = RemoveFirst(old, old[k])
    BY <2>1 DEF Erased
  <2> HIDE DEF old, new
  <2>4. /\ new \in Seq(Sockets)
        /\ Len(new) = Len(old) - 1
        /\ \A j \in 1..(k - 1) : new[j] = old[j]
        /\ \A j \in k..(Len(old) - 1) : new[j] = old[j + 1]
    <3>1. k \in 1..Len(old)
      BY <2>1 DEF old
    <3> QED BY <2>2, <2>3, <3>1, Removed
  <2>5. Len(old) \in Nat /\ k \in 1..Len(old) /\ old[k] = s
    BY <2>1, <2>2 DEF old
  <2>6. \A j \in 1..Len(new) :
          \E m \in 1..Len(old) : new[j] = old[m] /\ m # k /\ m = IF j < k THEN j ELSE j + 1
    <3> SUFFICES ASSUME NEW j \in 1..Len(new)
                 PROVE  \E m \in 1..Len(old) :
                          new[j] = old[m] /\ m # k /\ m = IF j < k THEN j ELSE j + 1
      OBVIOUS
    <3>1. CASE j < k
      BY <2>4, <2>5, <3>1
    <3>2. CASE ~(j < k)
      <4>1. j \in k..(Len(old) - 1) /\ j + 1 \in 1..Len(old) /\ j + 1 # k
        BY <2>4, <2>5, <3>2
      <4> QED BY <2>4, <3>2, <4>1
    <3> QED BY <3>1, <3>2
  <2>7. \A j, m \in 1..Len(new) : new[j] = new[m] => j = m
    BY <2>2, <2>4, <2>5, <2>6
  <2>8. ASSUME NEW t \in Sockets
        PROVE  (\E j \in 1..Len(new) : new[j] = t)
                 <=> ((\E j \in 1..Len(old) : old[j] = t) /\ t # s)
    <3>1. ASSUME NEW j \in 1..Len(new), new[j] = t
          PROVE  (\E m \in 1..Len(old) : old[m] = t) /\ t # s
      BY <2>2, <2>5, <2>6, <3>1
    <3>2. ASSUME NEW j \in 1..Len(old), old[j] = t, t # s
          PROVE  \E m \in 1..Len(new) : new[m] = t
      <4>1. j # k
        BY <2>5, <3>2
      <4>2. CASE j < k
        BY <2>4, <2>5, <3>2, <4>2
      <4>3. CASE j > k
        <5>1. j - 1 \in k..(Len(old) - 1) /\ j - 1 \in 1..Len(new) /\ (j - 1) + 1 = j
          BY <2>4, <2>5, <4>3
        <5> QED BY <2>4, <3>2, <5>1
      <4> QED BY <2>5, <4>1, <4>2, <4>3
    <3> QED BY <3>1, <3>2
  <2>9. ASSUME NEW m \in 1..Len(old), old[m] = s, NEW j \in 1..Len(old), j > m + 1
        PROVE  j - 1 \in 1..Len(new) /\ new[j - 1] = old[j]
    <3>1. m = k
      BY <2>2, <2>5, <2>9
    <3>2. j - 1 \in k..(Len(old) - 1) /\ j - 1 \in 1..Len(new) /\ (j - 1) + 1 = j
      BY <2>4, <2>5, <2>9, <3>1
    <3> QED BY <2>4, <3>2
  <2>10. ASSUME NEW m \in 1..Len(old), old[m] = s, NEW j \in 1..Len(new), j > m
         PROVE  j + 1 \in 1..Len(old) /\ new[j] = old[j + 1]
    <3>1. m = k
      BY <2>2, <2>5, <2>10
    <3>2. j \in k..(Len(old) - 1) /\ j + 1 \in 1..Len(old)
      BY <2>4, <2>5, <2>10, <3>1
    <3> QED BY <2>4, <3>2
  <2> QED BY <2>4, <2>7, <2>8, <2>9, <2>10 DEF old, new, Distinct, Listed
<1> QED BY <1>1, <1>2

\* The queue of a socket, one signal longer or shorter.
LEMMA Queued ==
  ASSUME NEW S, NEW q \in Seq(S), NEW e \in S
  PROVE  /\ Append(q, e) \in Seq(S) /\ Len(Append(q, e)) = Len(q) + 1
         /\ \E k \in 1..Len(Append(q, e)) : Append(q, e)[k] = e
         /\ \A d : (\E k \in 1..Len(q) : q[k] = d)
                     => \E k \in 1..Len(Append(q, e)) : Append(q, e)[k] = d
<1>1. Append(q, e)[Len(q) + 1] = e /\ Len(q) \in Nat
  BY AppendProperties
<1> QED BY <1>1, AppendProperties

\* A queue without its first element.
LEMMA Dequeued ==
  ASSUME NEW S, NEW q \in Seq(S), q # <<>>
  PROVE  /\ Tail(q) \in Seq(S) /\ Len(Tail(q)) = Len(q) - 1 /\ Head(q) = q[1]
         /\ \A d : (\E k \in 1..Len(q) : q[k] = d) /\ Head(q) # d
                     => \E k \in 1..Len(Tail(q)) : Tail(q)[k] = d
<1>1. /\ Tail(q) \in Seq(S) /\ Len(Tail(q)) = Len(q) - 1 /\ Head(q) = q[1]
      /\ \A k \in 1..Len(Tail(q)) : Tail(q)[k] = q[k + 1]
      /\ Len(q) \in Nat
  BY HeadTailProperties
<1>2. ASSUME NEW d, NEW k \in 1..Len(q), q[k] = d, Head(q) # d
      PROVE  \E j \in 1..Len(Tail(q)) : Tail(q)[j] = d
  <2>1. k - 1 \in 1..Len(Tail(q)) /\ (k - 1) + 1 = k
    BY <1>1, <1>2
  <2> QED BY <1>1, <1>2, <2>1
<1> QED BY <1>1, <1>2

-----------------------------------------------------------------------------
\* The steps of the invariant, action by action.

\* No socket is there, and nothing was sent.
LEMMA Initially == Init => SignalsInv
  BY MaxPendingAssumption
  DEF Init, SignalsInv, Types, Distinct, Standing, Sends, Owing, Stages, Early, Listed,
      Ahead, Tips, SignalsSent

\* A loop starts at the first socket, with every open socket ahead of it.
LEMMA LoopStarts ==
  ASSUME SignalsInv, EventLoop, NEW signal \in SignalsSent, sendSignal(signal),
         stage' \in {"running", "stopping"}, tip' \in Tips,
         \A s \in Sockets : /\ Len(pending[s]) <= MaxPending
                            /\ stage' = "running" => Len(pending[s]) < MaxPending,
         UNCHANGED <<conn, signalSockets, pending, deletes, known, reply>>
  PROVE  SignalsInv'
<1> USE DEF SignalsInv, sendSignal
<1>1. Types' /\ Distinct' /\ Standing'
  BY DEF Types, Distinct, Standing, Listed
<1>2. Sends'
  BY MaxPendingAssumption DEF Types, Sends, Ahead
<1>3. Owing'
  BY DEF Types, Standing, Listed, Owing, Ahead
<1> QED BY <1>1, <1>2, <1>3

\* A signal goes out: a loop begins, and each socket has room for its send.
LEMMA NewBlockStep ==
  ASSUME SignalsInv, NEW block \in Tips, NewBlock(block)
  PROVE  SignalsInv'
<1>1. \A s \in Sockets : Len(pending[s]) \in Nat /\ Len(pending[s]) < MaxPending
  BY DEF NewBlock, Room, SignalsInv, Types
<1>2. stage' \in {"running", "stopping"} /\ block \in SignalsSent
  BY DEF NewBlock, EventLoop, SignalsInv, Types, SignalsSent
<1> QED BY <1>1, <1>2, MaxPendingAssumption, LoopStarts DEF NewBlock

\* So it is for the last one.
LEMMA ShutdownStep ==
  ASSUME SignalsInv, sigintProc
  PROVE  SignalsInv'
<1>1. \A s \in Sockets : Len(pending[s]) <= MaxPending
  BY DEF sigintProc, SignalsInv, Sends
<1>2. stage' = "stopping" /\ "shutdown" \in SignalsSent /\ tip' \in Tips
  BY DEF sigintProc, SignalsInv, Types, SignalsSent
<1> QED BY <1>1, <1>2, LoopStarts DEF sigintProc

\* The loop goes one socket further: that socket is no longer ahead of it.
LEMMA LoopMovesOn ==
  ASSUME Types, Distinct, at \in 1..Len(signalSockets), at' = at + 1,
         signalSockets' = signalSockets
  PROVE  \A t \in Sockets : Ahead(t)' <=> (Ahead(t) /\ t # signalSockets[at])
<1> SUFFICES ASSUME NEW t \in Sockets
             PROVE  Ahead(t)' <=> (Ahead(t) /\ t # signalSockets[at])
  OBVIOUS
<1>1. \A k \in 1..Len(signalSockets) : k >= at + 1 <=> (k >= at /\ k # at)
  BY DEF Types
<1>2. Ahead(t)' <=> \E k \in 1..Len(signalSockets) :
                      k >= at /\ k # at /\ signalSockets[k] = t
  BY <1>1 DEF Ahead
<1>3. \A k \in 1..Len(signalSockets) :
        signalSockets[k] = signalSockets[at] <=> k = at
  BY DEF Distinct
<1> QED BY <1>2, <1>3 DEF Ahead

\* A send is queued: the socket now has the signal under way and is behind.
LEMMA QueueStep ==
  ASSUME SignalsInv, Queue
  PROVE  SignalsInv'
<1> USE DEF SignalsInv
<1>1. PICK s \in Sockets : signalSockets[at] = s /\ at \in 1..Len(signalSockets)
  BY DEF Queue, Types
<1>2. pending[s] \in Seq(SignalsSent) /\ data \in SignalsSent
  BY DEF Types
<1>3. /\ pending' = [pending EXCEPT ![s] = Append(@, data)] /\ at' = at + 1
      /\ UNCHANGED <<process, conn, signalSockets, deletes, known, reply, owed>>
  BY <1>1 DEF Queue
<1>4. /\ pending'[s] \in Seq(SignalsSent) /\ Len(pending'[s]) = Len(pending[s]) + 1
      /\ UnderWay(s, data)'
      /\ \A t \in Sockets \ {s} : pending'[t] = pending[t]
      /\ \A t \in Sockets \ {s} : Ahead(t) => Ahead(t)'
      /\ \A t \in Sockets : Ahead(t)' => Ahead(t) /\ t # s
      /\ Ahead(s)
  <2>1. pending'[s] = Append(pending[s], data) /\ data' = data
    BY <1>3 DEF Types, process
  <2>2. pending'[s] \in Seq(SignalsSent) /\ Len(pending'[s]) = Len(pending[s]) + 1
        /\ UnderWay(s, data)'
    BY <1>2, <2>1, Queued DEF UnderWay
  <2>3. \A t \in Sockets : Ahead(t)' <=> (Ahead(t) /\ t # s)
    BY <1>1, <1>3, LoopMovesOn
  <2>4. Ahead(s)
    BY <1>1 DEF Ahead, Types
  <2> QED BY <1>2, <1>3, <2>2, <2>3, <2>4 DEF Types
<1>5. Types' /\ Distinct'
  BY <1>3, <1>4 DEF Types, Distinct, process
<1>6. Standing'
  <2>1. Listed(s) /\ \A t \in Sockets : Listed(t)' <=> Listed(t)
    BY <1>1, <1>3 DEF Listed
  <2> QED BY <1>3, <1>4, <2>1 DEF Standing, process
<1>7. Sends'
  <2>1. /\ stage' = stage /\ at # 0 /\ at' # 0 /\ Len(pending[s]) \in Nat
        /\ stage # "quit"
    BY <1>1, <1>2, <1>3 DEF process, Sends, Types
  <2> QED BY <1>3, <1>4, <2>1, MaxPendingAssumption DEF Sends
<1>8. Owing'
  <2>1. data' = data /\ conn' = conn /\ owed' = owed /\ at' # 0
    BY <1>1, <1>3 DEF process
  <2>2. \A t \in Sockets \ {s} : UnderWay(t, data)' <=> UnderWay(t, data)
    BY <1>4, <2>1 DEF UnderWay
  <2> QED BY <1>4, <2>1, <2>2 DEF Owing, Types
<1> QED BY <1>5, <1>6, <1>7, <1>8

\* The loop passed the last socket: nobody is owed the signal any more.
LEMMA LoopEndsStep ==
  ASSUME SignalsInv, LoopEnds
  PROVE  SignalsInv'
<1> USE DEF SignalsInv, LoopEnds, process
<1>1. Types' /\ Distinct' /\ Standing' /\ Sends'
  BY DEF Types, Distinct, Standing, Sends, Listed
<1>2. \A s \in Sockets : ~Ahead(s)
  BY DEF Types, Ahead
<1>3. Owing'
  BY <1>2 DEF Types, Owing, UnderWay
<1> QED BY <1>1, <1>3

\* The end of a send that does not find the peer gone.
LEMMA EndsWell ==
  ASSUME SignalsInv, NEW s \in Sockets, NEW status, status # "disconnected",
         NEW signal, Ends(s, status, signal)
  PROVE  /\ UNCHANGED <<signalSockets, deletes>>
         /\ known' \in [Sockets -> Tips]
BY DEF SignalsInv, Types, Ends, sendSignalCb, Disconnected

\* The end of a send that does: the socket is deleted for the first time.
LEMMA EndsGone ==
  ASSUME SignalsInv, NEW s \in Sockets, NEW signal, Ends(s, "disconnected", signal)
  PROVE  /\ conn[s] = "gone" /\ deletes[s] = 0
         /\ signalSockets' = Erased(s)
         /\ deletes' = [deletes EXCEPT ![s] = 1]
         /\ known' = known
<1>1. deletes[s] \in Nat /\ ~(deletes[s] > 0) /\ conn[s] = "gone"
  BY DEF SignalsInv, Types, Ends, Outcomes
<1>2. deletes[s] = 0
  BY <1>1
<1> QED BY <1>1, <1>2 DEF Ends, sendSignalCb, Disconnected

\* A deletion leaves each socket standing, if the sends keep of pending what
\* early sockets have: nothing.
LEMMA StandsAfterErase ==
  ASSUME SignalsInv, NEW s \in Sockets, conn[s] = "gone", deletes[s] = 0,
         signalSockets' = Erased(s), deletes' = [deletes EXCEPT ![s] = 1],
         conn' = conn, \A t \in Sockets \ {s} : pending'[t] = pending[t]
  PROVE  Standing'
<1>1. \A t \in Sockets : Listed(t)' <=> (Listed(t) /\ t # s)
  BY Erasing DEF SignalsInv
<1>2. conn[s] \notin Early /\ conn[s] # "open"
  BY DEF Early
<1>3. deletes'[s] = 1 /\ \A t \in Sockets \ {s} : deletes'[t] = deletes[t]
  BY DEF SignalsInv, Types
<1> QED BY <1>1, <1>2, <1>3 DEF SignalsInv, Standing

\* A send that ends inside the loop.
LEMMA SendNowWell ==
  ASSUME SignalsInv, NEW s \in Sockets, SendNow(s, "success")
  PROVE  SignalsInv'
<1> USE DEF SignalsInv
<1>1. /\ at \in 1..Len(signalSockets) /\ signalSockets[at] = s /\ at' = at + 1
      /\ owed' = owed \ {s} /\ UNCHANGED <<process, conn, pending, reply>>
      /\ Ends(s, "success", data)
  BY DEF SendNow, Types
<1>2. UNCHANGED <<signalSockets, deletes>> /\ known' \in [Sockets -> Tips]
  BY <1>1, EndsWell
<1>3. Types' /\ Distinct' /\ Standing'
  BY <1>1, <1>2 DEF Types, Distinct, Standing, Listed, process
<1>4. /\ \A t \in Sockets \ {s} : Ahead(t) => Ahead(t)'
      /\ \A t \in Sockets : Ahead(t)' => Ahead(t)
  BY <1>1, <1>2, LoopMovesOn
<1>5. Sends'
  BY <1>1, <1>4 DEF Sends, process, Types
<1>6. Owing'
  <2>1. \A t \in Sockets : UnderWay(t, data) => UnderWay(t, data)'
    BY <1>1 DEF UnderWay, process
  <2> QED BY <1>1, <1>4, <2>1 DEF Owing, Types
<1> QED BY <1>3, <1>5, <1>6

\* A send that ends inside the loop and erases the socket the loop is at: the
\* one behind it moves to that place and is passed over.
LEMMA SendNowGone ==
  ASSUME SignalsInv, NEW s \in Sockets, SendNow(s, "disconnected")
  PROVE  SignalsInv'
<1> USE DEF SignalsInv
<1>1. /\ at \in 1..Len(signalSockets) /\ signalSockets[at] = s /\ at' = at + 1
      /\ owed' = owed \ Behind /\ UNCHANGED <<process, conn, pending, reply>>
      /\ Ends(s, "disconnected", data)
  BY DEF SendNow, Types
<1>2. /\ conn[s] = "gone" /\ deletes[s] = 0
      /\ signalSockets' = Erased(s)
      /\ deletes' = [deletes EXCEPT ![s] = 1] /\ known' = known
  BY <1>1, EndsGone
<1>3. /\ signalSockets' \in Seq(Sockets) /\ Distinct'
      /\ \A j \in 1..Len(signalSockets) :
           j > at + 1 => /\ j - 1 \in 1..Len(signalSockets')
                         /\ signalSockets'[j - 1] = signalSockets[j]
      /\ \A j \in 1..Len(signalSockets') :
           j > at => /\ j + 1 \in 1..Len(signalSockets)
                     /\ signalSockets'[j] = signalSockets[j + 1]
  BY <1>1, <1>2, Erasing
<1>4. Types'
  BY <1>1, <1>2, <1>3 DEF Types, process
<1>5. Standing'
  BY <1>1, <1>2, StandsAfterErase
<1>6. ASSUME NEW t \in Sockets, Ahead(t), t # s, t \notin Behind
      PROVE  Ahead(t)'
  <2>1. PICK j \in 1..Len(signalSockets) : j >= at /\ signalSockets[j] = t
    BY <1>6 DEF Ahead
  <2>2. DOMAIN signalSockets = 1..Len(signalSockets)
    BY DEF Types
  <2>3. j # at
    BY <1>1, <1>6, <2>1
  <2>4. j # at + 1
    BY <1>6, <2>1, <2>2 DEF Behind
  <2>5. j > at + 1 /\ j - 1 >= at + 1
    BY <1>1, <2>1, <2>3, <2>4 DEF Types
  <2> QED BY <1>1, <1>3, <2>1, <2>5 DEF Ahead
<1>7. \A t \in Sockets : Ahead(t)' => Ahead(t)
  <2> SUFFICES ASSUME NEW t \in Sockets, Ahead(t)' PROVE Ahead(t)
    OBVIOUS
  <2>1. PICK j \in 1..Len(signalSockets') : j >= at + 1 /\ signalSockets'[j] = t
    BY <1>1 DEF Ahead
  <2>2. Len(signalSockets') \in Nat /\ at \in Nat
    BY <1>3, LenProperties DEF Types
  <2>3. j > at /\ j + 1 >= at
    BY <2>1, <2>2
  <2>4. j + 1 \in 1..Len(signalSockets) /\ signalSockets[j + 1] = t
    BY <1>3, <2>1, <2>3
  <2> QED BY <2>3, <2>4 DEF Ahead
<1>8. Sends'
  BY <1>1, <1>7 DEF Sends, process, Types
<1>9. Owing'
  <2>1. \A t \in Sockets : UnderWay(t, data) => UnderWay(t, data)'
    BY <1>1 DEF UnderWay, process
  <2>2. s \notin owed
    BY <1>2 DEF Owing
  <2> QED BY <1>1, <1>6, <2>1, <2>2 DEF Owing, Types
<1> QED BY <1>3, <1>4, <1>5, <1>8, <1>9

\* A queued send ends: what it leaves in the queue of its socket.
LEMMA SendDoneQueues ==
  ASSUME SignalsInv, NEW s \in Sockets, NEW status, SendDone(s, status)
  PROVE  /\ at = 0 /\ at' = 0 /\ UNCHANGED <<process, conn, reply>> /\ stage # "quit"
         /\ pending[s] # <<>> /\ pending' \in [Sockets -> Seq(SignalsSent)]
         /\ Len(pending'[s]) = Len(pending[s]) - 1 /\ Len(pending[s]) \in Nat
         /\ \A t \in Sockets \ {s} : pending'[t] = pending[t]
         /\ owed' \subseteq owed
         /\ s \in owed' => UnderWay(s, data)'
         /\ \A t \in owed' \ {s} : UnderWay(t, data)'
<1> USE DEF SignalsInv
<1>1. /\ at = 0 /\ at' = 0 /\ UNCHANGED <<process, conn, reply>> /\ stage # "quit"
      /\ pending[s] # <<>> /\ pending' = [pending EXCEPT ![s] = Tail(@)]
      /\ owed' = IF Head(pending[s]) = data THEN owed \ {s} ELSE owed
  BY DEF SendDone, EventLoop
<1>2. pending[s] \in Seq(SignalsSent) /\ pending \in [Sockets -> Seq(SignalsSent)]
  BY DEF Types
<1>3. /\ Tail(pending[s]) \in Seq(SignalsSent)
      /\ Len(Tail(pending[s])) = Len(pending[s]) - 1
      /\ UnderWay(s, data) /\ Head(pending[s]) # data
           => \E k \in 1..Len(Tail(pending[s])) : Tail(pending[s])[k] = data
  BY <1>1, <1>2, Dequeued DEF UnderWay
<1>4. /\ pending' \in [Sockets -> Seq(SignalsSent)] /\ pending'[s] = Tail(pending[s])
      /\ \A t \in Sockets \ {s} : pending'[t] = pending[t]
  BY <1>1, <1>2, <1>3
<1>5. data' = data /\ \A t \in owed : t \in Sockets /\ UnderWay(t, data)
  BY <1>1 DEF process, Owing, Types
<1>6. s \in owed' => UnderWay(s, data)'
  BY <1>1, <1>3, <1>4, <1>5 DEF UnderWay
<1>7. \A t \in owed' \ {s} : UnderWay(t, data)'
  BY <1>1, <1>4, <1>5 DEF UnderWay
<1> QED BY <1>1, <1>2, <1>3, <1>4, <1>6, <1>7

\* A send ends outside of any loop.
LEMMA SendDoneStep ==
  ASSUME SignalsInv, NEW s \in Sockets, NEW status, SendDone(s, status)
  PROVE  SignalsInv'
<1> USE DEF SignalsInv
<1>1. Ends(s, status, Head(pending[s]))
  BY DEF SendDone
<1>2. /\ at = 0 /\ at' = 0 /\ UNCHANGED <<process, conn, reply>> /\ stage # "quit"
      /\ pending[s] # <<>> /\ pending' \in [Sockets -> Seq(SignalsSent)]
      /\ Len(pending'[s]) = Len(pending[s]) - 1 /\ Len(pending[s]) \in Nat
      /\ \A t \in Sockets \ {s} : pending'[t] = pending[t]
      /\ owed' \subseteq owed
      /\ \A t \in owed' : UnderWay(t, data)'
  BY SendDoneQueues
<1>3. Sends'
  BY <1>2, MaxPendingAssumption DEF Sends, process
<1>4. Owing'
  BY <1>2 DEF Owing, process
<1>5. CASE status = "disconnected"
  <2>1. /\ conn[s] = "gone" /\ deletes[s] = 0 /\ signalSockets' = Erased(s)
        /\ deletes' = [deletes EXCEPT ![s] = 1] /\ known' = known
    BY <1>1, <1>5, EndsGone
  <2>2. signalSockets' \in Seq(Sockets) /\ Distinct'
    BY <2>1, Erasing
  <2>3. Types'
    BY <1>2, <2>1, <2>2 DEF Types, process
  <2>4. Standing'
    BY <1>2, <2>1, StandsAfterErase
  <2> QED BY <1>3, <1>4, <2>2, <2>3, <2>4
<1>6. CASE status # "disconnected"
  <2>1. UNCHANGED <<signalSockets, deletes>> /\ known' \in [Sockets -> Tips]
    BY <1>1, <1>6, EndsWell
  <2>2. Types' /\ Distinct'
    BY <1>2, <2>1 DEF Types, Distinct, process
  <2>3. conn[s] \notin Early
    BY <1>2 DEF Standing
  <2>4. Standing'
    BY <1>2, <2>1, <2>3 DEF Standing, Listed
  <2> QED BY <1>3, <1>4, <2>2, <2>4
<1> QED BY <1>5, <1>6

\* A step of a miner or of the process that moves no socket of the list.
LEMMA ListUntouched ==
  ASSUME SignalsInv, UNCHANGED <<signalSockets, pending, at, data>>,
         stage' \in {"running", "stopping", "quit"},
         stage' = "running" => stage = "running", stage' = "quit" => at = 0,
         tip' \in Tips, conn' \in [Sockets -> Stages],
         deletes' \in [Sockets -> Nat], known' \in [Sockets -> Tips],
         reply' \in [Sockets -> Tips \cup {"none"}], owed' \subseteq owed, Standing', \A s \in owed' : conn'[s] = "open"
  PROVE  SignalsInv'
<1> USE DEF SignalsInv
<1>1. Types' /\ Distinct'
  BY DEF Types, Distinct
<1>2. Sends'
  BY DEF Sends, Ahead
<1>3. Owing'
  BY DEF Owing, UnderWay, Ahead
<1> QED BY <1>1, <1>2, <1>3

\* What a miner takes is a block of the pool, or it keeps its own.
LEMMA TakesTypes ==
  ASSUME SignalsInv, NEW s \in Sockets, NEW block, Takes(s, block)
  PROVE  known' \in [Sockets -> Tips]
BY DEF SignalsInv, Types, Takes

\* A reply carries the current block or none.
LEMMA CheckRequestTypes ==
  ASSUME SignalsInv, NEW stated
  PROVE  checkRequest(stated) \in Tips \cup {"none"}
BY DEF SignalsInv, Types, checkRequest

\* Requests, replies, and the connections a miner makes before it subscribes.
LEMMA MinerConnects ==
  ASSUME SignalsInv, NEW s \in Sockets,
         \/ Accept(s) \/ onConnect(s) \/ AcceptFails(s)
         \/ Reply(s) \/ ReplyLost(s) \/ PeerLeaves(s)
         \/ \E stated \in Stated : Request(s, stated)
  PROVE  SignalsInv'
<1> USE DEF SignalsInv, Moves, process
<1>1. CASE Accept(s)
  <2>1. conn' \in [Sockets -> Stages] /\ Standing'
    BY <1>1 DEF Accept, Types, Standing, Stages, Early, Listed
  <2>2. \A t \in owed' : conn'[t] = "open"
    BY <1>1 DEF Accept, Types, Owing
  <2> QED BY <1>1, <2>1, <2>2, ListUntouched DEF Accept, Types, Sends
<1>2. CASE onConnect(s)
  <2>1. known' \in [Sockets -> Tips]
    BY <1>2, TakesTypes DEF onConnect
  <2>2. conn' \in [Sockets -> Stages] /\ Standing'
    BY <1>2 DEF onConnect, Types, Standing, Stages, Early, Listed
  <2>3. \A t \in owed' : conn'[t] = "open"
    BY <1>2 DEF onConnect, Types, Owing
  <2> QED BY <1>2, <2>1, <2>2, <2>3, ListUntouched DEF onConnect, Types, Sends
<1>3. CASE AcceptFails(s)
  <2>1. conn[s] = "accepting" /\ deletes[s] = 0 /\ ~Listed(s) /\ s \notin owed
    BY <1>3 DEF AcceptFails, Standing, Early, Owing
  <2>2. deletes' \in [Sockets -> Nat] /\ deletes'[s] = 1
        /\ conn' \in [Sockets -> Stages] /\ conn'[s] = "gone"
        /\ \A t \in Sockets \ {s} : deletes'[t] = deletes[t] /\ conn'[t] = conn[t]
    BY <1>3, <2>1 DEF AcceptFails, Types, Stages
  <2>3. Standing'
    BY <1>3, <2>1, <2>2 DEF AcceptFails, Standing, Early, Listed
  <2>4. \A t \in owed' : conn'[t] = "open"
    BY <1>3, <2>1, <2>2 DEF AcceptFails, Owing, Types
  <2>5. known' \in [Sockets -> Tips] /\ reply' \in [Sockets -> Tips \cup {"none"}]
    BY <1>3 DEF AcceptFails, Forgets, Types, Tips
  <2> QED BY <1>3, <2>2, <2>3, <2>4, <2>5, ListUntouched DEF AcceptFails, Types, Sends
<1>4. CASE \E stated \in Stated : Request(s, stated)
  <2>1. PICK stated \in Stated : Request(s, stated)
    BY <1>4
  <2>2. reply' \in [Sockets -> Tips \cup {"none"}]
    BY <2>1, CheckRequestTypes DEF Request, Types
  <2>3. Standing'
    BY <2>1 DEF Request, Standing, Listed
  <2> QED BY <2>1, <2>2, <2>3, ListUntouched DEF Request, Types, Sends, Owing
<1>5. CASE Reply(s) \/ ReplyLost(s)
  <2>1. known' \in [Sockets -> Tips]
    BY <1>5, TakesTypes DEF Reply, ReplyLost, Types
  <2>2. reply' \in [Sockets -> Tips \cup {"none"}]
    BY <1>5 DEF Reply, ReplyLost, Types
  <2>3. Standing'
    BY <1>5 DEF Reply, ReplyLost, Standing, Listed
  <2> QED BY <1>5, <2>1, <2>2, <2>3, ListUntouched
          DEF Reply, ReplyLost, Types, Sends, Owing
<1>6. CASE PeerLeaves(s)
  <2>1. known' \in [Sockets -> Tips] /\ reply' \in [Sockets -> Tips \cup {"none"}]
    BY <1>6 DEF PeerLeaves, Forgets, Types, Tips
  <2> QED BY <1>6, <2>1, ListUntouched
          DEF PeerLeaves, Types, Standing, Owing, Stages, Early, Listed
<1> QED BY <1>1, <1>2, <1>3, <1>4, <1>5, <1>6

\* The handshake ends and the socket is listed, behind all others.
LEMMA SubscribeStep ==
  ASSUME SignalsInv, NEW s \in Sockets, signalsProc(s)
  PROVE  SignalsInv'
<1> USE DEF SignalsInv, Moves, process
<1>1. /\ at = 0 /\ stage # "quit" /\ conn[s] = "accepting"
      /\ conn' = [conn EXCEPT ![s] = "open"]
      /\ signalSockets' = Append(signalSockets, s)
      /\ UNCHANGED <<process, pending, at, deletes, known, reply, owed>>
  BY DEF signalsProc, EventLoop
<1>2. /\ signalSockets' \in Seq(Sockets) /\ Len(signalSockets') = Len(signalSockets) + 1
      /\ \A k \in 1..Len(signalSockets) : signalSockets'[k] = signalSockets[k]
      /\ signalSockets'[Len(signalSockets) + 1] = s /\ Len(signalSockets) \in Nat
  BY <1>1, AppendProperties, LenProperties DEF Types
<1>3. ~Listed(s) /\ deletes[s] = 0 /\ s \notin owed
  BY <1>1 DEF Standing, Early, Owing
<1>4. Types'
  BY <1>1, <1>2 DEF Types, Stages
<1>5. Distinct'
  BY <1>2, <1>3 DEF Distinct, Listed
<1>6. \A t \in Sockets : Listed(t)' <=> (Listed(t) \/ t = s)
  BY <1>2 DEF Listed
<1>7. Standing'
  BY <1>1, <1>3, <1>6 DEF Standing, Types, Early
<1>8. Sends'
  BY <1>1 DEF Sends
<1>9. Owing'
  BY <1>1, <1>3 DEF Owing, UnderWay, Types
<1> QED BY <1>4, <1>5, <1>7, <1>8, <1>9

-----------------------------------------------------------------------------
\* Every step keeps the invariant.
LEMMA Inductive == SignalsInv /\ [Next]_vars => SignalsInv'
<1> SUFFICES ASSUME SignalsInv, [Next]_vars PROVE SignalsInv'
  OBVIOUS
<1>1. CASE \E block \in Tips : NewBlock(block)
  BY <1>1, NewBlockStep
<1>2. CASE sigintProc
  BY <1>2, ShutdownStep
<1>3. CASE Quit
  BY <1>3, ListUntouched
  DEF Quit, miners, EventLoop, SignalsInv, Types, Standing, Owing, Listed
<1>4. CASE Stopped \/ UNCHANGED vars
  <2>1. UNCHANGED vars
    BY <1>4 DEF Stopped
  <2>2. Standing'
    BY <2>1 DEF vars, SignalsInv, Standing, Listed
  <2> QED BY <2>1, <2>2, ListUntouched DEF vars, SignalsInv, Types, Sends, Owing
<1>5. CASE Queue \/ LoopEnds
  BY <1>5, QueueStep, LoopEndsStep
<1>6. CASE \E s \in Sockets : Sent(s)
  BY <1>6, SendNowWell, SendNowGone, SendDoneStep DEF Sent
<1>7. CASE \E s \in Sockets : Miner(s)
  BY <1>7, MinerConnects, SubscribeStep DEF Miner
<1> QED BY <1>1, <1>2, <1>3, <1>4, <1>5, <1>6, <1>7 DEF Next

\* So it always holds.
LEMMA Invariance == Spec => []SignalsInv
  BY Initially, Inductive, PTL DEF Spec

\* Types, a list without repetition, and at most MaxPending + 1 sends under way
\* on a socket.  main.cpp:281-286.
THEOREM SignalTypes == Spec => []SignalsTypeOK
<1>1. SignalsInv => SignalsTypeOK
  <2> SUFFICES ASSUME SignalsInv PROVE SignalsTypeOK
    OBVIOUS
  <2>1. DOMAIN signalSockets = 1..Len(signalSockets)
    BY DEF SignalsInv, Types
  <2>2. IsInjective(signalSockets)
    BY <2>1 DEF SignalsInv, Distinct, IsInjective
  <2>3. ASSUME NEW s \in ToSet(signalSockets) PROVE conn[s] \in {"open", "gone"}
    <3>1. s \in Sockets /\ Listed(s)
      BY <2>1 DEF SignalsInv, Types, ToSet, Listed
    <3> QED BY <3>1 DEF SignalsInv, Types, Standing, Stages, Early
  <2> QED BY <2>2, <2>3 DEF SignalsInv, Types, Sends, SignalsTypeOK, SignalsSent
<1> QED BY <1>1, Invariance, PTL

\* Whatever ends when, sendSignalCb deletes no socket a second time, and a
\* deleted socket is not in the list that sendSignal walks.  main.cpp:88-101.
THEOREM NoSecondDelete == Spec => []DeletedOnce
<1>1. SignalsInv => DeletedOnce
  <2> SUFFICES ASSUME SignalsInv, NEW s \in Sockets
               PROVE  deletes[s] <= 1 /\ (deletes[s] = 1 => ~Contains(signalSockets, s))
    BY DEF DeletedOnce
  <2>1. deletes[s] <= 1 /\ (Listed(s) => deletes[s] = 0)
    BY DEF SignalsInv, Standing
  <2>2. Contains(signalSockets, s) => Listed(s)
    BY DEF Contains, Listed
  <2> QED BY <2>1, <2>2
<1> QED BY <1>1, Invariance, PTL

\* Every subscriber has the signal under way or done with after the loop, but
\* the one behind a socket that was erased in it.  main.cpp:103-108.
THEOREM SubscribersAreTold == Spec => []ListedAreTold
<1>1. SignalsInv => ListedAreTold
  BY DEF SignalsInv, Owing, ListedAreTold, Contains, UnderWay
<1> QED BY <1>1, Invariance, PTL

=============================================================================
