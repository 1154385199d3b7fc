------------------------- MODULE SignalsProperties -------------------------
(***************************************************************************)
(* What the pool promises the miners that listen for its signals.          *)
(***************************************************************************)
EXTENDS Signals

\* Type invariant; a socket is listed once, by signalsProc, after its
\* handshake.  main.cpp:281-286.
SignalsTypeOK ==
  /\ stage \in {"running", "stopping", "quit"}
  /\ conn \in [Sockets -> Stages] /\ at \in Nat
  /\ IsInjective(signalSockets)
  /\ \A s \in ToSet(signalSockets) : conn[s] \in {"open", "gone"}
  /\ \A s \in Sockets : pending[s] \in Seq(Tips \cup {"shutdown"})
                        /\ Len(pending[s]) <= MaxPending + 1
  /\ tip \in Tips /\ data \in Tips \cup {"shutdown"} /\ known \in [Sockets -> Tips]
  /\ reply \in [Sockets -> Tips \cup {"none"}]
  /\ owed \subseteq Sockets

\* Though several sends may be under way on a socket, each with a callback
\* that deletes it when its peer is gone, it is deleted once, and nothing is
\* sent to it afterwards: it is no longer listed.  main.cpp:91-99.
DeletedOnce ==
  \A s \in Sockets :
    deletes[s] <= 1 /\ (deletes[s] = 1 => ~Contains(signalSockets, s))

\* Every miner that has subscribed when a signal goes out has it under way, or
\* has got it or its send timed out - unless its socket stood right behind one
\* that was erased under the loop.  main.cpp:103-108.
ListedAreTold ==
  at = 0 => \A s \in owed : Contains(pending[s], data)

\* While signals keep being sent, a socket whose peer has left does not stay
\* in the list, although erasing one makes the loop pass over another and
\* nothing reads from these sockets.  main.cpp:88-108.
GoneIsForgotten ==
  \A s \in Sockets :
    []<>(at # 0) =>
      ((conn[s] = "gone" /\ Contains(signalSockets, s)) ~> ~Contains(signalSockets, s))

\* A miner that goes on sending requests with its height ends up on the pool's
\* block or on one at least as high, whatever signals and replies it missed or
\* got late, older blocks after newer ones; replies alone do not tell it of
\* another block of the same height.  zcashpool.cpp:57-61.
RequestersCatchUp ==
  \A s \in Sockets, b \in Blocks :
    <>[](tip = b /\ stage # "quit" /\ conn[s] = "open")
      => <>[](Height[known[s]] >= Height[b])
=============================================================================
