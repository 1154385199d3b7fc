------------------------------- MODULE MCPool -------------------------------
(***************************************************************************)
(* Small instances of the frontend for TLC.  What a nonce is worth is part *)
(* of its name: "block" solves a block, "share" meets the share target     *)
(* only, "weak" misses it, and the solution of "forged" is not valid.      *)
(***************************************************************************)
EXTENDS PoolProperties, TLC

MCEquihashValid == {h \in Shares : h.nonce # "forged"}
MCInShareTarget == {h \in Shares : h.nonce # "weak"}
MCInBlockTarget == {h \in Shares : h.nonce \in {"block", "forged"}}

\* Block 1 is the first; 2 and, where there is one, 3 are its rival successors.
MCHeight == [b \in Blocks |-> IF b = 1 THEN 1 ELSE 2]

\* reply and job are outputs: nothing later depends on them.
WithoutOutputs ==
  <<blockVars, taskVars, uniqueShares, registryVars, connectedBefore,
    callVars, visit, walletVars, credits, process>>

\* Bounds on the behaviours explored, as state constraints: the link does not
\* drop again after the first block; nobody leaves.  The wallet serves at most
\* two templates, and numbers those of one tip from 1.
LinkStaysUp == currHash # NoBlock => connected
NoReorg == chain = {b \in Blocks : b <= tip}
LoginFirst == \A s \in DOMAIN stratumWorkers : stratumWorkers[s].socket = "own"
NothingGetsOld == pc[Timer] # "refresh"
OneShare ==
  Cardinality(uniqueShares \cup {h \in Shares : credits[h] # <<>>}) <= 1
TwoTemplates == Cardinality(served) <= 2
Numbered ==
  \A m \in served : m.extraNonce = 2 => [m EXCEPT !.extraNonce = 1] \in served
BlockFirst ==  \* nobody comes before the pool has its first block
  currHash = NoBlock =>
    served = {} /\ sessionId = 0 /\ \A c \in Miners : pc[c] = "closed"
NobodyLeaves == \A s \in Sessions : pc[s] # "closed"

\* For liveness: a session logs in, at any time, and then only gets work.
Quiet ==
  /\ reply'.type # "submit"
  /\ DOMAIN stratumWorkers \subseteq DOMAIN stratumWorkers'
  /\ reply'.type = "authorize" =>
       DOMAIN stratumWorkers' # DOMAIN stratumWorkers
QuietSpec ==
  /\ Init /\ [][Next /\ Quiet]_vars
  /\ LoopFairness /\ WalletFairness

\* Without shares nothing depends on the tasks, and if templates may be served
\* again nothing depends on what the wallet served or signalled before.
WithoutWork ==
  <<currHeight, currHash, registryVars, connectedBefore, pc, answer, visit,
    tip, connected, signals, overlooked, job, process>>

Interchangeable == Permutations(Miners) \cup Permutations(Walkers)
=============================================================================
