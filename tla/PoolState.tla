----------------------------- MODULE PoolState -----------------------------
(***************************************************************************)
(* The state the coroutines of pool_frontend_zcash share.                  *)
(*                                                                         *)
(* The program runs one event loop thread.  Every connection, the timer    *)
(* and every work update is a coroutine, and control passes from one to    *)
(* another only at an io* call: a step of this model is what one coroutine *)
(* does between two such calls.  The calls that matter are the three RPCs  *)
(* to the zcashd wallet (ioGetBlockTemplate, ioSendProofOfWork,            *)
(* ioGetCurrentBlock), because the shared state moves while they wait.     *)
(***************************************************************************)
EXTENDS Integers, Sequences, FiniteSets, FiniteSetsExt

CONSTANTS
  \* ---- coroutines
  Miners,         \* connections of the native protocol (mainProc)
  MaxSessions,    \* bound: stratum connections ever accepted (stratumProc)
  Walkers,        \* bound: updateStratumWorkers coroutines alive at a time
  Timer,          \* the timerProc coroutine
  \* ---- the chain and what can be mined on it
  Blocks,         \* block hashes
  Height,         \* the height of each block
  NoBlock,        \* the empty hash of mCurrBlock before the first block
  ExtraNonces,    \* bound: block templates the wallet builds on one tip
  Nonces,         \* the (time, nonce, solution) a share carries
  EquihashValid,  \* shares whose solution IsValidSolution accepts
  InShareTarget,  \* shares whose hash is at most shareTarget
  InBlockTarget,  \* shares whose hash is at most blockTarget
  \* ---- configuration of the pool
  EquihashCheck,  \* equihashShareCheck
  CheckAddress,   \* checkAddress
  \* ---- the wallet's side
  WalletReissues, \* may a template be served again (a restarted zcashd)?
  MaxSignals,     \* bound: NewBlock signals under way
  \* ---- answers that are not data
  Null,           \* a null result of an RPC; the empty task of a map lookup
  Pending,        \* the RPC has not been answered
  Accepted, Rejected, \* the results of ioSendProofOfWork
  NoClaim         \* no share is waiting for its proof-of-work check

Sessions   == 0..(MaxSessions - 1)
Coroutines == Miners \cup Sessions \cup Walkers \cup {Timer}
Walks      == Walkers \cup {Timer}

\* A template is known by its merkle root.  The wallet numbers the coinbases
\* it builds on one tip, so the tip and that number determine the root.
Templates == [tip : Blocks, extraNonce : ExtraNonces]

\* A share is known by its header hash: the previous block the pool puts in
\* the header it rebuilds, the merkle root, and what the miner found.
Shares == [prev : Blocks \cup {NoBlock}, merkle : Templates, nonce : Nonces]

\* A share waiting for ioSendProofOfWork: the arguments of the call and
\* whether its reply is already marked INVALID.
Claims == [share : Shares, extraNonce : ExtraNonces, height : Nat,
           invalid : BOOLEAN]

ASSUME HeightAssumption == Height \in [Blocks -> Nat \ {0}]
ASSUME SessionsAssumption == MaxSessions \in Nat
ASSUME TargetsAssumption ==
  /\ EquihashValid \subseteq Shares
  /\ InShareTarget \subseteq Shares
  /\ InBlockTarget \subseteq Shares
ASSUME FlagsAssumption ==
  /\ EquihashCheck \in BOOLEAN /\ CheckAddress \in BOOLEAN
  /\ WalletReissues \in BOOLEAN /\ MaxSignals \in Nat
ASSUME NoBlockAssumption == NoBlock \notin Blocks
ASSUME MarkersAssumption ==
  /\ Null # Pending /\ Accepted # Rejected
  /\ {Null, Pending} \cap {Accepted, Rejected} = {}
  /\ {Null, Pending, Accepted, Rejected} \cap (Templates \cup Blocks) = {}
  /\ NoClaim \notin Claims
ASSUME CoroutinesAssumption ==
  /\ Miners \cap Sessions = {} /\ Miners \cap Walks = {}
  /\ Sessions \cap Walks = {}
  /\ Timer \notin Walkers

VARIABLES
  \* ---- poolContext
  currHeight, currHash,  \* mCurrBlock
  published,             \* the block of the last NEWBLOCK signal to miners
  extraNonceMap,         \* merkle root -> extra nonce (native protocol)
  stratumTaskMap,        \* extra nonce -> merkle root (stratum)
  uniqueShares,          \* header hashes seen
  stratumWorkers,        \* session -> worker record
  sessionId,             \* the next session
  connectedBefore,       \* timerProc's copy of the link state
  \* ---- coroutines
  pc,       \* where each coroutine is suspended
  answer,   \* the wallet's answer to the RPC it waits for
  visit,    \* the loop over stratumWorkers a walker is in
  claim,    \* the share it waits to have checked
  \* ---- the wallet (external)
  tip, chain, connected, signals, served, found,
  overlooked, \* history: may the pool have missed the wallet's last block?
  \* ---- what leaves the pool
  credits,  \* share -> the Share messages sent to the backend
  reply,    \* the answer to a miner's request given in this step
  job,      \* the last mining.notify each stratum session received
  process   \* "running", or "crashed" by a use of freed memory

blockVars    == <<currHeight, currHash, published>>
taskVars     == <<extraNonceMap, stratumTaskMap>>
registryVars == <<stratumWorkers, sessionId>>
callVars     == <<pc, answer, claim>>
walletVars   == <<tip, chain, connected, signals, served, found, overlooked>>
vars == <<blockVars, taskVars, uniqueShares, registryVars, connectedBefore,
          callVars, visit, walletVars, credits, reply, job, process>>

-----------------------------------------------------------------------------
\* Maps

EmptyMap == [k \in {} |-> k]

\* m[k] = v
Put(m, k, v) == [x \in (DOMAIN m) \cup {k} |-> IF x = k THEN v ELSE m[x]]

\* m.erase(k)
Erase(m, k) == [x \in (DOMAIN m) \ {k} |-> m[x]]

-----------------------------------------------------------------------------
\* RPCs and replies

NoReply == [type |-> "none", error |-> "none"]
Reply(type, error) == reply' = [type |-> type, error |-> error]
Silent == reply' = NoReply

\* Coroutine c suspends at label in an RPC.
Call(c, label) ==
  /\ pc' = [pc EXCEPT ![c] = label]
  /\ answer' = [answer EXCEPT ![c] = Pending]

\* The RPC coroutine c waits for has been answered and c continues at label.
Resume(c, label) ==
  /\ answer[c] # Pending
  /\ pc' = [pc EXCEPT ![c] = label]
  /\ answer' = [answer EXCEPT ![c] = Null]

Suspended(c) == pc[c] \in {"template", "pow", "getblock", "update", "refresh"}
WaitsForTemplate(c) == pc[c] \in {"template", "update", "refresh"}

-----------------------------------------------------------------------------
\* Shares

\* The header is rebuilt on the pool's own current block.
HeaderOf(merkle, nonce) ==
  [prev |-> currHash, merkle |-> merkle, nonce |-> nonce]

\* The Share message to the backend: the block height is read when the
\* message is built.
Credit(h, isBlock) ==
  credits' = [credits EXCEPT ![h] =
                Append(@, [height |-> currHeight + 1, isBlock |-> isBlock])]

-----------------------------------------------------------------------------
\* Worker records

\* stratumWorkers[s] with operator[]: a missing record is created with an
\* uninitialised socket and lastUpdateTime 0.
Record(workers, s) ==
  IF s \in DOMAIN workers THEN workers[s] ELSE [socket |-> "wild", due |-> TRUE]

\* What stratumSendNewWork does once it has template m for session s, sent
\* to a live socket or not: the task is stored and the record touched.
HasWork(m) == m # Null /\ currHash # NoBlock
TasksAfterWork(m) ==
  IF HasWork(m) THEN Put(stratumTaskMap, m.extraNonce, m) ELSE stratumTaskMap
WorkersAfterWork(s, m) ==
  IF HasWork(m)
  THEN Put(stratumWorkers, s, [Record(stratumWorkers, s) EXCEPT !.due = FALSE])
  ELSE stratumWorkers
JobsAfterWork(s, m, delivered) ==
  IF HasWork(m) /\ delivered
  THEN [job EXCEPT ![s] = [prev |-> currHash, merkle |-> m]]
  ELSE job

-----------------------------------------------------------------------------
\* The current block

\* A block arrives, by signal or from ioGetCurrentBlock: work and shares of
\* the previous one are forgotten and NEWBLOCK is published.
AdoptBlockKeepsWork(b) ==  \* mutant: the work of the last block stays known
  /\ currHeight' = Height[b]
  /\ currHash' = b
  /\ published' = [height |-> Height[b], hash |-> b]
  /\ stratumTaskMap' = EmptyMap
  /\ uniqueShares' = {}
  /\ UNCHANGED extraNonceMap

AdoptBlockOldHash(b) ==  \* mutant: the hash of the last block stays
  /\ currHeight' = Height[b]
  /\ published' = [height |-> Height[b], hash |-> b]
  /\ extraNonceMap' = EmptyMap
  /\ stratumTaskMap' = EmptyMap
  /\ uniqueShares' = {}
  /\ UNCHANGED currHash

AdoptBlock(b) ==
  /\ currHeight' = Height[b]
  /\ currHash' = b
  /\ published' = [height |-> Height[b], hash |-> b]
  /\ extraNonceMap' = EmptyMap
  /\ stratumTaskMap' = EmptyMap
  /\ uniqueShares' = {}
=============================================================================
