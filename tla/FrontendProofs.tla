--------------------------- MODULE FrontendProofs ---------------------------
(***************************************************************************)
(* What a step of the frontend may do to the current block, the work, the  *)
(* shares under way and the messages to the backend; and what follows from *)
(* it for every number of connections, sessions, blocks and templates: the *)
(* arguments of a proof-of-work call fit together, block shares are blocks *)
(* the wallet made, shares have the height of their header, the frontend   *)
(* implements the ledger of ShareLedger and answers its miners truly, and  *)
(* the registry agrees with the connections, and no block is lost.         *)
(***************************************************************************)
EXTENDS PoolProofs

\* mCurrBlock is a block with its height, or its height is taken away.
BlockMoves ==
  \/ UNCHANGED <<currHeight, currHash>>
  \/ currHeight' = 0 /\ UNCHANGED currHash
  \/ \E b \in Blocks : currHeight' = Height[b] /\ currHash' = b

\* Work is kept, forgotten, or entered with its own extra nonce.
TaskMoves ==
  /\ \A m \in DOMAIN extraNonceMap' :
       \/ m \in DOMAIN extraNonceMap /\ extraNonceMap'[m] = extraNonceMap[m]
       \/ extraNonceMap'[m] = m.extraNonce
  /\ \A e \in DOMAIN stratumTaskMap' :
       \/ e \in DOMAIN stratumTaskMap /\ stratumTaskMap'[e] = stratumTaskMap[e]
       \/ stratumTaskMap'[e] # Null => stratumTaskMap'[e].extraNonce = e

\* A claim made now: its header is built on the current block and its work is
\* in the map of its protocol.
MadeNow(cl) ==
  /\ cl.share \in Shares /\ (cl.invalid <=> EquihashRefuses(cl.share))
  /\ cl.share.prev = currHash /\ cl.height = currHeight
  /\ \/ /\ cl.share.merkle \in DOMAIN extraNonceMap
        /\ cl.extraNonce = extraNonceMap[cl.share.merkle]
     \/ /\ cl.extraNonce \in DOMAIN stratumTaskMap
        /\ stratumTaskMap[cl.extraNonce] # Null
        /\ cl.share.merkle = stratumTaskMap[cl.extraNonce]
ClaimMoves ==
  \A c \in Coroutines :
    \/ claim'[c] = claim[c] \/ claim'[c] = NoClaim
    \/ MadeNow(claim'[c]) /\ (c \in Sessions => ~claim'[c].invalid)

\* The wallet accepts what it makes a block, and nobody else accepts a share.
AcceptedClaim(c) == claim[c] # NoClaim /\ answer[c] = Accepted
VerdictMoves ==
  /\ found \subseteq found'
  /\ \A h \in found' : h \in found \/ h.merkle.tip = h.prev
  /\ \A c \in Coroutines : AcceptedClaim(c)' =>
       /\ claim'[c] = claim[c]
       /\ AcceptedClaim(c) \/ claim[c].share \in found'

\* At most one message is sent: a plain share of the current block, or a share
\* the wallet has accepted.
CreditMoves ==
  \/ UNCHANGED credits
  \/ \E h \in Shares : h.prev = currHash /\ Credit(h, FALSE)
  \/ \E c \in Coroutines : AcceptedClaim(c) /\ Credit(claim[c].share, TRUE)

Moves ==
  BlockMoves /\ TaskMoves /\ ClaimMoves /\ VerdictMoves /\ CreditMoves

-----------------------------------------------------------------------------
\* Steps that leave a part alone

\* What a step leaves unchanged it moves as it may.
LEMMA Unmoved ==
  /\ UNCHANGED blockVars => BlockMoves
  /\ UNCHANGED taskVars => TaskMoves
  /\ UNCHANGED claim => ClaimMoves
  /\ UNCHANGED credits => CreditMoves
BY DEF BlockMoves, TaskMoves, ClaimMoves, CreditMoves, blockVars, taskVars

\* A coroutine that starts or ends a call has no verdict.
LEMMA CallHasNoVerdict ==
  ASSUME TypeOK, NEW c \in Coroutines, NEW a \in {Null, Pending},
         answer' = [answer EXCEPT ![c] = a],
         \A d \in Coroutines \ {c} : claim'[d] = claim[d], UNCHANGED found
  PROVE  VerdictMoves
<1>1. answer'[c] # Accepted
  BY MarkersAssumption DEF TypeOK, CallTypes
<1>2. \A d \in Coroutines \ {c} : answer'[d] = answer[d]
  BY DEF TypeOK, CallTypes
<1> QED BY <1>1, <1>2 DEF VerdictMoves, AcceptedClaim

\* No new verdict without a new answer.
LEMMA SameVerdicts ==
  ASSUME TypeOK, UNCHANGED <<answer, claim, found>> PROVE VerdictMoves
BY DEF VerdictMoves, AcceptedClaim

-----------------------------------------------------------------------------
\* Native protocol

\* The steps of the native protocol move the shared state so.
LEMMA ZmqMoves ==
  ASSUME TypeOK, ZmqNext
  PROVE  Moves
<1>1. PICK c \in Miners : \/ ZmqConnect(c) \/ ZmqClose(c) \/ OnGetWork(c)
                          \/ OnShare(c) \/ ZmqReturn(c)
  BY DEF ZmqNext
<1>2. c \in Coroutines
  BY Kinds
<1>3. UNCHANGED zmqUnchanged
  BY <1>1, OnShareSplit
     DEF TypeOK, ZmqConnect, ZmqClose, OnGetWork, ZmqReturn, NoTemplate,
         TemplateForMiner, BlockRefused, BlockAccepted, RefusedShare, PlainShare,
         BlockShare
<1>4. BlockMoves
  BY <1>3, Unmoved DEF zmqUnchanged
<1>5. UNCHANGED <<found, stratumTaskMap>>
  BY <1>3 DEF zmqUnchanged, walletVars
<1>6. CASE \/ ZmqConnect(c) \/ ZmqClose(c)
           \/ \E label \in {"recv", "closed"} :
                \E error : RefusedShare(c, label, error)
  <2>1. UNCHANGED <<extraNonceMap, answer, claim, credits>>
    BY <1>6 DEF ZmqConnect, ZmqClose, RefusedShare
  <2> QED BY <1>4, <1>5, <2>1, Unmoved, SameVerdicts DEF Moves, taskVars
<1>7. CASE OnGetWork(c) \/ NoTemplate(c) \/ TemplateForMiner(c)
  <2>1. UNCHANGED <<claim, credits>>
    BY <1>7 DEF OnGetWork, NoTemplate, TemplateForMiner
  <2>2. VerdictMoves
    BY <1>2, <1>5, <1>7, <2>1, CallHasNoVerdict
       DEF OnGetWork, NoTemplate, TemplateForMiner, Call, Resume
  <2>3. TaskMoves
    BY <1>5, <1>7 DEF TaskMoves, Put, OnGetWork, NoTemplate, TemplateForMiner
  <2> QED BY <1>4, <2>1, <2>2, <2>3, Unmoved DEF Moves
<1>8. ASSUME NEW height, NEW h \in Shares, h.prev = currHash, PlainShare(c, height, h)
      PROVE  Moves
  <2>1. UNCHANGED <<extraNonceMap, answer, claim>>
    BY <1>8 DEF PlainShare, callVars
  <2>2. CreditMoves
    BY <1>8 DEF PlainShare, SendShare, CreditMoves
  <2> QED BY <1>4, <1>5, <2>1, <2>2, Unmoved, SameVerdicts DEF Moves, taskVars
<1>9. ASSUME NEW height, NEW h \in Shares, h.prev = currHash, BlockShare(c, height, h)
      PROVE  Moves
  <2> USE <1>9 DEF BlockShare, Call
  <2>1. ClaimMoves
    <3>1. MadeNow(claim'[c])
      <4>1. claim'[c] = [share |-> h, extraNonce |-> extraNonceMap[h.merkle],
                      height |-> currHeight, invalid |-> EquihashRefuses(h)]
        BY <1>2 DEF TypeOK, CallTypes
      <4>2. h.merkle \in DOMAIN extraNonceMap
        BY DEF NewShare, CurrentWork
      <4> QED BY <4>1, <4>2 DEF MadeNow
    <3>2. \A d \in Coroutines \ {c} : claim'[d] = claim[d]
      BY DEF TypeOK, CallTypes
    <3> QED BY <3>1, <3>2, Kinds DEF ClaimMoves
  <2>2. VerdictMoves
    <3>1. \A d \in Coroutines \ {c} : claim'[d] = claim[d]
      BY DEF TypeOK, CallTypes
    <3> QED BY <1>2, <1>5, <3>1, CallHasNoVerdict
  <2> QED BY <1>4, <1>5, <2>1, <2>2, Unmoved DEF Moves, taskVars
<1>10. CASE BlockRefused(c) \/ BlockAccepted(c)
  <2> USE <1>10 DEF BlockRefused, BlockAccepted, Resume
  <2>1. claim[c] \in Claims /\ claim[c] # NoClaim
    BY <1>2, MarkersAssumption DEF TypeOK, CallTypes, CallOK
  <2>2. /\ claim'[c] = NoClaim
        /\ \A d \in Coroutines \ {c} : claim'[d] = claim[d]
    BY <1>2 DEF TypeOK, CallTypes
  <2>3. VerdictMoves
    BY <1>2, <1>5, <2>2, CallHasNoVerdict
  <2>4. CreditMoves
    BY <1>2, <2>1 DEF CreditMoves, AcceptedClaim, SendShare
  <2> QED BY <1>4, <1>5, <2>2, <2>3, <2>4, Unmoved DEF Moves, ClaimMoves, taskVars
<1>11. OnShare(c) =>
         \/ \E label \in {"recv", "closed"} :
                \E error : RefusedShare(c, label, error)
         \/ \E height : \E h \in Shares :
              /\ h.prev = currHash
              /\ PlainShare(c, height, h) \/ BlockShare(c, height, h)
  BY OnShareSplit DEF TypeOK
<1> QED BY <1>1, <1>6, <1>7, <1>8, <1>9, <1>10, <1>11 DEF ZmqReturn

-----------------------------------------------------------------------------
\* Stratum

\* Work that stratumSendNewWork stores is stored under its own extra nonce.
LEMMA SentWorkMoves ==
  ASSUME NEW m, stratumTaskMap' = TasksAfterWork(m), UNCHANGED extraNonceMap
  PROVE  TaskMoves
BY DEF TaskMoves, TasksAfterWork, HasWork, Put

\* Looking up an unknown job enters an empty task.
LEMMA LookupMoves ==
  ASSUME NEW e, stratumTaskMap' = TasksAfterLookup(e), UNCHANGED extraNonceMap
  PROVE  TaskMoves
BY DEF TaskMoves, TasksAfterLookup, Put

\* Stratum: the steps that neither make nor judge a claim.
LEMMA SessionMoves ==
  ASSUME TypeOK, NEW s \in Sessions,
         \/ StratumAccept \/ StratumClose(s) \/ WorkLifeTimeExpires(s)
         \/ \E valid \in BOOLEAN : OnStratumAuthorize(s, valid)
         \/ StratumWork(s)
         \/ BadJobName(s)
         \/ \E e \in ExtraNonces :
              \/ UnknownJob(s, e)
              \/ \E n \in Nonces : BadShare(s, e, n) \/ DuplicateSubmit(s, e, n)
  PROVE  Moves
<1> USE DEF StratumAccept, StratumClose, WorkLifeTimeExpires, OnStratumAuthorize,
            StratumWork, BadJobName, UnknownJob, BadShare, DuplicateSubmit,
            RefuseSubmit
<1>1. s \in Coroutines
  BY Kinds
<1>2. UNCHANGED <<stratumUnchanged, claim, credits>>
  BY DEF callVars, stratumUnchanged, registryVars
<1>3. UNCHANGED <<blockVars, extraNonceMap, found>>
  BY <1>2 DEF stratumUnchanged, walletVars
<1>4. VerdictMoves
  <2>1. CASE UNCHANGED answer
    BY <1>2, <1>3, <2>1, SameVerdicts
  <2>2. CASE Call(s, "template") \/ Resume(s, "read")
    BY <1>1, <1>2, <1>3, <2>2, CallHasNoVerdict DEF Call, Resume
  <2> QED BY <2>1, <2>2 DEF callVars
<1>5. TaskMoves
  <2>1. CASE UNCHANGED stratumTaskMap
    BY <1>3, <2>1, Unmoved DEF taskVars
  <2>2. CASE StratumWork(s)
    BY <1>3, <2>2, SentWorkMoves
  <2>3. CASE \E e \in ExtraNonces : stratumTaskMap' = TasksAfterLookup(e)
    BY <1>3, <2>3, LookupMoves
  <2> QED BY <2>1, <2>2, <2>3
<1> QED BY <1>2, <1>3, <1>4, <1>5, Unmoved DEF Moves

\* The steps of stratum move the shared state so.
LEMMA StratumMoves ==
  ASSUME TypeOK, StratumNext
  PROVE  Moves
<1>1. ASSUME NEW s \in Sessions, NEW e \in ExtraNonces, NEW n \in Nonces, KnownJob(e),
             \/ PlainSubmit(s, e, HeaderOfJob(e, n))
             \/ BlockSubmit(s, e, HeaderOfJob(e, n))
      PROVE  Moves
  <2> DEFINE h == HeaderOfJob(e, n)
  <2>1. s \in Coroutines
    BY Kinds
  <2>2. stratumTaskMap[e] \in Templates
    BY <1>1 DEF KnownJob, TypeOK, TaskTypes, WalletTypes
  <2>3. h \in Shares /\ h.prev = currHash /\ h.merkle = stratumTaskMap[e]
    BY <2>2, HeaderIsShare DEF HeaderOfJob, TypeOK
  <2> HIDE DEF h
  <2>4. UNCHANGED <<stratumUnchanged, stratumTaskMap>>
    BY <1>1 DEF PlainSubmit, BlockSubmit, CountShare, RefuseSubmit
  <2>5. UNCHANGED <<blockVars, taskVars, found>>
    BY <2>4 DEF stratumUnchanged, walletVars, taskVars
  <2>6. CASE PlainSubmit(s, e, h)
    <3> USE <2>6 DEF PlainSubmit
    <3>1. VerdictMoves
      <4>1. CASE UNCHANGED answer
        BY <2>5, <4>1, SameVerdicts
      <4>2. CASE Call(s, "template")
        BY <2>1, <2>5, <4>2, CallHasNoVerdict DEF Call
      <4> QED BY <4>1, <4>2 DEF RefuseSubmit
    <3>2. CreditMoves
      BY <2>3 DEF CountShare, RefuseSubmit, CreditMoves
    <3> QED BY <2>5, <3>1, <3>2, Unmoved DEF Moves
  <2>7. CASE BlockSubmit(s, e, h)
    <3> USE <2>7 DEF BlockSubmit, Call
    <3>1. \A d \in Coroutines \ {s} : claim'[d] = claim[d]
      BY DEF TypeOK, CallTypes
    <3>2. MadeNow(claim'[s])
      <4>1. claim'[s] = [share |-> h, extraNonce |-> e, height |-> currHeight,
                         invalid |-> FALSE]
        BY <2>1 DEF TypeOK, CallTypes
      <4>2. EquihashRefuses(h) = FALSE
        BY DEF NewSubmit, GoodShare, EquihashRefuses
      <4> QED BY <1>1, <2>3, <4>1, <4>2 DEF MadeNow, KnownJob
    <3>3. ClaimMoves
      BY <3>1, <3>2 DEF ClaimMoves
    <3>4. VerdictMoves
      BY <2>1, <2>5, <3>1, CallHasNoVerdict
    <3> QED BY <2>5, <3>3, <3>4, Unmoved DEF Moves
  <2> QED BY <1>1, <2>6, <2>7 DEF h
<1>2. ASSUME NEW s \in Sessions, BlockSubmitRefused(s) \/ BlockSubmitAccepted(s)
      PROVE  Moves
  <2> USE <1>2 DEF BlockSubmitRefused, BlockSubmitAccepted
  <2>1. s \in Coroutines
    BY Kinds
  <2>2. claim[s] \in Claims /\ claim[s] # NoClaim
    BY <2>1, MarkersAssumption DEF TypeOK, CallTypes, CallOK
  <2>3. /\ claim'[s] = NoClaim
        /\ \A d \in Coroutines \ {s} : claim'[d] = claim[d]
    BY <2>1 DEF TypeOK, CallTypes
  <2>4. UNCHANGED <<stratumUnchanged, stratumTaskMap>>
    BY DEF CountShare, RefuseSubmit
  <2>5. UNCHANGED <<blockVars, taskVars, found>>
    BY <2>4 DEF stratumUnchanged, walletVars, taskVars
  <2>6. VerdictMoves
    BY <2>1, <2>3, <2>5, CallHasNoVerdict DEF RefuseSubmit, Call, Resume
  <2>7. CreditMoves
    BY <2>1, <2>2 DEF CreditMoves, AcceptedClaim, CountShare, RefuseSubmit
  <2> QED BY <2>3, <2>5, <2>6, <2>7, Unmoved DEF Moves, ClaimMoves
<1>3. CASE StratumAccept
  <2>1. sessionId \in Sessions
    BY <1>3, SessionsAssumption DEF StratumAccept, Sessions, TypeOK, RegistryTypes
  <2> QED BY <1>3, <2>1, SessionMoves
<1> QED BY <1>1, <1>2, <1>3, SessionMoves
        DEF StratumNext, OnStratumSubmit, StratumReturn

-----------------------------------------------------------------------------
\* Work distribution and wallet

\* A new block: the work is forgotten.
LEMMA AdoptBlockMoves ==
  ASSUME NEW b \in Blocks, AdoptBlock(b) PROVE BlockMoves /\ TaskMoves
BY DEF AdoptBlock, BlockMoves, TaskMoves, EmptyMap

\* A walk that goes on has no verdict.
LEMMA GoToHasNoVerdict ==
  ASSUME TypeOK, NEW w \in Walks, NEW loop, NEW from, NEW workers,
         GoTo(w, NextStop(w, loop, from, workers)), UNCHANGED <<claim, found>>
  PROVE  VerdictMoves
<1>1. NextStop(w, loop, from, workers).answer \in {Null, Pending}
  BY DEF NextStop
<1> QED BY <1>1, CallHasNoVerdict, Kinds DEF GoTo

\* The steps of the work distribution move the shared state so.
LEMMA WorkMovesOn ==
  ASSUME TypeOK, WorkNext
  PROVE  Moves
<1>1. CASE NewBlockSignal
  <2> USE <1>1 DEF NewBlockSignal
  <2>1. Head(signals) \in Blocks
    BY DEF TypeOK, WalletTypes
  <2>2. VerdictMoves
    BY GoToHasNoVerdict, Kinds DEF StartWalk
  <2> QED BY <2>1, <2>2, AdoptBlockMoves, Unmoved DEF Moves
<1>2. ASSUME NEW w \in Walks, WalkStep(w) PROVE Moves
  <2>1. /\ stratumTaskMap' = TasksAfterWork(answer[w])
        /\ UNCHANGED <<extraNonceMap, claim, credits, blockVars, found>>
    BY <1>2 DEF WalkStep, workUnchanged, walletVars
  <2>2. VerdictMoves
    BY <1>2, <2>1, GoToHasNoVerdict DEF WalkStep
  <2> QED BY <2>1, <2>2, SentWorkMoves, Unmoved DEF Moves
<1>3. ASSUME NEW w \in Walks, WalkCrash(w) PROVE Moves
  BY <1>3, SameVerdicts, Unmoved DEF Moves, WalkCrash, callVars, walletVars
<1>4. CASE TimerStep
  <2>1. UNCHANGED <<claim, credits, found>>
    BY <1>4 DEF TimerStep, TimerTick, TimerSeesLinkUp, TimerGetsNoBlock,
       TimerGetsBlock, TimerSeesLinkDown, timerUnchanged, walletVars
  <2>2. VerdictMoves
    BY <1>4, <2>1, GoToHasNoVerdict, CallHasNoVerdict, Kinds
       DEF TimerStep, TimerTick, TimerSeesLinkUp, TimerGetsNoBlock, TimerGetsBlock,
           TimerSeesLinkDown, StartWalk, Call, Resume
  <2>3. CASE TimerGetsBlock
    <3>1. answer[Timer] \in Blocks
      BY <2>3, Kinds DEF TimerGetsBlock, TypeOK, CallTypes, CallOK, Answers
    <3> QED BY <2>1, <2>2, <2>3, <3>1, AdoptBlockMoves, Unmoved
            DEF TimerGetsBlock, Moves
  <2>4. CASE TimerSeesLinkDown
    BY <2>1, <2>2, <2>4, Unmoved DEF TimerSeesLinkDown, BlockMoves, Moves
  <2>5. CASE TimerTick \/ TimerSeesLinkUp \/ TimerGetsNoBlock
    BY <2>1, <2>2, <2>5, Unmoved
       DEF TimerTick, TimerSeesLinkUp, TimerGetsNoBlock, Moves
  <2> QED BY <1>4, <2>3, <2>4, <2>5 DEF TimerStep
<1> QED BY <1>1, <1>2, <1>3, <1>4 DEF WorkNext

\* The steps of the wallet and the link move the shared state so.
LEMMA WalletMoves ==
  ASSUME TypeOK, WalletNext
  PROVE  Moves
<1>0. \A h \in found' : h \in found \/ h.merkle.tip = h.prev
  <2>1. ASSUME NEW c \in Coroutines, ServePowAccepted(c)
        PROVE  /\ found' = found \cup {claim[c].share}
               /\ claim[c].share.merkle.tip = claim[c].share.prev
    <3>1. /\ claim[c].share.prev = tip
          /\ claim[c].share.merkle = [tip |-> tip, extraNonce |-> claim[c].extraNonce]
      BY <2>1 DEF ServePowAccepted, MakesBlock
    <3> QED BY <2>1, <3>1 DEF ServePowAccepted
  <2>2. WalletNext /\ (\A c \in Coroutines : ~ServePowAccepted(c)) => UNCHANGED found
    BY DEF WalletNext, NewTip, ServeBlock, LinkDown, LinkUp, ServeTemplate,
       ServePowRejected, CallFails, walletVars
  <2> QED BY <2>1, <2>2
<1>1. UNCHANGED poolSideVars /\ found \subseteq found'
  BY DEF WalletNext, NewTip, ServeBlock, LinkDown, LinkUp, ServeTemplate,
     ServePowAccepted, ServePowRejected, CallFails, walletVars
<1>2. UNCHANGED <<blockVars, taskVars, claim, credits>>
  BY <1>1 DEF poolSideVars
<1>3. ASSUME NEW c \in Coroutines, AcceptedClaim(c)'
      PROVE  AcceptedClaim(c) \/ claim[c].share \in found'
  <2>1. CASE NewTip \/ LinkUp
    BY <1>2, <1>3, <2>1 DEF NewTip, LinkUp, AcceptedClaim
  <2>2. CASE LinkDown
    BY <1>2, <1>3, <2>2, MarkersAssumption DEF LinkDown, AcceptedClaim
  <2>3. CASE ServeBlock
    BY <1>2, <1>3, <2>3, Kinds, MarkersAssumption
       DEF ServeBlock, Answer, AcceptedClaim, TypeOK, WalletTypes, CallTypes
  <2>4. ASSUME NEW d \in Coroutines, ServeTemplate(d)
        PROVE  AcceptedClaim(c) \/ claim[c].share \in found'
    BY <1>2, <1>3, <2>4, MarkersAssumption
       DEF ServeTemplate, Answer, AcceptedClaim, TypeOK, CallTypes
  <2>5. ASSUME NEW d \in Coroutines, ServePowAccepted(d)
        PROVE  AcceptedClaim(c) \/ claim[c].share \in found'
    BY <1>2, <1>3, <2>5
       DEF ServePowAccepted, Answer, AcceptedClaim, TypeOK, CallTypes
  <2>6. ASSUME NEW d \in Coroutines, ServePowRejected(d) \/ CallFails(d)
        PROVE  AcceptedClaim(c) \/ claim[c].share \in found'
    BY <1>2, <1>3, <2>6, MarkersAssumption
       DEF ServePowRejected, CallFails, Answer, AcceptedClaim, TypeOK, CallTypes
  <2> QED BY <2>1, <2>2, <2>3, <2>4, <2>5, <2>6 DEF WalletNext
<1>4. VerdictMoves
  BY <1>0, <1>1, <1>2, <1>3 DEF VerdictMoves
<1> QED BY <1>2, <1>4, Unmoved DEF Moves

\* Every step moves the shared state so.
LEMMA StepMoves == TypeOK /\ [Next]_vars => Moves
<1>1. UNCHANGED vars /\ TypeOK => Moves
  BY Unmoved, SameVerdicts DEF vars, callVars, walletVars, Moves
<1> QED BY <1>1, ZmqMoves, StratumMoves, WorkMovesOn, WalletMoves
        DEF Next, PoolNext, Stopped

-----------------------------------------------------------------------------
\* The protocols leave the timer alone

\* What a miner or a session does leaves the timer, the block and the wallet
\* alone.
TimerLeft ==
  /\ UNCHANGED <<blockVars, connectedBefore, walletVars>>
  /\ pc'[Timer] = pc[Timer] /\ answer'[Timer] = answer[Timer]

\* A step that moves no coroutine but c, which is not the timer.
LEMMA OtherMoves ==
  ASSUME TypeOK, NEW c \in Coroutines \ {Timer},
         UNCHANGED <<blockVars, connectedBefore, walletVars>>,
         UNCHANGED pc \/ \E label : pc' = [pc EXCEPT ![c] = label],
         UNCHANGED answer \/ \E a : answer' = [answer EXCEPT ![c] = a]
  PROVE  TimerLeft
<1>1. DOMAIN pc = Coroutines /\ DOMAIN answer = Coroutines /\ c # Timer
  BY DEF TypeOK, CallTypes
<1> QED BY <1>1, Kinds DEF TimerLeft

\* No step of the two protocols moves the timer.
LEMMA ProtocolsLeaveTimer ==
  ASSUME TypeOK, ZmqNext \/ StratumNext
  PROVE  TimerLeft
<1>1. CASE ZmqNext
  <2>1. PICK c \in Miners : \/ ZmqConnect(c) \/ ZmqClose(c) \/ OnGetWork(c)
                            \/ OnShare(c) \/ ZmqReturn(c)
    BY <1>1 DEF ZmqNext
  <2>2. /\ UNCHANGED zmqUnchanged
        /\ UNCHANGED pc \/ \E label : pc' = [pc EXCEPT ![c] = label]
    BY <2>1, OnShareSplit
       DEF TypeOK, ZmqConnect, ZmqClose, OnGetWork, ZmqReturn, NoTemplate,
           TemplateForMiner, BlockRefused, BlockAccepted, RefusedShare, PlainShare,
           BlockShare, Call, Resume, callVars
  <2>3. UNCHANGED answer \/ \E a : answer' = [answer EXCEPT ![c] = a]
    BY <2>1, OnShareSplit
       DEF TypeOK, ZmqConnect, ZmqClose, OnGetWork, ZmqReturn, NoTemplate,
           TemplateForMiner, BlockRefused, BlockAccepted, RefusedShare, PlainShare,
           BlockShare, Call, Resume, callVars
  <2>4. c \in Coroutines \ {Timer}
    BY Kinds
  <2> QED BY <2>2, <2>3, <2>4, OtherMoves DEF zmqUnchanged
<1>2. CASE StratumNext
  <2>1. CASE StratumAccept
    <3>1. sessionId \in Coroutines \ {Timer}
      <4>1. sessionId \in Sessions
        BY <2>1, SessionsAssumption DEF StratumAccept, Sessions, TypeOK, RegistryTypes
      <4> QED BY <4>1, Kinds
    <3> QED BY <2>1, <3>1, OtherMoves DEF StratumAccept, stratumUnchanged
  <2>2. ASSUME NEW s \in Sessions, UNCHANGED stratumUnchanged,
               UNCHANGED pc \/ \E label : pc' = [pc EXCEPT ![s] = label],
               UNCHANGED answer \/ \E a : answer' = [answer EXCEPT ![s] = a]
        PROVE  TimerLeft
    <3>1. s \in Coroutines \ {Timer}
      BY Kinds
    <3> QED BY <2>2, <3>1, OtherMoves DEF stratumUnchanged
  <2>3. ASSUME NEW s \in Sessions,
               \/ StratumClose(s) \/ WorkLifeTimeExpires(s) \/ StratumReturn(s)
               \/ \E valid \in BOOLEAN : OnStratumAuthorize(s, valid)
        PROVE  TimerLeft
    BY <2>2, <2>3 DEF StratumClose, WorkLifeTimeExpires, OnStratumAuthorize,
       StratumReturn, StratumWork, BlockSubmitRefused, BlockSubmitAccepted,
       RefuseSubmit, CountShare, Call, Resume, callVars
  <2>4. ASSUME NEW s \in Sessions, OnStratumSubmit(s) PROVE TimerLeft
    <3>1. ASSUME NEW e, NEW h, PlainSubmit(s, e, h) \/ BlockSubmit(s, e, h)
          PROVE  TimerLeft
      BY <2>2, <3>1 DEF PlainSubmit, BlockSubmit, RefuseSubmit, CountShare, Call
    <3>2. ASSUME NEW e, NEW n,
                 \/ BadJobName(s) \/ UnknownJob(s, e)
                 \/ BadShare(s, e, n) \/ DuplicateSubmit(s, e, n)
          PROVE  TimerLeft
      BY <2>2, <3>2
         DEF BadJobName, UnknownJob, BadShare, DuplicateSubmit, RefuseSubmit, Call
    <3> QED BY <2>4, <3>1, <3>2 DEF OnStratumSubmit
  <2> QED BY <1>2, <2>1, <2>3, <2>4 DEF StratumNext
<1> QED BY <1>1, <1>2

-----------------------------------------------------------------------------
\* Claims, verdicts and credits

\* What the wallet served it has served.
LEMMA ServedStays == TypeOK /\ [Next]_vars => served \subseteq served'
<1>1. TypeOK /\ (ZmqNext \/ StratumNext) => UNCHANGED served
  BY ProtocolsLeaveTimer DEF TimerLeft, walletVars
<1>2. WorkNext => UNCHANGED served
  <2>1. NewBlockSignal => UNCHANGED served
    BY DEF NewBlockSignal
  <2>2. \A w \in Walks : WalkStep(w) \/ WalkCrash(w) => UNCHANGED served
    BY DEF WalkStep, WalkCrash, walletVars
  <2>3. TimerStep => UNCHANGED served
    BY DEF TimerStep, TimerTick, TimerSeesLinkUp, TimerGetsNoBlock, TimerGetsBlock,
       TimerSeesLinkDown, timerUnchanged, walletVars
  <2> QED BY <2>1, <2>2, <2>3 DEF WorkNext
<1>3. WalletNext => served \subseteq served'
  BY DEF WalletNext, NewTip, ServeBlock, LinkDown, LinkUp, ServeTemplate,
     ServePowAccepted, ServePowRejected, CallFails, walletVars
<1> QED BY <1>1, <1>2, <1>3 DEF Next, PoolNext, Stopped, vars, walletVars
\* The invariant behind the properties of claims and credits: the current
\* block has its own height, or height 0 while the link is known to be down,
\* all work is entered with its own extra nonce, the reply of a share is marked
\* INVALID if its solution was refused, and one that waits with the
\* verdict "accepted" is one the wallet made a block, on its template's tip.
WorkingBlock ==
  currHeight # 0 => currHash # NoBlock /\ currHeight = Height[currHash]
TasksKnowNonce ==
  /\ \A m \in DOMAIN extraNonceMap : extraNonceMap[m] = m.extraNonce
  /\ \A e \in DOMAIN stratumTaskMap :
       stratumTaskMap[e] # Null => stratumTaskMap[e].extraNonce = e
MarkedIsRefused ==
  \A c \in Coroutines : claim[c] # NoClaim =>
    /\ claim[c].invalid <=> EquihashRefuses(claim[c].share)
    /\ c \in Sessions => ~claim[c].invalid
VerdictsAreFound ==
  /\ \A c \in Coroutines : AcceptedClaim(c) => claim[c].share \in found
  /\ \A h \in found : h.merkle.tip = h.prev
SharesFit ==
  /\ WorkingBlock /\ TasksKnowNonce /\ ClaimMatchesTemplate /\ MarkedIsRefused
  /\ VerdictsAreFound /\ BlockCreditsAreFound /\ CreditHeight

\* After a message was sent, the messages are those before and that one.
LEMMA OneMoreCredit ==
  ASSUME TypeOK, NEW h \in Shares, NEW isBlock \in BOOLEAN, Credit(h, isBlock),
         NEW g \in Shares, NEW i \in DOMAIN credits'[g]
  PROVE  \/ i \in DOMAIN credits[g] /\ credits'[g][i] = credits[g][i]
         \/ /\ g = h
            /\ credits'[g][i] = [height |-> currHeight + 1, isBlock |-> isBlock]
<1> DEFINE Message  == [height : Nat, isBlock : BOOLEAN]
           message  == [height |-> currHeight + 1, isBlock |-> isBlock]
<1>1. /\ credits \in [Shares -> Seq(Message)] /\ message \in Message
      /\ credits' = [credits EXCEPT ![h] = Append(credits[h], message)]
  BY DEF TypeOK, BlockTypes, OutputTypes, Credit
<1> HIDE DEF Message, message
<1>2. CASE g # h
  BY <1>1, <1>2
<1>3. CASE g = h
  <2>1. credits[h] \in Seq(Message) /\ credits'[g] = Append(credits[h], message)
    BY <1>1, <1>3
  <2>2. i \in 1..(Len(credits[h]) + 1)
    BY <1>1, <2>1
  <2>3. \/ i \in 1..Len(credits[h]) /\ credits'[g][i] = credits[h][i]
        \/ credits'[g][i] = message
    BY <1>1, <2>1, <2>2
  <2> QED BY <1>1, <1>3, <2>1, <2>3 DEF message
<1> QED BY <1>2, <1>3

\* A new message, where every step of the frontend may send one.
LEMMA NewCredit ==
  ASSUME TypeOK, CreditMoves, NEW g \in Shares, NEW i \in DOMAIN credits'[g]
  PROVE  \/ i \in DOMAIN credits[g] /\ credits'[g][i] = credits[g][i]
         \/ /\ g.prev = currHash
            /\ credits'[g][i] = [height |-> currHeight + 1, isBlock |-> FALSE]
         \/ /\ \E c \in Coroutines : AcceptedClaim(c) /\ g = claim[c].share
            /\ credits'[g][i] = [height |-> currHeight + 1, isBlock |-> TRUE]
<1>1. CASE UNCHANGED credits
  BY <1>1
<1>2. ASSUME NEW h \in Shares, NEW isBlock \in BOOLEAN, Credit(h, isBlock)
      PROVE  \/ i \in DOMAIN credits[g] /\ credits'[g][i] = credits[g][i]
             \/ /\ g = h
                /\ credits'[g][i] = [height |-> currHeight + 1, isBlock |-> isBlock]
  BY <1>2, OneMoreCredit
<1>3. CASE \E h \in Shares : h.prev = currHash /\ Credit(h, FALSE)
  BY <1>2, <1>3
<1>4. CASE \E c \in Coroutines : AcceptedClaim(c) /\ Credit(claim[c].share, TRUE)
  <2>1. PICK c \in Coroutines : AcceptedClaim(c) /\ Credit(claim[c].share, TRUE)
    BY <1>4
  <2>2. claim[c].share \in Shares
    BY <2>1 DEF AcceptedClaim, TypeOK, CallTypes, CallOK, Claims
  <2> QED BY <1>2, <2>1, <2>2
<1> QED BY <1>1, <1>3, <1>4 DEF CreditMoves

\* The program starts with no work, no claim and no message.
LEMMA InitSharesFit == Init => SharesFit
BY DEF Init, EmptyMap, SharesFit, WorkingBlock, TasksKnowNonce,
   ClaimMatchesTemplate, MarkedIsRefused, VerdictsAreFound, AcceptedClaim, BlockCreditsAreFound,
   CreditHeight

\* Every step keeps SharesFit, by what it may move alone.
LEMMA StepSharesFit == TypeOK /\ SharesFit /\ [Next]_vars => SharesFit'
<1> SUFFICES ASSUME TypeOK, SharesFit, Moves, served \subseteq served'
             PROVE  SharesFit'
  BY StepMoves, ServedStays
<1>1. WorkingBlock'
  BY NoBlockAssumption DEF Moves, BlockMoves, SharesFit, WorkingBlock
<1>2. TasksKnowNonce'
  BY DEF Moves, TaskMoves, SharesFit, TasksKnowNonce
<1>3. ClaimMatchesTemplate'
  <2> SUFFICES ASSUME NEW c \in Coroutines, claim'[c] # NoClaim
               PROVE  LET h == claim'[c].share
                      IN  /\ h.merkle \in served'
                          /\ claim'[c].extraNonce = h.merkle.extraNonce
                          /\ \/ claim'[c].height = 0
                             \/ h.prev # NoBlock /\ claim'[c].height = Height[h.prev]
    BY DEF ClaimMatchesTemplate
  <2>1. CASE claim'[c] = claim[c]
    BY <2>1 DEF SharesFit, ClaimMatchesTemplate
  <2>2. CASE MadeNow(claim'[c])
    <3>1. claim'[c].share.merkle \in served
      BY <2>2 DEF MadeNow, TypeOK, TaskTypes
    <3> QED BY <2>2, <3>1 DEF MadeNow, SharesFit, WorkingBlock, TasksKnowNonce
  <2> QED BY <2>1, <2>2 DEF Moves, ClaimMoves
<1>4. MarkedIsRefused'
  <2> SUFFICES ASSUME NEW c \in Coroutines, claim'[c] # NoClaim
               PROVE  /\ claim'[c].invalid <=> EquihashRefuses(claim'[c].share)
                      /\ c \in Sessions => ~claim'[c].invalid
    BY DEF MarkedIsRefused, EquihashRefuses
  <2>1. CASE claim'[c] = claim[c]
    BY <2>1 DEF SharesFit, MarkedIsRefused
  <2>2. CASE MadeNow(claim'[c]) /\ (c \in Sessions => ~claim'[c].invalid)
    BY <2>2 DEF MadeNow
  <2> QED BY <2>1, <2>2 DEF Moves, ClaimMoves
<1>5. VerdictsAreFound'
  BY DEF Moves, VerdictMoves, SharesFit, VerdictsAreFound
<1>6. BlockCreditsAreFound'
  <2> SUFFICES ASSUME NEW h \in Shares, NEW i \in DOMAIN credits'[h],
                      credits'[h][i].isBlock
               PROVE  h \in found' /\ h.merkle.tip = h.prev
    BY DEF BlockCreditsAreFound
  <2>1. CASE i \in DOMAIN credits[h] /\ credits'[h][i] = credits[h][i]
    BY <2>1 DEF SharesFit, BlockCreditsAreFound, Moves, VerdictMoves
  <2>2. CASE \E c \in Coroutines : AcceptedClaim(c) /\ h = claim[c].share
    BY <2>2 DEF SharesFit, VerdictsAreFound, Moves, VerdictMoves
  <2> QED BY <2>1, <2>2, NewCredit DEF Moves
<1>7. CreditHeight'
  <2> SUFFICES ASSUME NEW h \in Shares, NEW i \in DOMAIN credits'[h]
               PROVE  \/ credits'[h][i].isBlock
                      \/ credits'[h][i].height = 1
                      \/ /\ h.prev # NoBlock
                         /\ credits'[h][i].height = Height[h.prev] + 1
    BY DEF CreditHeight
  <2>1. CASE i \in DOMAIN credits[h] /\ credits'[h][i] = credits[h][i]
    BY <2>1 DEF SharesFit, CreditHeight
  <2>2. CASE /\ h.prev = currHash
             /\ credits'[h][i] = [height |-> currHeight + 1, isBlock |-> FALSE]
    BY <2>2 DEF SharesFit, WorkingBlock
  <2>3. CASE credits'[h][i] = [height |-> currHeight + 1, isBlock |-> TRUE]
    BY <2>3
  <2> QED BY <2>1, <2>2, <2>3, NewCredit DEF Moves
<1> QED BY <1>1, <1>2, <1>3, <1>4, <1>5, <1>6, <1>7 DEF SharesFit

\* The inductive invariant holds: every share under way or sent to the backend
\* fits the block and the template it was made for.
THEOREM SharesAlwaysFit == Spec => []SharesFit
<1>1. TypeOK /\ SharesFit /\ [Next]_vars => SharesFit'
  BY StepSharesFit
<1> QED BY <1>1, InitSharesFit, TypeCorrect, PTL DEF Spec

\* Every ioSendProofOfWork under way names a template the wallet served, its
\* own extra nonce and the height of the previous block in its header (or 0),
\* though the pool may adopt other blocks and forget the work while it waits.
THEOREM ClaimsMatch == Spec => []ClaimMatchesTemplate
<1>1. SharesFit => ClaimMatchesTemplate
  BY DEF SharesFit
<1> QED BY <1>1, SharesAlwaysFit, PTL

\* A share is reported as a block only if the wallet made it one, on the tip of
\* its template: no verdict reaches the wrong share, however late it comes.
THEOREM BlocksAreFound == Spec => []BlockCreditsAreFound
<1>1. SharesFit => BlockCreditsAreFound
  BY DEF SharesFit
<1> QED BY <1>1, SharesAlwaysFit, PTL

\* A plain share is credited to the height after the block in its header, or
\* to height 1 while the link to the wallet is known to be down.
THEOREM CreditsHaveHeight == Spec => []CreditHeight
<1>1. SharesFit => CreditHeight
  BY DEF SharesFit
<1> QED BY <1>1, SharesAlwaysFit, PTL

-----------------------------------------------------------------------------
\* The ledger

\* Messages to the backend are not taken back.
LEMMA CreditsStay ==
  ASSUME TypeOK, CreditMoves, NEW h \in Shares
  PROVE  Len(credits'[h]) >= Len(credits[h])
<1> DEFINE Message == [height : Nat, isBlock : BOOLEAN]
<1>1. credits \in [Shares -> Seq(Message)]
  BY DEF TypeOK, OutputTypes
<1>2. Len(credits[h]) \in Nat
  <2> HIDE DEF Message
  <2> QED BY <1>1
<1>3. ASSUME NEW g \in Shares, NEW isBlock \in BOOLEAN, Credit(g, isBlock)
      PROVE  Len(credits'[h]) >= Len(credits[h])
  <2> DEFINE message == [height |-> currHeight + 1, isBlock |-> isBlock]
  <2>1. message \in Message
    BY DEF TypeOK, BlockTypes
  <2>2. credits' = [credits EXCEPT ![g] = Append(credits[g], message)]
    BY <1>3 DEF Credit
  <2> HIDE DEF Message, message
  <2> QED BY <1>1, <2>1, <2>2
<1>4. CASE UNCHANGED credits
  BY <1>2, <1>4
<1>5. CASE \E g \in Shares : Credit(g, FALSE)
  BY <1>3, <1>5
<1>6. CASE \E c \in Coroutines : AcceptedClaim(c) /\ Credit(claim[c].share, TRUE)
  <2>1. PICK c \in Coroutines : AcceptedClaim(c) /\ Credit(claim[c].share, TRUE)
    BY <1>6
  <2> DEFINE g == claim[c].share
  <2>2. g \in Shares /\ Credit(g, TRUE)
    BY <2>1 DEF AcceptedClaim, TypeOK, CallTypes, CallOK, Claims
  <2> HIDE DEF g
  <2> QED BY <1>3, <2>2
<1> QED BY <1>4, <1>5, <1>6 DEF CreditMoves

\* What the ledger sees of a share that was counted once at most.
CountedOnce ==
  \A h \in Shares :
    \/ Len(credits[h]) = 0 /\ Stage(h) \in {"new", "judged"}
    \/ Len(credits[h]) = 1 /\ Stage(h) = "counted"

\* No share counted twice: the ledger sees one of three stages.
LEMMA LedgerStages == TypeOK /\ NoDoubleCredit => CountedOnce
<1> SUFFICES ASSUME TypeOK, NoDoubleCredit, NEW h \in Shares
             PROVE  \/ Len(credits[h]) = 0 /\ Stage(h) \in {"new", "judged"}
                    \/ Len(credits[h]) = 1 /\ Stage(h) = "counted"
  BY DEF CountedOnce
<1> DEFINE len == Len(credits[h])
<1>1. len \in Nat /\ len <= 1
  BY DEF TypeOK, OutputTypes, NoDoubleCredit
<1>2. CASE len = 0
  <2>1. len # 1 /\ ~(len > 1)
    BY <1>2
  <2> QED BY <1>2, <2>1 DEF Stage
<1>3. CASE len = 1
  BY <1>3 DEF Stage
<1> HIDE DEF len
<1>4. len = 0 \/ len = 1
  BY <1>1
<1> QED BY <1>2, <1>3, <1>4

\* Each share's life is a behaviour of ShareLedger, as long as it is counted
\* at most once.
LEMMA StepLedger ==
  ASSUME TypeOK, CountedOnce, CountedOnce', CreditMoves, NEW h \in Shares
  PROVE  [Ledger(h)!Next]_(Stage(h))
<1> DEFINE len == Len(credits[h])
<1>1. \/ len = 0 /\ Stage(h) \in {"new", "judged"}
      \/ len = 1 /\ Stage(h) = "counted"
  BY DEF CountedOnce
<1>2. \/ len' = 0 /\ Stage(h)' \in {"new", "judged"}
      \/ len' = 1 /\ Stage(h)' = "counted"
  BY DEF CountedOnce
<1>3. len' >= len
  BY CreditsStay
<1> HIDE DEF len
<1>4. Stage(h) = "counted" => Stage(h)' = "counted"
  BY <1>1, <1>2, <1>3
<1>5. \/ Stage(h)' = Stage(h)
      \/ <<Stage(h), Stage(h)'>> \in
           {<<"new", "judged">>, <<"new", "counted">>, <<"judged", "counted">>,
            <<"judged", "new">>}
  BY <1>1, <1>2, <1>4
<1> QED BY <1>5 DEF Ledger!Next, Ledger!Moves

\* The frontend implements ShareLedger: a share is counted once at most, and
\* never judged or counted again after that, if the wallet serves no template
\* twice.
THEOREM KeepsLedger == ~WalletReissues => (Spec => LedgerSpec)
<1> SUFFICES ASSUME ~WalletReissues PROVE Spec => LedgerSpec
  OBVIOUS
<1> DEFINE A == \/ UNCHANGED <<credits, claim>>
                \/ \A h \in Shares : [Ledger(h)!Next]_(Stage(h))
<1>1. Init => \A h \in Shares : Ledger(h)!Init
  BY DEF Init, Stage, Ledger!Init, Judged
<1>2. TypeOK /\ CountedOnce /\ CountedOnce' /\ [Next]_vars => A
  BY StepMoves, StepLedger DEF Moves
<1>3. Spec => []CountedOnce
  BY AtMostOneCredit, TypeCorrect, LedgerStages, PTL
<1> HIDE DEF A
<1>4. Spec => [][A]_vars
  BY <1>2, <1>3, TypeCorrect, PTL DEF Spec
<1> QED BY <1>1, <1>4 DEF Spec, LedgerSpec, A

-----------------------------------------------------------------------------
\* The answer to a share

\* A step tells a miner that a share was accepted exactly when it sends one
\* the solution check lets through; one the check refuses may be sent too, but
\* then the answer is INVALID.
Sent(h) == credits'[h] # credits[h]
Honest ==
  /\ SharesAccepted <=> \E h \in Shares : Sent(h) /\ ~EquihashRefuses(h)
  /\ \A h \in Shares : Sent(h) /\ EquihashRefuses(h) =>
       reply' = [type |-> "SHARE", error |-> "INVALID"]

\* The message sent for h is one more for h and for no other share.
LEMMA OneIsSent ==
  ASSUME TypeOK, NEW h \in Shares, NEW isBlock \in BOOLEAN, Credit(h, isBlock)
  PROVE  Sent(h) /\ \A g \in Shares \ {h} : ~Sent(g)
<1> DEFINE Message == [height : Nat, isBlock : BOOLEAN]
           message == [height |-> currHeight + 1, isBlock |-> isBlock]
<1>1. /\ credits \in [Shares -> Seq(Message)] /\ message \in Message
      /\ credits' = [credits EXCEPT ![h] = Append(credits[h], message)]
  BY DEF TypeOK, BlockTypes, OutputTypes, Credit
<1>2. Len(credits'[h]) # Len(credits[h])
  <2> HIDE DEF Message, message
  <2> QED BY <1>1
<1> HIDE DEF Message, message
<1> QED BY <1>1, <1>2 DEF Sent

\* The ways to keep it: no answer, an answer that is no acceptance, and an
\* answer with the message that the solution check chose.
LEMMA HonestSteps ==
  ASSUME TypeOK
  PROVE  /\ Silent /\ UNCHANGED credits => Honest
         /\ \A type, error : /\ Reply(type, error) /\ UNCHANGED credits
                             /\ \/ type \notin {"SHARE", "submit"}
                                \/ error \notin {"NONE", "null"}
                             => Honest
         /\ \A h \in Shares, isBlock \in BOOLEAN :
              /\ Credit(h, isBlock)
              /\ \/ Reply("SHARE", IF EquihashRefuses(h) THEN "INVALID" ELSE "NONE")
                 \/ Reply("submit", "null") /\ ~EquihashRefuses(h)
              => Honest
<1>1. Silent /\ UNCHANGED credits => Honest
  BY DEF Silent, NoReply, Honest, Sent, SharesAccepted
<1>2. ASSUME NEW type, NEW error, Reply(type, error), UNCHANGED credits,
             type \notin {"SHARE", "submit"} \/ error \notin {"NONE", "null"}
      PROVE  Honest
  BY <1>2 DEF Reply, Honest, Sent, SharesAccepted
<1>3. ASSUME NEW h \in Shares, NEW isBlock \in BOOLEAN, Credit(h, isBlock),
             \/ Reply("SHARE", IF EquihashRefuses(h) THEN "INVALID" ELSE "NONE")
             \/ Reply("submit", "null") /\ ~EquihashRefuses(h)
      PROVE  Honest
  <2>1. Sent(h) /\ \A g \in Shares \ {h} : ~Sent(g)
    BY <1>3, OneIsSent
  <2>2. CASE EquihashRefuses(h)
    <3>1. reply' = [type |-> "SHARE", error |-> "INVALID"]
      BY <1>3, <2>2 DEF Reply
    <3> QED BY <2>1, <2>2, <3>1 DEF Honest, SharesAccepted
  <2>3. CASE ~EquihashRefuses(h)
    <3>1. SharesAccepted
      BY <1>3, <2>3 DEF Reply, SharesAccepted
    <3> QED BY <2>1, <2>3, <3>1 DEF Honest
  <2> QED BY <2>2, <2>3
<1> QED BY <1>1, <1>2, <1>3

\* Native protocol: the answer tells whether the message was sent, but that
\* the solution check marks an answer INVALID and goes on.
LEMMA ZmqHonest ==
  ASSUME TypeOK, MarkedIsRefused, ZmqNext
  PROVE  Honest
<1>1. PICK c \in Miners : \/ ZmqConnect(c) \/ ZmqClose(c) \/ OnGetWork(c)
                          \/ OnShare(c) \/ ZmqReturn(c)
  BY DEF ZmqNext
<1>2. CASE ZmqConnect(c) \/ ZmqClose(c) \/ OnGetWork(c)
  BY <1>2, HonestSteps DEF ZmqConnect, ZmqClose, OnGetWork
<1>3. CASE NoTemplate(c)
  BY <1>3, HonestSteps DEF NoTemplate
<1>4. CASE TemplateForMiner(c)
  BY <1>4, HonestSteps DEF TemplateForMiner
<1>5. CASE BlockRefused(c)
  BY <1>5, HonestSteps DEF BlockRefused
<1>6. ASSUME NEW h \in Shares, NEW isBlock \in BOOLEAN,
             NEW invalid, invalid <=> EquihashRefuses(h),
             SendShare(h, isBlock, invalid)
      PROVE  Honest
  BY <1>6, HonestSteps DEF SendShare
<1>7. CASE BlockAccepted(c)
  <2>1. claim[c] \in Claims /\ claim[c] # NoClaim
    BY <1>7, Kinds, MarkersAssumption DEF BlockAccepted, TypeOK, CallTypes, CallOK
  <2>2. /\ claim[c].share \in Shares
        /\ claim[c].invalid <=> EquihashRefuses(claim[c].share)
    BY <2>1, Kinds DEF Claims, MarkedIsRefused
  <2> QED BY <1>6, <1>7, <2>2 DEF BlockAccepted
<1>8. CASE OnShare(c)
  <2>1. ASSUME NEW label, NEW error \in Refusals, RefusedShare(c, label, error)
        PROVE  Honest
    BY <2>1, HonestSteps DEF RefusedShare, Refusals
  <2>2. ASSUME NEW height, NEW h \in Shares, PlainShare(c, height, h) PROVE Honest
    BY <1>6, <2>2 DEF PlainShare
  <2>3. ASSUME NEW height, NEW h, BlockShare(c, height, h) PROVE Honest
    BY <2>3, HonestSteps DEF BlockShare
  <2> QED BY <1>8, <2>1, <2>2, <2>3, OnShareSplit DEF TypeOK
<1> QED BY <1>1, <1>2, <1>3, <1>4, <1>5, <1>7, <1>8 DEF ZmqReturn

\* Stratum: a submit is answered "null" exactly when the message was sent, and
\* that never happens to a share the solution check refuses.
LEMMA StratumHonest ==
  ASSUME TypeOK, MarkedIsRefused, StratumNext
  PROVE  Honest
<1>1. CASE StratumAccept
  BY <1>1, HonestSteps DEF StratumAccept
<1>2. ASSUME NEW s \in Sessions, StratumClose(s) \/ WorkLifeTimeExpires(s) \/ StratumWork(s)
      PROVE  Honest
  BY <1>2, HonestSteps DEF StratumClose, WorkLifeTimeExpires, StratumWork
<1>3. ASSUME NEW s \in Sessions, NEW valid, OnStratumAuthorize(s, valid) PROVE Honest
  BY <1>3, HonestSteps DEF OnStratumAuthorize
<1>4. ASSUME NEW s, NEW error, error \notin {"NONE", "null"}, RefuseSubmit(s, error)
      PROVE  Honest
  BY <1>4, HonestSteps DEF RefuseSubmit
<1>5. ASSUME NEW s, NEW h \in Shares, NEW isBlock \in BOOLEAN, CountShare(s, h, isBlock),
             ~EquihashRefuses(h)
      PROVE  Honest
  BY <1>5, HonestSteps DEF CountShare
<1>6. ASSUME NEW s \in Sessions, BadJobName(s) PROVE Honest
  BY <1>4, <1>6 DEF BadJobName
<1>7. ASSUME NEW s \in Sessions, NEW e, UnknownJob(s, e) PROVE Honest
  BY <1>4, <1>7 DEF UnknownJob
<1>8. ASSUME NEW s \in Sessions, NEW e, NEW n, BadShare(s, e, n) \/ DuplicateSubmit(s, e, n)
      PROVE  Honest
  BY <1>4, <1>8 DEF BadShare, DuplicateSubmit
<1>9. ASSUME NEW s \in Sessions, NEW e \in ExtraNonces, NEW n \in Nonces, KnownJob(e),
             \/ PlainSubmit(s, e, HeaderOfJob(e, n))
             \/ BlockSubmit(s, e, HeaderOfJob(e, n))
      PROVE  Honest
  <2> DEFINE h == HeaderOfJob(e, n)
  <2>1. stratumTaskMap[e] \in Templates
    BY <1>9 DEF KnownJob, TypeOK, TaskTypes, WalletTypes
  <2>2. h \in Shares
    BY <2>1, HeaderIsShare DEF HeaderOfJob, TypeOK
  <2> HIDE DEF h
  <2>3. CASE PlainSubmit(s, e, h)
    <3>1. ~EquihashRefuses(h)
      BY <2>3 DEF PlainSubmit, NewSubmit, GoodShare, EquihashRefuses
    <3> QED BY <1>4, <1>5, <2>2, <2>3, <3>1 DEF PlainSubmit
  <2>4. CASE BlockSubmit(s, e, h)
    <3>1. Silent /\ UNCHANGED credits
      BY <2>4 DEF BlockSubmit
    <3> QED BY <3>1, HonestSteps
  <2> QED BY <1>9, <2>3, <2>4 DEF h
<1>10. ASSUME NEW s \in Sessions, BlockSubmitRefused(s) PROVE Honest
  BY <1>4, <1>10 DEF BlockSubmitRefused
<1>11. ASSUME NEW s \in Sessions, BlockSubmitAccepted(s) PROVE Honest
  <2>4. claim[s] \in Claims
    BY <1>11, Kinds DEF BlockSubmitAccepted, TypeOK, CallTypes, CallOK
  <2>1. claim[s].share \in Shares /\ claim[s] # NoClaim
    BY <2>4, MarkersAssumption DEF Claims
  <2>3. ~EquihashRefuses(claim[s].share)
    BY <2>1, Kinds DEF MarkedIsRefused
  <2> DEFINE h == claim[s].share
  <2>2. CountShare(s, h, TRUE) \/ RefuseSubmit(s, "Stale share")
    BY <1>11 DEF BlockSubmitAccepted
  <2> HIDE DEF h
  <2> QED BY <1>4, <1>5, <2>1, <2>2, <2>3 DEF h
<1> QED BY <1>1, <1>2, <1>3, <1>6, <1>7, <1>8, <1>9, <1>10, <1>11
        DEF StratumNext, OnStratumSubmit, StratumReturn

\* Nothing else answers a miner, or sends a message.
LEMMA OthersHonest ==
  ASSUME TypeOK, WorkNext \/ WalletNext
  PROVE  Honest
<1>1. CASE WorkNext
  <2>1. Silent /\ UNCHANGED credits
    BY <1>1 DEF WorkNext, NewBlockSignal, WalkStep, WalkCrash, TimerStep, TimerTick,
       TimerSeesLinkUp, TimerGetsNoBlock, TimerGetsBlock, TimerSeesLinkDown,
       workUnchanged, timerUnchanged
  <2> QED BY <2>1, HonestSteps
<1>2. CASE WalletNext
  <2>1. Silent /\ UNCHANGED poolSideVars
    BY <1>2 DEF WalletNext, NewTip, ServeBlock, LinkDown, LinkUp, ServeTemplate,
       ServePowAccepted, ServePowRejected, CallFails
  <2> QED BY <2>1, HonestSteps DEF poolSideVars
<1> QED BY <1>1, <1>2

\* What every answer to a share is worth, whatever the configuration: accepted
\* is told exactly when the share is sent, save that a share the solution check
\* refuses is answered INVALID if it is sent, which the native protocol does.
THEOREM AnswersMatchCredits == Spec => [][Honest]_vars
<1>1. SharesFit => MarkedIsRefused
  BY DEF SharesFit
<1>2. TypeOK /\ MarkedIsRefused /\ [Next]_vars => Honest \/ UNCHANGED vars
  BY ZmqHonest, StratumHonest, OthersHonest DEF Next, PoolNext, Stopped
<1> QED BY <1>1, <1>2, SharesAlwaysFit, TypeCorrect, PTL DEF Spec

\* A miner is told that its share was accepted in the very steps that send it
\* to the backend.  With the solution check on this fails in the native
\* protocol: the share is sent and the answer is INVALID.
THEOREM AnswersAreHonest == ~EquihashCheck => (Spec => ShareAnswerHonest)
<1> SUFFICES ASSUME ~EquihashCheck PROVE Spec => ShareAnswerHonest
  OBVIOUS
<1> DEFINE A == SharesAccepted <=> credits' # credits
<1>1. TypeOK /\ TypeOK' /\ [Honest]_vars => [A]_vars
  <2> SUFFICES ASSUME TypeOK, TypeOK', Honest PROVE A
    OBVIOUS
  <2>1. \A h \in Shares : ~EquihashRefuses(h)
    BY DEF EquihashRefuses
  <2>2. (\E h \in Shares : Sent(h)) <=> credits' # credits
    BY DEF TypeOK, OutputTypes, Sent
  <2> QED BY <2>1, <2>2 DEF Honest
<1>2. ShareAnswerHonest <=> [][A]_vars
  BY DEF ShareAnswerHonest
<1> QED BY <1>1, <1>2, AnswersMatchCredits, TypeCorrect, PTL

-----------------------------------------------------------------------------
\* The worker registry

\* A session that ends stays closed and leaves no record; a record has a
\* socket of its own only from a session that is there; and a walk loses its
\* place only with the session it waits at.
Walking(w) == pc[w] \in {"update", "refresh"}
RegistryMoves ==
  /\ \A s \in Sessions :
       /\ pc[s] = "closed" => pc'[s] = "closed"
       /\ Alive(s) => \/ Alive(s)'
                      \/ s \notin DOMAIN stratumWorkers'
  /\ \A s \in DOMAIN stratumWorkers' : stratumWorkers'[s].socket = "own" =>
       \/ s \in DOMAIN stratumWorkers /\ stratumWorkers[s].socket = "own"
       \/ Alive(s)'
  /\ \A w \in Walks : Walking(w)' =>
       \/ visit'[w].valid
       \/ /\ Walking(w) /\ visit'[w].pos = visit[w].pos
          /\ ~visit[w].valid \/ pc'[visit[w].pos] = "closed"

\* Steps that leave the registry and the walks alone.
LEMMA RegistryUnmoved ==
  ASSUME UNCHANGED <<stratumWorkers, visit>>,
         \A c \in Sessions \cup Walks : pc'[c] = pc[c]
  PROVE  RegistryMoves
BY DEF RegistryMoves, Alive, Walking

\* Work that was stored makes no socket.
LEMMA SentWorkSockets ==
  ASSUME NEW s, NEW m, stratumWorkers' = WorkersAfterWork(s, m)
  PROVE  \A t \in DOMAIN stratumWorkers' : stratumWorkers'[t].socket = "own" =>
           t \in DOMAIN stratumWorkers /\ stratumWorkers[t].socket = "own"
<1> SUFFICES ASSUME NEW t \in DOMAIN stratumWorkers', stratumWorkers'[t].socket = "own"
             PROVE  t \in DOMAIN stratumWorkers /\ stratumWorkers[t].socket = "own"
  OBVIOUS
<1> DEFINE record == Record(stratumWorkers, s)
<1>1. CASE stratumWorkers' = stratumWorkers
  BY <1>1
<1>2. CASE stratumWorkers' = Put(stratumWorkers, s, [record EXCEPT !.due = FALSE])
  <2>1. CASE t = s
    <3>1. stratumWorkers'[t] = [record EXCEPT !.due = FALSE]
      BY <1>2, <2>1 DEF Put
    <3>2. record.socket = "own"
      <4>1. [record EXCEPT !.due = FALSE].socket = record.socket
        <5>1. CASE s \in DOMAIN stratumWorkers
          BY <3>1
        <5>2. CASE s \notin DOMAIN stratumWorkers
          BY <5>2 DEF Record
        <5> QED BY <5>1, <5>2
      <4> QED BY <3>1, <4>1
    <3> QED BY <2>1, <3>2 DEF Record
  <2>2. CASE t # s
    BY <1>2, <2>2 DEF Put
  <2> QED BY <2>1, <2>2
<1> QED BY <1>1, <1>2 DEF WorkersAfterWork

\* A step of a living session that goes on living.
LEMMA LivingSession ==
  ASSUME TypeOK, NEW s \in Sessions, NEW label \in {"read", "template", "pow"},
         pc' = [pc EXCEPT ![s] = label] \/ (UNCHANGED pc /\ pc[s] = label),
         pc[s] # "closed", UNCHANGED visit,
         \A t \in DOMAIN stratumWorkers' : stratumWorkers'[t].socket = "own" =>
           \/ t \in DOMAIN stratumWorkers /\ stratumWorkers[t].socket = "own"
           \/ t = s
  PROVE  RegistryMoves
<1>1. /\ pc'[s] = label /\ Alive(s)'
      /\ \A c \in Coroutines \ {s} : pc'[c] = pc[c]
  BY Kinds DEF TypeOK, CallTypes, Alive
<1>2. \A t \in Sessions \ {s} : pc'[t] = pc[t]
  BY <1>1, Kinds
<1>3. \A w \in Walks : pc'[w] = pc[w]
  BY <1>1, Kinds, CoroutinesAssumption
<1> QED BY <1>1, <1>2, <1>3 DEF RegistryMoves, Alive, Walking

\* The steps of the sessions keep the registry in step with them.
LEMMA StratumRegistry ==
  ASSUME TypeOK, StratumNext
  PROVE  RegistryMoves
<1>1. CASE StratumAccept
  <2>1. sessionId \in Sessions /\ pc[sessionId] = "unborn"
    BY <1>1, Kinds, SessionsAssumption
       DEF StratumAccept, Sessions, TypeOK, RegistryTypes, CallTypes, CallOK
  <2> QED BY <1>1, <2>1, LivingSession DEF StratumAccept
<1>2. ASSUME NEW s \in Sessions, StratumClose(s) PROVE RegistryMoves
  <2> USE <1>2 DEF StratumClose, InvalidateVisits
  <2>1. /\ pc[s] = "read" /\ pc'[s] = "closed"
        /\ \A c \in Coroutines \ {s} : pc'[c] = pc[c]
    BY Kinds DEF TypeOK, CallTypes
  <2>2. \A t \in Sessions \ {s} : pc'[t] = pc[t]
    BY <2>1, Kinds
  <2>3. \A w \in Walks : pc'[w] = pc[w]
    BY <2>1, Kinds, CoroutinesAssumption
  <2>4. /\ DOMAIN stratumWorkers' = DOMAIN stratumWorkers \ {s}
        /\ \A t \in DOMAIN stratumWorkers' : stratumWorkers'[t] = stratumWorkers[t]
    BY DEF Erase
  <2>5. \A w \in Walks : visit'[w].pos = visit[w].pos
                         /\ (visit'[w].valid = visit[w].valid \/ visit[w].pos = s)
    BY DEF TypeOK, VisitTypes
  <2>6. \A w \in Walks : Walking(w)' =>
          \/ visit'[w].valid
          \/ /\ Walking(w) /\ visit'[w].pos = visit[w].pos
             /\ ~visit[w].valid \/ pc'[visit[w].pos] = "closed"
    BY <2>1, <2>3, <2>5 DEF Walking
  <2> QED BY <2>1, <2>2, <2>4, <2>6 DEF RegistryMoves, Alive
<1>3. ASSUME NEW s \in Sessions, WorkLifeTimeExpires(s) PROVE RegistryMoves
  <2>1. \A t \in DOMAIN stratumWorkers' :
          t \in DOMAIN stratumWorkers /\ stratumWorkers'[t].socket = stratumWorkers[t].socket
    BY <1>3 DEF WorkLifeTimeExpires, TypeOK, RegistryTypes
  <2> QED BY <1>3, <2>1 DEF WorkLifeTimeExpires, callVars, RegistryMoves, Alive, Walking
<1>4. ASSUME NEW s \in Sessions, NEW valid, OnStratumAuthorize(s, valid)
      PROVE  RegistryMoves
  <2>1. \A t \in DOMAIN stratumWorkers' :
          t = s \/ (t \in DOMAIN stratumWorkers /\ stratumWorkers'[t] = stratumWorkers[t])
    BY <1>4 DEF OnStratumAuthorize, Put
  <2> QED BY <1>4, <2>1, LivingSession DEF OnStratumAuthorize, Call
<1>5. ASSUME NEW s \in Sessions, StratumWork(s) PROVE RegistryMoves
  <2>1. stratumWorkers' = WorkersAfterWork(s, answer[s])
    BY <1>5 DEF StratumWork
  <2> QED BY <1>5, <2>1, SentWorkSockets, LivingSession DEF StratumWork, Resume
<1>6. ASSUME NEW s \in Sessions, NEW error, RefuseSubmit(s, error), pc[s] # "closed"
      PROVE  RegistryMoves
  BY <1>6, LivingSession DEF RefuseSubmit, Call, registryVars
<1>7. ASSUME NEW s \in Sessions, NEW h, NEW isBlock, CountShare(s, h, isBlock),
             pc[s] \in {"read", "pow"},
             UNCHANGED pc \/ pc' = [pc EXCEPT ![s] = "read"]
      PROVE  RegistryMoves
  <2>1. \A t \in DOMAIN stratumWorkers' :
          t = s \/ (t \in DOMAIN stratumWorkers /\ stratumWorkers'[t] = stratumWorkers[t])
    BY <1>7 DEF CountShare, Put
  <2> QED BY <1>7, <2>1, LivingSession DEF CountShare
<1>8. ASSUME NEW s \in Sessions, OnStratumSubmit(s) PROVE RegistryMoves
  <2>1. ASSUME NEW e, NEW h, PlainSubmit(s, e, h) PROVE RegistryMoves
    BY <1>6, <1>7, <2>1 DEF PlainSubmit, NewSubmit
  <2>2. ASSUME NEW e, NEW h, BlockSubmit(s, e, h) PROVE RegistryMoves
    BY <2>2, LivingSession DEF BlockSubmit, NewSubmit, Call, registryVars
  <2>3. BadJobName(s) => RegistryMoves
    BY <1>6 DEF BadJobName
  <2>4. ASSUME NEW e, NEW n,
               UnknownJob(s, e) \/ BadShare(s, e, n) \/ DuplicateSubmit(s, e, n)
        PROVE  RegistryMoves
    BY <1>6, <2>4 DEF UnknownJob, BadShare, DuplicateSubmit
  <2> QED BY <1>8, <2>1, <2>2, <2>3, <2>4 DEF OnStratumSubmit
<1>9. ASSUME NEW s \in Sessions, BlockSubmitRefused(s) \/ BlockSubmitAccepted(s)
      PROVE  RegistryMoves
  BY <1>6, <1>7, <1>9 DEF BlockSubmitRefused, BlockSubmitAccepted, Resume
<1> QED BY <1>1, <1>2, <1>3, <1>4, <1>5, <1>8, <1>9 DEF StratumNext, StratumReturn

\* A walk that goes on stands on a record again.
LEMMA GoToRegistry ==
  ASSUME TypeOK, NEW w \in Walks, NEW loop, NEW from, NEW workers,
         GoTo(w, NextStop(w, loop, from, workers)),
         \A t \in DOMAIN stratumWorkers' : stratumWorkers'[t].socket = "own" =>
           t \in DOMAIN stratumWorkers /\ stratumWorkers[t].socket = "own"
  PROVE  RegistryMoves
<1> DEFINE stop == NextStop(w, loop, from, workers)
<1>1. stop.visit.valid
  BY DEF NextStop, VisitTo, NoVisit
<1> HIDE DEF stop
<1>2. /\ visit'[w].valid
      /\ \A v \in Walks \ {w} : visit'[v] = visit[v] /\ pc'[v] = pc[v]
  BY <1>1, Kinds DEF GoTo, TypeOK, VisitTypes, CallTypes, stop
<1>3. \A s \in Sessions : pc'[s] = pc[s]
  BY Kinds, CoroutinesAssumption DEF GoTo, TypeOK, CallTypes
<1> QED BY <1>2, <1>3 DEF RegistryMoves, Alive, Walking

\* Every step keeps the registry in step with the sessions.
LEMMA StepRegistry == TypeOK /\ [Next]_vars => RegistryMoves
<1> SUFFICES ASSUME TypeOK, [Next]_vars PROVE RegistryMoves
  OBVIOUS
<1>1. CASE UNCHANGED vars
  BY <1>1, RegistryUnmoved DEF vars, callVars, registryVars
<1>2. CASE ZmqNext
  <2>1. PICK c \in Miners : \/ ZmqConnect(c) \/ ZmqClose(c) \/ OnGetWork(c)
                            \/ OnShare(c) \/ ZmqReturn(c)
    BY <1>2 DEF ZmqNext
  <2>2. /\ UNCHANGED zmqUnchanged
        /\ UNCHANGED pc \/ \E label : pc' = [pc EXCEPT ![c] = label]
    BY <2>1, OnShareSplit
       DEF TypeOK, ZmqConnect, ZmqClose, OnGetWork, ZmqReturn, NoTemplate,
           TemplateForMiner, BlockRefused, BlockAccepted, RefusedShare, PlainShare,
           BlockShare, Call, Resume, callVars
  <2>3. \A d \in Sessions \cup Walks : pc'[d] = pc[d]
    BY <2>2, Kinds, CoroutinesAssumption DEF TypeOK, CallTypes
  <2> QED BY <2>2, <2>3, RegistryUnmoved DEF zmqUnchanged, registryVars
<1>3. CASE NewBlockSignal
  BY <1>3, GoToRegistry, Kinds DEF NewBlockSignal, StartWalk
<1>4. ASSUME NEW w \in Walks, WalkStep(w) PROVE RegistryMoves
  BY <1>4, GoToRegistry, SentWorkSockets DEF WalkStep
<1>5. ASSUME NEW w \in Walks, WalkCrash(w) PROVE RegistryMoves
  BY <1>5, RegistryUnmoved DEF WalkCrash, callVars, registryVars
<1>6. CASE TimerStep
  <2>1. CASE TimerTick \/ TimerGetsBlock \/ TimerSeesLinkDown
    BY <2>1, GoToRegistry, Kinds
       DEF TimerTick, TimerGetsBlock, TimerSeesLinkDown, StartWalk, timerUnchanged
  <2>2. CASE TimerSeesLinkUp \/ TimerGetsNoBlock
    <3> USE <2>2 DEF TimerSeesLinkUp, TimerGetsNoBlock, Call, Resume
    <3>1. /\ pc'[Timer] \in {"getblock", "sleep"}
          /\ \A w \in Walks \ {Timer} : pc'[w] = pc[w]
          /\ \A s \in Sessions : pc'[s] = pc[s]
      BY Kinds DEF TypeOK, CallTypes
    <3>2. UNCHANGED <<visit, stratumWorkers>>
      BY DEF timerUnchanged
    <3> QED BY <3>1, <3>2 DEF RegistryMoves, Alive, Walking
  <2> QED BY <1>6, <2>1, <2>2 DEF TimerStep
<1>7. CASE WalletNext
  <2>1. UNCHANGED poolSideVars
    BY <1>7 DEF WalletNext, NewTip, ServeBlock, LinkDown, LinkUp, ServeTemplate,
       ServePowAccepted, ServePowRejected, CallFails
  <2> QED BY <2>1, RegistryUnmoved DEF poolSideVars, registryVars
<1> QED BY <1>1, <1>2, <1>3, <1>4, <1>5, <1>6, <1>7, StratumRegistry
        DEF Next, PoolNext, WorkNext, Stopped

\* The invariant behind the two properties: a walk has lost its place only if
\* the session it waits at is closed.
WalksAreValid ==
  \A w \in Walks : Walking(w) => visit[w].valid \/ pc[visit[w].pos] = "closed"

\* The program starts with no record and no walk.
LEMMA InitRegistry == Init => SocketsAreAlive /\ WalksAreValid
BY Kinds, CoroutinesAssumption
   DEF Init, EmptyMap, SocketsAreAlive, WalksAreValid, Walking, Start, Walks,
       Coroutines

\* Every step keeps the invariant.
LEMMA StepSockets ==
  TypeOK /\ SocketsAreAlive /\ WalksAreValid /\ [Next]_vars
    => SocketsAreAlive' /\ WalksAreValid'
<1> SUFFICES ASSUME TypeOK, SocketsAreAlive, WalksAreValid, RegistryMoves
             PROVE  SocketsAreAlive' /\ WalksAreValid'
  BY StepRegistry
<1>1. DOMAIN stratumWorkers \subseteq Sessions
  BY SessionsAssumption DEF TypeOK, RegistryTypes, Sessions
<1>2. \A w \in Walks : Walking(w) => visit[w].pos \in Sessions
  BY SessionsAssumption DEF TypeOK, RegistryTypes, VisitTypes, Walking, Sessions
<1>3. SocketsAreAlive'
  BY <1>1 DEF SocketsAreAlive, RegistryMoves
<1>4. WalksAreValid'
  BY <1>2 DEF WalksAreValid, RegistryMoves
<1> QED BY <1>3, <1>4

\* The inductive invariant of the registry holds.
THEOREM RegistryHolds == Spec => [](SocketsAreAlive /\ WalksAreValid)
<1>1. TypeOK /\ SocketsAreAlive /\ WalksAreValid /\ [Next]_vars
        => SocketsAreAlive' /\ WalksAreValid'
  BY StepSockets
<1> QED BY <1>1, InitRegistry, TypeCorrect, PTL DEF Spec

\* stratumWorkers never holds the socket of a connection that is gone, though
\* shares and work make records for sessions that closed meanwhile.
THEOREM RecordsHaveLiveSockets == Spec => []SocketsAreAlive
BY RegistryHolds, PTL

\* Only the closing of the session a walk waits at, or a record made without a
\* login, can break the walk.
THEOREM OnlyVisitedBreaks == Spec => []OnlyVisitedSessionBreaksWalk
<1>1. TypeOK /\ WalksAreValid => OnlyVisitedSessionBreaksWalk
  <2> SUFFICES ASSUME TypeOK, WalksAreValid, NEW w \in Walks, Walking(w), Broken(w)
               PROVE  visit[w].socket = "wild" \/ pc[visit[w].pos] = "closed"
    BY DEF OnlyVisitedSessionBreaksWalk, Walking
  <2>1. visit[w].pos \in Sessions /\ visit[w].pos < sessionId
    BY SessionsAssumption DEF TypeOK, RegistryTypes, VisitTypes, Walking, Sessions
  <2>2. pc[visit[w].pos] # "unborn"
    BY <2>1, Kinds DEF TypeOK, CallTypes, CallOK
  <2> QED BY <2>2 DEF WalksAreValid, Broken, WritesAstray, Alive
<1> QED BY <1>1, RegistryHolds, TypeCorrect, PTL

-----------------------------------------------------------------------------
\* The timer and the link

\* Where the timer goes from a loop.
LEMMA TimerStops ==
  ASSUME NEW loop \in {"update", "refresh"}, NEW from, NEW workers
  PROVE  LET stop == NextStop(Timer, loop, from, workers)
         IN  \/ stop.pc = loop
             \/ stop.pc \in {"refresh", "sleep"}
BY DEF NextStop

\* The timer is one coroutine; what it does next is what it is told to.
LEMMA TimerGoes ==
  ASSUME TypeOK, NEW loop \in {"update", "refresh"}, NEW from, NEW workers,
         LET stop == NextStop(Timer, loop, from, workers)
         IN  GoTo(Timer, stop) /\ SampleLink(Timer, loop, stop)
  PROVE  \/ pc'[Timer] = loop /\ UNCHANGED connectedBefore
         \/ /\ pc'[Timer] \in {"refresh", "sleep"}
            /\ connectedBefore' = IF loop = "update" THEN connected ELSE connectedBefore
<1> DEFINE stop == NextStop(Timer, loop, from, workers)
<1>1. GoTo(Timer, stop) /\ SampleLink(Timer, loop, stop)
  OBVIOUS
<1>2. stop.pc = loop \/ stop.pc \in {"refresh", "sleep"}
  BY TimerStops
<1> HIDE DEF stop
<1>3. pc'[Timer] = stop.pc
  BY <1>1, Kinds DEF GoTo, TypeOK, CallTypes
<1> QED BY <1>1, <1>2, <1>3 DEF SampleLink

-----------------------------------------------------------------------------
\* The pool and the tip

\* The invariant behind TipReachesPool: the last signal under way is that of
\* the tip, neither a signal nor an answer survives the link, and the block the
\* timer was given is the tip still, or overtaken.
TipInvariant ==
  /\ TipReachesPool
  /\ signals # <<>> => connected /\ signals[Len(signals)] = tip
  /\ pc[Timer] = "getblock" =>
       /\ ~connectedBefore
       /\ answer[Timer] \in {Null, Pending, tip} \/ overlooked
       /\ answer[Timer] \in {Null, Pending} \/ connected

OnTip == currHash = tip /\ currHeight = Height[tip]
Fetching == ~connectedBefore /\ pc[Timer] \in {"sleep", "getblock", "refresh"}

\* Steps that leave the timer, the block and the wallet alone.
LEMMA NotTheTip ==
  ASSUME TipInvariant, TimerLeft
  PROVE  TipInvariant'
BY DEF TipInvariant, TipReachesPool, TimerLeft, blockVars, walletVars

\* A step of the timer or of a walk that leaves the wallet alone and ends
\* neither in a call for the block nor, while the link is up, off a tip the
\* pool was told of.
LEMMA TimerMoves ==
  ASSUME TipInvariant, UNCHANGED walletVars, pc'[Timer] # "getblock",
         connected /\ ~overlooked /\ (OnTip \/ Fetching) => OnTip' \/ Fetching'
  PROVE  TipInvariant'
BY DEF TipInvariant, TipReachesPool, walletVars, OnTip, Fetching

\* The first signal is handled: the next is still the tip's, or this was.
LEMMA SignalKeepsTip ==
  ASSUME TypeOK, TipInvariant, NewBlockSignal
  PROVE  TipInvariant'
<1>1. /\ signals \in Seq(Blocks) /\ signals # <<>> /\ connected
      /\ signals[Len(signals)] = tip /\ signals' = Tail(signals)
      /\ AdoptBlock(Head(signals))
      /\ UNCHANGED <<tip, connected, overlooked>>
  BY DEF NewBlockSignal, TipInvariant, TypeOK, WalletTypes
<1>2. /\ pc'[Timer] = pc[Timer] /\ answer'[Timer] = answer[Timer]
      /\ UNCHANGED connectedBefore
  BY Kinds DEF NewBlockSignal, StartWalk, GoTo, SampleLink, TypeOK, CallTypes
<1>3. CASE Len(signals) = 1
  <2>1. Tail(signals) = <<>> /\ Head(signals) = tip
    BY <1>1, <1>3
  <2>2. OnTip' /\ signals' = <<>>
    BY <1>1, <2>1 DEF AdoptBlock, OnTip
  <2> QED BY <1>1, <1>2, <2>2 DEF TipInvariant, TipReachesPool, OnTip
<1>4. CASE Len(signals) # 1
  <2>1. /\ Tail(signals) # <<>>
        /\ Tail(signals)[Len(Tail(signals))] = signals[Len(signals)]
    <3>1. Len(signals) \in Nat /\ Len(signals) # 0
      BY <1>1
    <3>2. /\ Len(Tail(signals)) = Len(signals) - 1
          /\ \A i \in 1..(Len(signals) - 1) : Tail(signals)[i] = signals[i + 1]
      BY <1>1
    <3>3. Len(Tail(signals)) \in 1..(Len(signals) - 1) /\ Len(<<>>) = 0
      BY <1>4, <3>1, <3>2
    <3> QED BY <3>1, <3>2, <3>3
  <2>2. signals' # <<>> /\ signals'[Len(signals')] = tip'
    BY <1>1, <2>1
  <2> QED BY <1>1, <1>2, <2>2 DEF TipInvariant, TipReachesPool
<1> QED BY <1>3, <1>4

\* The wallet: a tip that moves under the link is signalled, and an answer
\* about the old one is overtaken; a link that is back is seen, or was not.
LEMMA WalletKeepsTip ==
  ASSUME TypeOK, TipInvariant, WalletNext
  PROVE  TipInvariant'
<1>1. /\ UNCHANGED poolSideVars /\ Timer \in Coroutines
      /\ DOMAIN answer = Coroutines /\ signals \in Seq(Blocks)
  BY Kinds DEF WalletNext, NewTip, ServeBlock, LinkDown, LinkUp, ServeTemplate,
     ServePowAccepted, ServePowRejected, CallFails, TypeOK, CallTypes, WalletTypes
<1>2. UNCHANGED <<pc, connectedBefore, currHash, currHeight>>
  BY <1>1 DEF poolSideVars, blockVars
<1>3. ASSUME NEW b \in Blocks, TipBecomes(b), UNCHANGED connected,
             answer'[Timer] = answer[Timer] \/ pc[Timer] # "getblock"
      PROVE  TipInvariant'
  <2>1. /\ tip' = b /\ overlooked' = IF connected THEN BlockOvertaken ELSE overlooked
        /\ pc[Timer] = "getblock" => answer'[Timer] = answer[Timer]
    BY <1>3 DEF TipBecomes
  <2>2. CASE connected
    <3>1. signals' = Append(signals, b) /\ tip' = b
      BY <1>3, <2>2 DEF TipBecomes
    <3>2. signals' # <<>> /\ signals'[Len(signals')] = tip'
      BY <1>1, <3>1
    <3> QED BY <1>2, <1>3, <2>1, <2>2, <3>2
            DEF TipInvariant, TipReachesPool, BlockOvertaken
  <2>3. CASE ~connected
    <3>1. signals' = signals /\ signals = <<>>
      BY <1>3, <2>3 DEF TipBecomes, TipInvariant
    <3> QED BY <1>2, <1>3, <2>1, <2>3, <3>1 DEF TipInvariant, TipReachesPool
  <2> QED BY <2>2, <2>3
<1>4. ASSUME UNCHANGED <<tip, connected, signals, overlooked>>,
             \/ pc[Timer] # "getblock"
             \/ answer'[Timer] \in {answer[Timer], Null}
      PROVE  TipInvariant'
  BY <1>2, <1>4 DEF TipInvariant, TipReachesPool
<1>5. CASE NewTip
  BY <1>3, <1>5 DEF NewTip
<1>6. CASE ServeBlock
  <2>1. /\ pc[Timer] = "getblock" /\ connected /\ answer'[Timer] = tip
        /\ UNCHANGED <<tip, connected, signals>>
    BY <1>1, <1>6 DEF ServeBlock, Answer
  <2> QED BY <1>2, <2>1 DEF TipInvariant, TipReachesPool
<1>7. CASE LinkDown
  BY <1>1, <1>2, <1>7 DEF LinkDown, TipInvariant, TipReachesPool
<1>8. CASE LinkUp
  <2>1. signals = <<>>
    BY <1>8 DEF LinkUp, TipInvariant
  <2>2. pc[Timer] \in {"sleep", "getblock", "update", "refresh"}
    BY <1>1 DEF TypeOK, CallTypes, CallOK
  <2> QED BY <1>2, <1>8, <2>1, <2>2
          DEF LinkUp, OutageUnseen, TipInvariant, TipReachesPool
<1>9. ASSUME NEW c \in Coroutines, ServeTemplate(c) PROVE TipInvariant'
  <2>1. c # Timer \/ pc[Timer] # "getblock"
    BY <1>9 DEF ServeTemplate, WaitsForTemplate
  <2>2. \E m : answer' = [answer EXCEPT ![c] = m]
    BY <1>9 DEF ServeTemplate, Answer
  <2>3. UNCHANGED <<tip, connected, signals, overlooked>>
    BY <1>9 DEF ServeTemplate
  <2> QED BY <1>1, <1>4, <2>1, <2>2, <2>3
<1>10. ASSUME NEW c \in Coroutines, ServePowAccepted(c) PROVE TipInvariant'
  <2>1. c # Timer \/ pc[Timer] # "getblock"
    BY <1>10 DEF ServePowAccepted
  <2>2. answer' = [answer EXCEPT ![c] = Accepted] /\ UNCHANGED connected
    BY <1>10 DEF ServePowAccepted, Answer
  <2>3. PICK b \in Blocks : TipBecomes(b)
    BY <1>10 DEF ServePowAccepted
  <2> QED BY <1>1, <1>3, <2>1, <2>2, <2>3
<1>11. ASSUME NEW c \in Coroutines, ServePowRejected(c) PROVE TipInvariant'
  <2>1. c # Timer \/ pc[Timer] # "getblock"
    BY <1>11 DEF ServePowRejected
  <2>2. answer' = [answer EXCEPT ![c] = Rejected] /\ UNCHANGED walletVars
    BY <1>11 DEF ServePowRejected, Answer
  <2> QED BY <1>1, <1>4, <2>1, <2>2 DEF walletVars
<1>12. ASSUME NEW c \in Coroutines, CallFails(c) PROVE TipInvariant'
  <2>1. answer' = [answer EXCEPT ![c] = Null] /\ UNCHANGED walletVars
    BY <1>12 DEF CallFails, Answer
  <2> QED BY <1>1, <1>4, <2>1 DEF walletVars
<1> QED BY <1>5, <1>6, <1>7, <1>8, <1>9, <1>10, <1>11, <1>12 DEF WalletNext

\* Every step keeps TipInvariant.
LEMMA StepTip ==
  TypeOK /\ TipInvariant /\ [Next]_vars => TipInvariant'
<1> SUFFICES ASSUME TypeOK, TipInvariant, [Next]_vars
             PROVE  TipInvariant'
  OBVIOUS
<1>1. CASE UNCHANGED vars
  BY <1>1, NotTheTip DEF vars, callVars, TimerLeft
<1>2. CASE ZmqNext \/ StratumNext
  BY <1>2, ProtocolsLeaveTimer, NotTheTip
<1>3. CASE NewBlockSignal
  BY <1>3, SignalKeepsTip
<1>4. ASSUME NEW w \in Walks, WalkStep(w) PROVE TipInvariant'
  <2>1. UNCHANGED <<currHash, currHeight>> /\ UNCHANGED walletVars
    BY <1>4 DEF WalkStep, blockVars
  <2>2. CASE w = Timer
    <3>1. pc[Timer] \in {"update", "refresh"}
      BY <1>4, <2>2 DEF WalkStep
    <3> DEFINE from    == visit[w].pos + 1
               workers == WorkersAfterWork(visit[w].pos, answer[w])
    <3>2. LET stop == NextStop(Timer, pc[Timer], from, workers)
          IN  GoTo(Timer, stop) /\ SampleLink(Timer, pc[Timer], stop)
      BY <1>4, <2>2 DEF WalkStep
    <3> HIDE DEF from, workers
    <3>3. /\ pc'[Timer] \in {"update", "refresh", "sleep"}
          /\ pc[Timer] = "refresh" =>
               pc'[Timer] \in {"refresh", "sleep"} /\ UNCHANGED connectedBefore
      BY <3>1, <3>2, TimerGoes
    <3>4. (Fetching => Fetching') /\ (OnTip => OnTip')
      BY <2>1, <3>1, <3>3 DEF Fetching, OnTip, walletVars
    <3> QED BY <2>1, <3>3, <3>4, TimerMoves
  <2>3. CASE w # Timer
    <3>1. /\ pc'[Timer] = pc[Timer] /\ answer'[Timer] = answer[Timer]
          /\ UNCHANGED connectedBefore /\ UNCHANGED blockVars
      BY <1>4, <2>3, Kinds DEF WalkStep, GoTo, SampleLink, TypeOK, CallTypes
    <3> QED BY <2>1, <3>1, NotTheTip DEF TimerLeft
  <2> QED BY <2>2, <2>3
<1>5. ASSUME NEW w \in Walks, WalkCrash(w) PROVE TipInvariant'
  BY <1>5, NotTheTip DEF WalkCrash, callVars, TimerLeft
<1>6. CASE TimerTick
  <2> USE <1>6 DEF TimerTick, timerUnchanged, blockVars
  <2>1. pc'[Timer] \in {"refresh", "sleep"}
    BY TimerGoes DEF StartWalk
  <2>2. connected => ~Fetching
    BY DEF Fetching
  <2>3. OnTip => OnTip'
    BY DEF OnTip, walletVars
  <2> QED BY <2>1, <2>2, <2>3, TimerMoves
<1>7. CASE TimerSeesLinkUp
  <2>1. /\ pc'[Timer] = "getblock" /\ answer'[Timer] = Pending
        /\ ~connectedBefore /\ UNCHANGED <<connectedBefore, walletVars>>
    BY <1>7, Kinds DEF TimerSeesLinkUp, Call, TypeOK, CallTypes, timerUnchanged
  <2> QED BY <2>1 DEF TipInvariant, TipReachesPool, walletVars
<1>8. CASE TimerGetsNoBlock
  <2>1. /\ pc'[Timer] = "sleep" /\ pc[Timer] = "getblock"
        /\ UNCHANGED <<connectedBefore, walletVars>>
    BY <1>8, Kinds DEF TimerGetsNoBlock, Resume, TypeOK, CallTypes, timerUnchanged
  <2>2. Fetching'
    BY <2>1 DEF TipInvariant, Fetching
  <2> QED BY <2>1, <2>2, TimerMoves
<1>9. CASE TimerGetsBlock
  <2> USE <1>9 DEF TimerGetsBlock
  <2>1. answer[Timer] = tip \/ overlooked
    BY DEF TipInvariant
  <2>2. UNCHANGED walletVars
    BY DEF timerUnchanged
  <2>3. ~overlooked => OnTip'
    BY <2>1, <2>2 DEF AdoptBlock, OnTip, walletVars
  <2>4. pc'[Timer] \in {"update", "refresh", "sleep"}
    BY TimerGoes DEF StartWalk
  <2> QED BY <2>2, <2>3, <2>4, TimerMoves
<1>10. CASE TimerSeesLinkDown
  <2> USE <1>10 DEF TimerSeesLinkDown
  <2>1. UNCHANGED walletVars /\ ~connected
    BY DEF timerUnchanged
  <2>2. pc'[Timer] \in {"update", "refresh", "sleep"}
    BY TimerGoes DEF StartWalk
  <2> QED BY <2>1, <2>2, TimerMoves
<1>11. CASE WalletNext
  BY <1>11, WalletKeepsTip
<1> QED BY <1>1, <1>2, <1>3, <1>4, <1>5, <1>6, <1>7, <1>8, <1>9, <1>10, <1>11
        DEF Next, PoolNext, WorkNext, TimerStep, Stopped

\* While the link is up the pool is on the wallet's tip, or has its signal
\* still to come, or is about to fetch it, unless the answer with that block
\* was overtaken by a signal or the last outage came and went unseen: nothing
\* else loses a block, in any order of signals, answers, outages and failures.
\* This is what FollowTip rests on: all that is left to fairness is that
\* signals are handled and the fetch succeeds in the end.
THEOREM BlocksAreNotLost == Spec => []TipReachesPool
<1>1. Init => TipInvariant
  BY Kinds DEF Init, Start, TipInvariant, TipReachesPool
<1>2. TypeOK /\ TipInvariant /\ [Next]_vars => TipInvariant'
  BY StepTip
<1>3. TipInvariant => TipReachesPool
  BY DEF TipInvariant
<1> QED BY <1>1, <1>2, <1>3, TypeCorrect, PTL DEF Spec
=============================================================================
