----------------------------- MODULE PoolProofs -----------------------------
(***************************************************************************)
(* Type correctness of the frontend, and that no share is sent to the      *)
(* backend twice, for any number of connections, sessions, blocks and      *)
(* templates, as long as the wallet never serves the same template again   *)
(* (~WalletReissues).                                                      *)
(***************************************************************************)
EXTENDS PoolProperties, WellFoundedInduction, TLAPS

\* The minimum of a set of session ids: the next record of a walk exists.
LEMMA MinIsLeast ==
  ASSUME NEW S \in SUBSET Nat, S # {}
  PROVE  Min(S) \in S /\ \A y \in S : Min(S) <= y
<1> DEFINE Less == {ss \in Nat \X Nat : ss[1] < ss[2]}
<1>1. IsWellFoundedOn(Less, Nat)
  <2>1. Less = OpToRel(<, Nat)
    BY DEF OpToRel
  <2> QED BY <2>1, NatLessThanWellFounded
<1>2. PICK x \in S : \A y \in S : ~(<<y, x>> \in Less)
  <2> HIDE DEF Less
  <2> QED BY <1>1, WFMin
<1>3. ASSUME NEW y \in S PROVE x <= y
  <2>1. x \in Nat /\ y \in Nat
    OBVIOUS
  <2>2. ~(y < x)
    BY <1>2, <2>1
  <2> QED BY <2>1, <2>2
<1> QED BY <1>3 DEF Min

-----------------------------------------------------------------------------
\* Who is who

\* A coroutine is of one kind.
LEMMA Kinds ==
  /\ Miners \subseteq Coroutines /\ Sessions \subseteq Coroutines
  /\ Walks \subseteq Coroutines /\ Walkers \subseteq Walks /\ Timer \in Walks
  /\ Timer \in Coroutines
  /\ \A c \in Miners : c \notin Sessions /\ c \notin Walkers /\ c # Timer
  /\ \A c \in Sessions : c \notin Miners /\ c \notin Walkers /\ c # Timer
  /\ \A c \in Walkers : c \notin Miners /\ c \notin Sessions /\ c # Timer
  /\ Timer \notin Miners /\ Timer \notin Sessions /\ Timer \notin Walkers
BY CoroutinesAssumption DEF Coroutines, Walks

\* The header hash the pool computes for a submitted share.
LEMMA HeaderIsShare ==
  ASSUME BlockTypes, NEW m \in Templates, NEW n \in Nonces
  PROVE  /\ HeaderOf(m, n) \in Shares
         /\ HeaderOf(m, n).merkle = m /\ HeaderOf(m, n).prev = currHash
BY DEF BlockTypes, HeaderOf, Shares

-----------------------------------------------------------------------------
\* The type invariant

\* Each part depends on few variables.
LEMMA UntouchedTypes ==
  /\ BlockTypes /\ UNCHANGED blockVars => BlockTypes'
  /\ /\ TaskTypes /\ UNCHANGED <<taskVars, uniqueShares>> /\ served \subseteq served'
     => TaskTypes'
  /\ /\ RegistryTypes /\ UNCHANGED <<registryVars, connectedBefore>>
     => RegistryTypes'
  /\ /\ VisitTypes /\ UNCHANGED <<visit, sessionId>>
     /\ \A w \in Walks : pc'[w] = pc[w]
     => VisitTypes'
  /\ WalletTypes /\ UNCHANGED walletVars => WalletTypes'
  /\ OutputTypes /\ UNCHANGED <<credits, process>> => OutputTypes'
  /\ /\ CallTypes /\ UNCHANGED <<callVars, sessionId>> /\ served \subseteq served'
     => CallTypes'
<1>1. BlockTypes /\ UNCHANGED blockVars => BlockTypes'
  BY DEF BlockTypes, blockVars
<1>2. /\ TaskTypes /\ UNCHANGED <<taskVars, uniqueShares>> /\ served \subseteq served'
      => TaskTypes'
  BY DEF TaskTypes, taskVars
<1>3. /\ RegistryTypes /\ UNCHANGED <<registryVars, connectedBefore>>
      => RegistryTypes'
  BY DEF RegistryTypes, registryVars
<1>4. /\ VisitTypes /\ UNCHANGED <<visit, sessionId>>
      /\ \A w \in Walks : pc'[w] = pc[w]
      => VisitTypes'
  BY DEF VisitTypes
<1>5. WalletTypes /\ UNCHANGED walletVars => WalletTypes'
  BY DEF WalletTypes, walletVars
<1>6. OutputTypes /\ UNCHANGED <<credits, process>> => OutputTypes'
  BY DEF OutputTypes
<1>7. /\ CallTypes /\ UNCHANGED <<callVars, sessionId>> /\ served \subseteq served'
      => CallTypes'
  BY DEF CallTypes, callVars, CallOK, Answers, Suspended
<1> QED BY <1>1, <1>2, <1>3, <1>4, <1>5, <1>6, <1>7

\* A step of one coroutine keeps CallTypes if it leaves that coroutine right.
OnlyCall(c) ==
  /\ DOMAIN pc' = Coroutines /\ DOMAIN answer' = Coroutines
  /\ DOMAIN claim' = Coroutines
  /\ \A d \in Coroutines \ {c} :
       pc'[d] = pc[d] /\ answer'[d] = answer[d] /\ claim'[d] = claim[d]

\* A step of one coroutine keeps CallTypes if it leaves that coroutine right.
LEMMA OneCall ==
  ASSUME CallTypes, NEW c \in Coroutines, OnlyCall(c), CallOK(c)',
         sessionId' = sessionId, served \subseteq served'
  PROVE  CallTypes'
<1> SUFFICES ASSUME NEW d \in Coroutines, d # c PROVE CallOK(d)'
  BY DEF CallTypes, OnlyCall
<1> QED BY DEF CallTypes, OnlyCall, CallOK, Answers, Suspended

\* The steps of a connection leave the walks where they are.
LEMMA OneConnection ==
  ASSUME TypeOK, NEW c \in Miners \cup Sessions, OnlyCall(c), CallOK(c)',
         UNCHANGED <<visit, sessionId>>, served \subseteq served'
  PROVE  CallTypes' /\ VisitTypes'
<1>1. \A w \in Walks : pc'[w] = pc[w]
  BY Kinds, CoroutinesAssumption DEF OnlyCall
<1>2. CallTypes'
  BY Kinds, OneCall DEF TypeOK
<1> QED BY <1>1, <1>2, UntouchedTypes DEF TypeOK

\* Native protocol: the steps that touch nothing but their own call.
LEMMA ZmqIdleTypes ==
  ASSUME TypeOK, NEW c \in Miners,
         \/ ZmqConnect(c) \/ ZmqClose(c) \/ OnGetWork(c) \/ NoTemplate(c)
         \/ BlockRefused(c)
         \/ \E label \in {"recv", "closed"} :
                \E error : RefusedShare(c, label, error)
  PROVE  TypeOK'
<1> USE DEF ZmqConnect, ZmqClose, OnGetWork, NoTemplate, BlockRefused,
            RefusedShare, Call, Resume
<1>1. OnlyCall(c)
  BY DEF OnlyCall, TypeOK, CallTypes
<1>2. CallOK(c)'
  BY Kinds, MarkersAssumption
     DEF TypeOK, CallTypes, CallOK, Answers, Suspended
<1>3. UNCHANGED <<zmqUnchanged, extraNonceMap, uniqueShares, credits>>
  OBVIOUS
<1>4. CallTypes' /\ VisitTypes'
  BY <1>1, <1>2, <1>3, OneConnection DEF zmqUnchanged, registryVars, walletVars
<1> QED BY <1>3, <1>4, UntouchedTypes DEF TypeOK, zmqUnchanged, taskVars, walletVars

\* GETWORK answered: the merkle root of a served template is registered.
LEMMA TemplateForMinerTypes ==
  ASSUME TypeOK, NEW c \in Miners, TemplateForMiner(c)
  PROVE  TypeOK'
<1> USE DEF TemplateForMiner, Resume
<1>1. OnlyCall(c) /\ CallOK(c)'
  BY Kinds, MarkersAssumption
     DEF OnlyCall, TypeOK, CallTypes, CallOK, Answers, Suspended
<1>2. CallTypes' /\ VisitTypes'
  BY <1>1, OneConnection DEF zmqUnchanged, registryVars, walletVars
<1>3. answer[c] \in served /\ answer[c].extraNonce \in ExtraNonces
  BY Kinds, MarkersAssumption
     DEF TypeOK, CallTypes, CallOK, Answers, WalletTypes, Templates
<1>4. TaskTypes'
  BY <1>3 DEF TypeOK, TaskTypes, Put, zmqUnchanged, walletVars
<1> QED BY <1>2, <1>4, UntouchedTypes DEF TypeOK, zmqUnchanged, walletVars

\* A credit is a message of the backend's type.
LEMMA CreditTypes ==
  ASSUME BlockTypes, OutputTypes, UNCHANGED process,
         NEW h \in Shares, NEW isBlock \in BOOLEAN,
         Credit(h, isBlock) \/ UNCHANGED credits
  PROVE  OutputTypes'
<1> DEFINE Message  == [height : Nat, isBlock : BOOLEAN]
           message  == [height |-> currHeight + 1, isBlock |-> isBlock]
<1>1. credits[h] \in Seq(Message) /\ message \in Message
  BY DEF BlockTypes, OutputTypes
<1>2. Append(credits[h], message) \in Seq(Message)
  <2> HIDE DEF Message, message
  <2> QED BY <1>1
<1>3. credits' \in [Shares -> Seq(Message)]
  BY <1>2 DEF OutputTypes, Credit
<1> QED BY <1>3 DEF OutputTypes

\* SHARE that is not a block, taken.
LEMMA PlainShareTypes ==
  ASSUME TypeOK, NEW c \in Miners, NEW height, NEW h \in Shares,
         PlainShare(c, height, h)
  PROVE  TypeOK'
<1> USE DEF PlainShare, NewShare, SendShare
<1>1. OutputTypes'
  BY CreditTypes DEF TypeOK, zmqUnchanged
<1>2. TaskTypes'
  BY DEF TypeOK, TaskTypes, zmqUnchanged, walletVars
<1>3. CallTypes' /\ VisitTypes'
  BY UntouchedTypes DEF TypeOK, callVars, zmqUnchanged, registryVars, walletVars
<1> QED BY <1>1, <1>2, <1>3, UntouchedTypes DEF TypeOK, zmqUnchanged, walletVars

\* SHARE that is said to be a block: its arguments are well typed.
LEMMA BlockShareTypes ==
  ASSUME TypeOK, NEW c \in Miners, NEW height, NEW h \in Shares,
         BlockShare(c, height, h)
  PROVE  TypeOK'
<1> USE DEF BlockShare, NewShare, Call
<1>1. claim'[c] \in Claims
  <2>1. h.merkle \in DOMAIN extraNonceMap
    BY DEF CurrentWork
  <2>2. extraNonceMap[h.merkle] \in ExtraNonces /\ currHeight \in Nat
    BY <2>1 DEF TypeOK, TaskTypes, BlockTypes
  <2>3. claim'[c] = [share |-> h, extraNonce |-> extraNonceMap[h.merkle],
                  height |-> currHeight, invalid |-> EquihashRefuses(h)]
    BY Kinds DEF TypeOK, CallTypes
  <2>4. EquihashRefuses(h) \in BOOLEAN
    BY DEF EquihashRefuses
  <2> QED BY <2>2, <2>3, <2>4 DEF Claims
<1>2. OnlyCall(c) /\ CallOK(c)'
  BY <1>1, Kinds, MarkersAssumption
     DEF OnlyCall, TypeOK, CallTypes, CallOK, Answers, Suspended
<1>3. CallTypes' /\ VisitTypes'
  BY <1>2, OneConnection DEF zmqUnchanged, registryVars, walletVars
<1>4. TaskTypes'
  BY DEF TypeOK, TaskTypes, zmqUnchanged, walletVars
<1> QED BY <1>3, <1>4, UntouchedTypes DEF TypeOK, zmqUnchanged, walletVars

\* The verdict on a block share of the native protocol.
LEMMA BlockAcceptedTypes ==
  ASSUME TypeOK, NEW c \in Miners, BlockAccepted(c)
  PROVE  TypeOK'
<1> USE DEF BlockAccepted, SendShare, Resume
<1>1. claim[c].share \in Shares
  BY Kinds DEF TypeOK, CallTypes, CallOK, Claims
<1>2. OutputTypes'
  BY <1>1, CreditTypes DEF TypeOK, zmqUnchanged
<1>3. OnlyCall(c) /\ CallOK(c)'
  BY Kinds, MarkersAssumption
     DEF OnlyCall, TypeOK, CallTypes, CallOK, Answers, Suspended
<1>4. CallTypes' /\ VisitTypes'
  BY <1>3, OneConnection DEF zmqUnchanged, registryVars, walletVars
<1> QED BY <1>2, <1>4, UntouchedTypes DEF TypeOK, zmqUnchanged, taskVars, walletVars
\* Stratum: a step of session s that ends in a call, or in the next read.
LEMMA SessionCall ==
  ASSUME TypeOK, NEW s \in Sessions, NEW label \in {"read", "template", "pow"},
         pc[s] \in {"read", "template", "pow"},
         pc' = [pc EXCEPT ![s] = label],
         answer' = [answer EXCEPT ![s] = IF label = "read" THEN Null ELSE Pending],
         \/ UNCHANGED claim /\ pc[s] # "pow" /\ label # "pow"
         \/ claim' = [claim EXCEPT ![s] = NoClaim] /\ label # "pow"
         \/ \E cl \in Claims : claim' = [claim EXCEPT ![s] = cl] /\ label = "pow",
         UNCHANGED <<visit, sessionId, served>>
  PROVE  CallTypes' /\ VisitTypes'
<1>1. OnlyCall(s) /\ CallOK(s)'
  BY Kinds, MarkersAssumption
     DEF OnlyCall, TypeOK, CallTypes, CallOK, Answers, Suspended, Sessions
<1> QED BY <1>1, OneConnection

\* A stratum connection takes the next session id.
LEMMA StratumAcceptTypes ==
  ASSUME TypeOK, StratumAccept
  PROVE  TypeOK'
<1> USE DEF StratumAccept
<1>1. sessionId \in Sessions /\ sessionId + 1 \in 0..MaxSessions
  BY SessionsAssumption DEF Sessions, TypeOK, RegistryTypes
<1>2. CallTypes'
  <2>1. \A c \in Coroutines : CallOK(c)'
    BY <1>1, Kinds, SessionsAssumption
       DEF TypeOK, CallTypes, CallOK, Answers, Suspended, RegistryTypes, Sessions,
           stratumUnchanged, walletVars
  <2> QED BY <2>1 DEF TypeOK, CallTypes
<1>3. RegistryTypes'
  BY <1>1, SessionsAssumption DEF TypeOK, RegistryTypes, stratumUnchanged
<1>4. VisitTypes'
  <2>1. \A w \in Walks : pc'[w] = pc[w]
    BY <1>1, Kinds, CoroutinesAssumption DEF TypeOK, CallTypes
  <2>2. 0..(sessionId - 1) \subseteq 0..(sessionId' - 1)
    BY <1>1 DEF Sessions
  <2> QED BY <2>1, <2>2 DEF TypeOK, VisitTypes
<1> QED BY <1>2, <1>3, <1>4, UntouchedTypes
        DEF TypeOK, stratumUnchanged, taskVars, walletVars

\* A session that does anything was accepted.
LEMMA AcceptedSession ==
  ASSUME TypeOK, NEW s \in Sessions, pc[s] # "unborn"
  PROVE  s \in 0..(sessionId - 1)
BY Kinds, SessionsAssumption
   DEF TypeOK, CallTypes, CallOK, RegistryTypes, Sessions

\* A login writes the record of an accepted session.
LEMMA OnStratumAuthorizeTypes ==
  ASSUME TypeOK, NEW s \in Sessions, NEW valid \in BOOLEAN,
         OnStratumAuthorize(s, valid)
  PROVE  TypeOK'
<1> USE DEF OnStratumAuthorize, Call
<1>1. CallTypes' /\ VisitTypes'
  BY SessionCall DEF stratumUnchanged, walletVars
<1>2. s \in 0..(sessionId - 1)
  BY AcceptedSession DEF TypeOK
<1>3. RegistryTypes'
  BY <1>2 DEF TypeOK, RegistryTypes, Put, stratumUnchanged
<1> QED BY <1>1, <1>3, UntouchedTypes
        DEF TypeOK, stratumUnchanged, taskVars, walletVars

\* What stratumSendNewWork does with a template it has got.
LEMMA SendNewWorkTypes ==
  ASSUME TypeOK, NEW s \in 0..(sessionId - 1), NEW m \in served \cup {Null},
         stratumTaskMap' = TasksAfterWork(m),
         stratumWorkers' = WorkersAfterWork(s, m),
         UNCHANGED <<extraNonceMap, uniqueShares, sessionId, served>>,
         connectedBefore' \in BOOLEAN
  PROVE  TaskTypes' /\ RegistryTypes'
<1>1. TaskTypes'
  BY DEF TypeOK, TaskTypes, TasksAfterWork, HasWork, Put, WalletTypes, Templates
<1>2. Record(stratumWorkers, s) \in [socket : {"own", "wild"}, due : BOOLEAN]
  BY DEF TypeOK, RegistryTypes, Record
<1>3. RegistryTypes'
  BY <1>2 DEF TypeOK, RegistryTypes, WorkersAfterWork, Put
<1> QED BY <1>1, <1>3

\* Work for the session that asked for it.
LEMMA StratumWorkTypes ==
  ASSUME TypeOK, NEW s \in Sessions, StratumWork(s)
  PROVE  TypeOK'
<1> USE DEF StratumWork, Resume
<1>1. CallTypes' /\ VisitTypes'
  BY SessionCall DEF stratumUnchanged, walletVars
<1>2. s \in 0..(sessionId - 1) /\ answer[s] \in served \cup {Null}
  BY Kinds, AcceptedSession DEF TypeOK, CallTypes, CallOK, Answers
<1>3. TaskTypes' /\ RegistryTypes'
  BY <1>2, SendNewWorkTypes DEF TypeOK, RegistryTypes, stratumUnchanged, walletVars
<1> QED BY <1>1, <1>3, UntouchedTypes DEF TypeOK, stratumUnchanged, walletVars

\* A session ends and its record goes.
LEMMA StratumCloseTypes ==
  ASSUME TypeOK, NEW s \in Sessions, StratumClose(s)
  PROVE  TypeOK'
<1> USE DEF StratumClose, InvalidateVisits
<1>1. OnlyCall(s) /\ CallOK(s)'
  BY Kinds, MarkersAssumption
     DEF OnlyCall, TypeOK, CallTypes, CallOK, Answers, Suspended, Sessions
<1>2. CallTypes'
  BY <1>1, OneCall, Kinds DEF TypeOK, stratumUnchanged, walletVars
<1>3. \A w \in Walks : pc'[w] = pc[w]
  BY <1>1, Kinds, CoroutinesAssumption DEF OnlyCall
<1>4. VisitTypes'
  <2>1. visit \in [Walks -> [pos : Nat, socket : {"own", "wild"}, valid : BOOLEAN]]
    BY DEF TypeOK, VisitTypes
  <2>2. visit' \in [Walks -> [pos : Nat, socket : {"own", "wild"}, valid : BOOLEAN]]
        /\ \A w \in Walks : visit'[w].pos = visit[w].pos
    BY <2>1
  <2> QED BY <1>3, <2>2 DEF TypeOK, VisitTypes
<1>5. RegistryTypes'
  BY DEF TypeOK, RegistryTypes, Erase, stratumUnchanged
<1> QED BY <1>2, <1>4, <1>5, UntouchedTypes
        DEF TypeOK, stratumUnchanged, taskVars, walletVars

\* The work of a session gets old.
LEMMA WorkLifeTimeTypes ==
  ASSUME TypeOK, NEW s \in Sessions, WorkLifeTimeExpires(s)
  PROVE  TypeOK'
<1> USE DEF WorkLifeTimeExpires
<1>1. RegistryTypes'
  BY DEF TypeOK, RegistryTypes, stratumUnchanged
<1>2. CallTypes' /\ VisitTypes'
  BY UntouchedTypes DEF TypeOK, callVars, stratumUnchanged, walletVars
<1> QED BY <1>1, <1>2, UntouchedTypes
        DEF TypeOK, stratumUnchanged, taskVars, walletVars

\* A submit that is refused; the lookup may leave an empty task behind.
LEMMA RefusedSubmitTypes ==
  ASSUME TypeOK, NEW s \in Sessions,
         \/ BadJobName(s)
         \/ \E e \in ExtraNonces :
              \/ UnknownJob(s, e)
              \/ \E n \in Nonces : BadShare(s, e, n) \/ DuplicateSubmit(s, e, n)
         \/ BlockSubmitRefused(s)
  PROVE  TypeOK'
<1>1. \E error : RefuseSubmit(s, error)
  BY DEF BadJobName, UnknownJob, BadShare, DuplicateSubmit, BlockSubmitRefused
<1>2. pc[s] \in {"read", "pow"} /\ UNCHANGED uniqueShares
  BY DEF BadJobName, UnknownJob, BadShare, DuplicateSubmit, BlockSubmitRefused
<1>3. \/ pc[s] = "read" /\ UNCHANGED claim
      \/ claim' = [claim EXCEPT ![s] = NoClaim]
  BY DEF BadJobName, UnknownJob, BadShare, DuplicateSubmit, BlockSubmitRefused
<1>4. CallTypes' /\ VisitTypes'
  BY <1>1, <1>2, <1>3, SessionCall
     DEF RefuseSubmit, Call, registryVars, stratumUnchanged, walletVars
<1>5. TaskTypes'
  <2>1. UNCHANGED <<extraNonceMap, served>>
    BY <1>1 DEF RefuseSubmit, stratumUnchanged, walletVars
  <2>2. \/ UNCHANGED stratumTaskMap
        \/ \E e \in ExtraNonces : stratumTaskMap' = TasksAfterLookup(e)
    BY DEF BadJobName, UnknownJob, BadShare, DuplicateSubmit, BlockSubmitRefused
  <2> QED BY <1>2, <2>1, <2>2 DEF TypeOK, TaskTypes, TasksAfterLookup, Put
<1> QED BY <1>1, <1>4, <1>5, UntouchedTypes
        DEF TypeOK, RefuseSubmit, stratumUnchanged, walletVars

\* A share that is sent on, or refused because the backend is down.
LEMMA CountedTypes ==
  ASSUME TypeOK, NEW s \in Sessions, pc[s] \in {"read", "pow"},
         NEW h \in Shares, NEW isBlock \in BOOLEAN,
         CountShare(s, h, isBlock) \/ \E error : RefuseSubmit(s, error)
  PROVE  OutputTypes' /\ RegistryTypes'
<1>1. OutputTypes'
  BY CreditTypes DEF TypeOK, CountShare, RefuseSubmit, stratumUnchanged
<1>2. s \in 0..(sessionId - 1)
  BY AcceptedSession
<1>3. Record(stratumWorkers, s) \in [socket : {"own", "wild"}, due : BOOLEAN]
  BY DEF TypeOK, RegistryTypes, Record
<1>4. RegistryTypes'
  BY <1>2, <1>3 DEF TypeOK, RegistryTypes, CountShare, RefuseSubmit, Put,
     stratumUnchanged, registryVars
<1> QED BY <1>1, <1>4

\* A submit that is not a block, taken or refused for the backend.
LEMMA PlainSubmitTypes ==
  ASSUME TypeOK, NEW s \in Sessions, NEW e, NEW h \in Shares,
         PlainSubmit(s, e, h)
  PROVE  TypeOK'
<1> USE DEF PlainSubmit, NewSubmit
<1>1. OutputTypes' /\ RegistryTypes'
  BY CountedTypes
<1>2. UNCHANGED stratumUnchanged /\ UNCHANGED <<sessionId, visit>>
  BY DEF CountShare, RefuseSubmit, registryVars
<1>3. CallTypes' /\ VisitTypes'
  <2>1. CASE UNCHANGED <<pc, answer>>
    BY <1>2, <2>1, UntouchedTypes DEF TypeOK, callVars, stratumUnchanged, walletVars
  <2>2. CASE Call(s, "template")
    BY <1>2, <2>2, SessionCall DEF Call, stratumUnchanged, walletVars
  <2> QED BY <2>1, <2>2 DEF RefuseSubmit
<1>4. TaskTypes'
  BY <1>2 DEF TypeOK, TaskTypes, stratumUnchanged, walletVars
<1> QED BY <1>1, <1>2, <1>3, <1>4, UntouchedTypes
        DEF TypeOK, stratumUnchanged, walletVars

\* A submit that solves a block goes to the wallet.
LEMMA BlockSubmitTypes ==
  ASSUME TypeOK, NEW s \in Sessions, NEW e \in ExtraNonces, NEW h \in Shares,
         BlockSubmit(s, e, h)
  PROVE  TypeOK'
<1> USE DEF BlockSubmit, NewSubmit
<1> DEFINE cl == [share |-> h, extraNonce |-> e, height |-> currHeight,
                  invalid |-> FALSE]
<1>1. cl \in Claims /\ claim' = [claim EXCEPT ![s] = cl]
  BY DEF TypeOK, BlockTypes, Claims
<1>2. CallTypes' /\ VisitTypes'
  <2> HIDE DEF cl
  <2> QED BY <1>1, SessionCall DEF Call, registryVars, stratumUnchanged, walletVars
<1>3. TaskTypes'
  BY DEF TypeOK, TaskTypes, stratumUnchanged, walletVars
<1> QED BY <1>2, <1>3, UntouchedTypes DEF TypeOK, stratumUnchanged, walletVars

\* The verdict on a submit.
LEMMA BlockSubmitAcceptedTypes ==
  ASSUME TypeOK, NEW s \in Sessions, BlockSubmitAccepted(s)
  PROVE  TypeOK'
<1> USE DEF BlockSubmitAccepted
<1>1. claim[s].share \in Shares
  BY Kinds DEF TypeOK, CallTypes, CallOK, Claims
<1>2. OutputTypes' /\ RegistryTypes'
  BY <1>1, CountedTypes
<1>3. UNCHANGED stratumUnchanged /\ UNCHANGED <<sessionId, visit>>
  BY DEF CountShare, RefuseSubmit, registryVars
<1>4. CallTypes' /\ VisitTypes'
  <2>1. CASE Resume(s, "read")
    BY <1>3, <2>1, SessionCall DEF Resume, stratumUnchanged, walletVars
  <2>2. CASE Call(s, "template")
    BY <1>3, <2>2, SessionCall DEF Call, stratumUnchanged, walletVars
  <2> QED BY <2>1, <2>2 DEF RefuseSubmit
<1> QED BY <1>2, <1>3, <1>4, UntouchedTypes
        DEF TypeOK, taskVars, stratumUnchanged, walletVars

-----------------------------------------------------------------------------
\* Work distribution

\* Adopting a block is well typed, and forgets the work.
LEMMA AdoptBlockTypes ==
  ASSUME NEW b \in Blocks, AdoptBlock(b)
  PROVE  BlockTypes' /\ TaskTypes'
BY HeightAssumption DEF AdoptBlock, BlockTypes, TaskTypes, EmptyMap

\* Where a walk goes next: to a record of the map, or to its end.
LEMMA NextStopTypes ==
  ASSUME NEW w \in Walks, NEW loop \in {"update", "refresh"},
         w = Timer \/ loop = "update", NEW from \in Nat, NEW workers,
         DOMAIN workers \subseteq 0..(sessionId - 1), sessionId \in Nat,
         \A s \in DOMAIN workers :
           workers[s] \in [socket : {"own", "wild"}, due : BOOLEAN],
         NEW stop, stop = NextStop(w, loop, from, workers)
  PROVE  /\ stop.visit \in [pos : Nat, socket : {"own", "wild"}, valid : BOOLEAN]
         /\ \/ /\ stop.pc \in {"update", "refresh"} /\ stop.answer = Pending
               /\ w # Timer => stop.pc = "update"
               /\ stop.visit.pos \in DOMAIN workers
            \/ /\ stop.pc = IF w = Timer THEN "sleep" ELSE "free"
               /\ stop.answer = Null
<1> DEFINE here == Stops(loop, from, workers)
           old  == Stops("refresh", 0, workers)
           to(l, s) == [pc |-> l, answer |-> Pending, visit |-> VisitTo(s, workers)]
           end == [pc |-> IF w = Timer THEN "sleep" ELSE "free",
                   answer |-> Null, visit |-> NoVisit]
<1>1. here \subseteq DOMAIN workers /\ old \subseteq DOMAIN workers
  BY DEF Stops
<1>2. here \in SUBSET Nat /\ old \in SUBSET Nat
  BY <1>1
<1>3. \A s \in DOMAIN workers :
        VisitTo(s, workers) \in [pos : Nat, socket : {"own", "wild"}, valid : BOOLEAN]
  BY DEF VisitTo
<1>4. \/ here # {} /\ stop = to(loop, Min(here))
      \/ w = Timer /\ old # {} /\ stop = to("refresh", Min(old))
      \/ stop = end
  BY DEF NextStop
<1>5. here # {} => Min(here) \in DOMAIN workers
  BY <1>1, <1>2, MinIsLeast
<1>6. old # {} => Min(old) \in DOMAIN workers
  BY <1>1, <1>2, MinIsLeast
<1>7. NoVisit \in [pos : Nat, socket : {"own", "wild"}, valid : BOOLEAN]
  BY DEF NoVisit
<1> HIDE DEF here, old
<1>8. CASE here # {} /\ stop = to(loop, Min(here))
  <2>1. stop.visit = VisitTo(Min(here), workers) /\ stop.visit.pos = Min(here)
    BY <1>8 DEF VisitTo
  <2>2. stop.pc = loop /\ stop.answer = Pending
    BY <1>8
  <2> QED BY <1>3, <1>5, <1>8, <2>1, <2>2
<1>9. CASE w = Timer /\ old # {} /\ stop = to("refresh", Min(old))
  <2>1. stop.visit = VisitTo(Min(old), workers) /\ stop.visit.pos = Min(old)
    BY <1>9 DEF VisitTo
  <2>2. stop.pc = "refresh" /\ stop.answer = Pending
    BY <1>9
  <2> QED BY <1>3, <1>6, <1>9, <2>1, <2>2
<1>10. CASE stop = end
  BY <1>7, <1>10
<1> QED BY <1>4, <1>8, <1>9, <1>10

\* A walk that starts, or goes on, from typed records.
LEMMA WalkTypes ==
  ASSUME TypeOK, NEW w \in Walks, NEW loop \in {"update", "refresh"},
         w = Timer \/ loop = "update", NEW from \in Nat,
         NEW stop, stop = NextStop(w, loop, from, stratumWorkers'),
         RegistryTypes', GoTo(w, stop), pc[w] # "pow",
         UNCHANGED <<claim, sessionId>>, served \subseteq served'
  PROVE  CallTypes' /\ VisitTypes'
<1>1. /\ stop.visit \in [pos : Nat, socket : {"own", "wild"}, valid : BOOLEAN]
      /\ \/ /\ stop.pc \in {"update", "refresh"} /\ stop.answer = Pending
            /\ w # Timer => stop.pc = "update"
            /\ stop.visit.pos \in 0..(sessionId' - 1)
         \/ /\ stop.pc = IF w = Timer THEN "sleep" ELSE "free"
            /\ stop.answer = Null
  <2>1. /\ DOMAIN stratumWorkers' \subseteq 0..(sessionId' - 1)
        /\ sessionId' \in Nat /\ sessionId' = sessionId
        /\ \A s \in DOMAIN stratumWorkers' :
             stratumWorkers'[s] \in [socket : {"own", "wild"}, due : BOOLEAN]
    BY SessionsAssumption DEF RegistryTypes
  <2> QED BY <2>1, NextStopTypes
<1>2. OnlyCall(w) /\ pc'[w] = stop.pc /\ answer'[w] = stop.answer
      /\ claim'[w] = claim[w] /\ w \in Coroutines
  BY Kinds DEF GoTo, OnlyCall, TypeOK, CallTypes
<1>3. CallOK(w)'
  BY <1>1, <1>2, Kinds, CoroutinesAssumption, MarkersAssumption
     DEF TypeOK, CallTypes, CallOK, Answers, Suspended, Walks
<1>4. CallTypes'
  BY <1>2, <1>3, OneCall DEF TypeOK
<1>5. VisitTypes'
  <2>1. visit' \in [Walks -> [pos : Nat, socket : {"own", "wild"}, valid : BOOLEAN]]
    BY <1>1 DEF GoTo, TypeOK, VisitTypes
  <2>2. ASSUME NEW v \in Walks, pc'[v] \in {"update", "refresh"}
        PROVE  visit'[v].pos \in 0..(sessionId' - 1)
    <3>1. CASE v = w
      BY <1>1, <1>2, <2>2, <3>1 DEF GoTo, TypeOK, VisitTypes
    <3>2. CASE v # w
      BY <1>2, <2>2, <3>2, Kinds DEF GoTo, OnlyCall, TypeOK, VisitTypes
    <3> QED BY <3>1, <3>2
  <2> QED BY <2>1, <2>2 DEF VisitTypes
<1> QED BY <1>4, <1>5

\* timerProc's copy of the link state.
LEMMA SampleLinkTypes ==
  ASSUME TypeOK, NEW w, NEW loop, NEW stop, SampleLink(w, loop, stop)
  PROVE  connectedBefore' \in BOOLEAN
BY DEF SampleLink, TypeOK, RegistryTypes, WalletTypes

\* A new block signal starts a walk.
LEMMA NewBlockSignalTypes ==
  ASSUME TypeOK, NewBlockSignal
  PROVE  TypeOK'
<1> USE DEF NewBlockSignal
<1>1. PICK w \in Walkers : pc[w] = "free" /\ StartWalk(w, "update", stratumWorkers)
  OBVIOUS
<1>2. Head(signals) \in Blocks /\ Tail(signals) \in Seq(Blocks)
  BY DEF TypeOK, WalletTypes
<1>3. BlockTypes' /\ TaskTypes' /\ WalletTypes'
  BY <1>2, AdoptBlockTypes DEF TypeOK, WalletTypes
<1>4. RegistryTypes'
  BY <1>1, SampleLinkTypes DEF StartWalk, TypeOK, RegistryTypes
<1>5. CallTypes' /\ VisitTypes'
  <2> DEFINE stop == NextStop(w, "update", 0, stratumWorkers')
  <2>1. GoTo(w, stop)
    BY <1>1 DEF StartWalk
  <2> HIDE DEF stop
  <2> QED BY <1>1, <1>4, <2>1, WalkTypes, Kinds DEF stop
<1> QED BY <1>3, <1>4, <1>5, UntouchedTypes DEF TypeOK

\* One round of a walk.
LEMMA WalkStepTypes ==
  ASSUME TypeOK, NEW w \in Walks, WalkStep(w)
  PROVE  TypeOK'
<1> DEFINE stop == NextStop(w, pc[w], visit[w].pos + 1, stratumWorkers')
<1>1. /\ pc[w] \in {"update", "refresh"} /\ answer[w] # Pending
      /\ stratumTaskMap' = TasksAfterWork(answer[w])
      /\ stratumWorkers' = WorkersAfterWork(visit[w].pos, answer[w])
      /\ GoTo(w, stop) /\ SampleLink(w, pc[w], stop)
      /\ UNCHANGED <<workUnchanged, blockVars, walletVars, process>>
  BY DEF WalkStep
<1>2. /\ visit[w].pos \in 0..(sessionId - 1) /\ visit[w].pos + 1 \in Nat
      /\ answer[w] \in served \cup {Null}
      /\ w = Timer \/ pc[w] = "update"
  BY <1>1, Kinds DEF TypeOK, VisitTypes, CallTypes, CallOK, Answers, Walks
<1> HIDE DEF stop
<1>3. TaskTypes' /\ RegistryTypes'
  BY <1>1, <1>2, SendNewWorkTypes, SampleLinkTypes DEF workUnchanged, walletVars
<1>4. CallTypes' /\ VisitTypes'
  BY <1>1, <1>2, <1>3, WalkTypes DEF stop, workUnchanged, walletVars
<1> QED BY <1>1, <1>3, <1>4, UntouchedTypes DEF TypeOK, workUnchanged

\* A round of a walk that crashes the process.
LEMMA WalkCrashTypes ==
  ASSUME TypeOK, NEW w \in Walks, WalkCrash(w)
  PROVE  TypeOK'
<1> USE DEF WalkCrash
<1>1. CallTypes' /\ VisitTypes' /\ TaskTypes'
  BY UntouchedTypes DEF TypeOK, callVars, registryVars, walletVars
<1>2. OutputTypes'
  BY DEF TypeOK, OutputTypes
<1> QED BY <1>1, <1>2, UntouchedTypes DEF TypeOK

\* The steps of timerProc.
LEMMA TimerTypes ==
  ASSUME TypeOK, TimerStep
  PROVE  TypeOK'
<1>1. CASE TimerTick
  <2> USE <1>1 DEF TimerTick
  <2> DEFINE stop == NextStop(Timer, "refresh", 0, stratumWorkers')
  <2>1. GoTo(Timer, stop) /\ UNCHANGED connectedBefore
    BY DEF StartWalk, SampleLink, timerUnchanged
  <2> HIDE DEF stop
  <2>2. RegistryTypes'
    BY <2>1, UntouchedTypes DEF TypeOK, timerUnchanged, registryVars
  <2>3. CallTypes' /\ VisitTypes'
    BY <2>1, <2>2, WalkTypes, Kinds DEF stop, timerUnchanged, walletVars
  <2> QED BY <2>2, <2>3, UntouchedTypes DEF TypeOK, timerUnchanged, walletVars
<1>2. CASE TimerSeesLinkUp \/ TimerGetsNoBlock
  <2> USE <1>2 DEF TimerSeesLinkUp, TimerGetsNoBlock, Call, Resume
  <2>1. OnlyCall(Timer) /\ CallOK(Timer)' /\ pc'[Timer] \in {"sleep", "getblock"}
    BY Kinds, MarkersAssumption
       DEF OnlyCall, TypeOK, CallTypes, CallOK, Answers, Suspended, timerUnchanged
  <2>2. CallTypes'
    BY <2>1, Kinds, OneCall DEF TypeOK, timerUnchanged, walletVars
  <2>3. VisitTypes'
    BY <2>1, Kinds DEF OnlyCall, TypeOK, VisitTypes, timerUnchanged, registryVars
  <2> QED BY <2>2, <2>3, UntouchedTypes
          DEF TypeOK, timerUnchanged, walletVars, registryVars
<1>3. CASE TimerGetsBlock \/ TimerSeesLinkDown
  <2> USE <1>3 DEF TimerGetsBlock, TimerSeesLinkDown
  <2> DEFINE stop == NextStop(Timer, "update", 0, stratumWorkers')
  <2>1. /\ GoTo(Timer, stop) /\ SampleLink(Timer, "update", stop)
        /\ UNCHANGED timerUnchanged
    BY DEF StartWalk, timerUnchanged
  <2> HIDE DEF stop
  <2>2. RegistryTypes'
    BY <2>1, SampleLinkTypes DEF TypeOK, RegistryTypes, timerUnchanged
  <2>3. CallTypes' /\ VisitTypes'
    BY <2>1, <2>2, WalkTypes, Kinds DEF stop, timerUnchanged, walletVars
  <2>4. BlockTypes' /\ TaskTypes'
    <3>1. CASE TimerGetsBlock
      <4>1. answer[Timer] \in Blocks
        BY <3>1, Kinds DEF TypeOK, CallTypes, CallOK, Answers
      <4> QED BY <3>1, <4>1, AdoptBlockTypes
    <3>2. CASE TimerSeesLinkDown
      BY <3>2, UntouchedTypes DEF TypeOK, BlockTypes, timerUnchanged, walletVars
    <3> QED BY <3>1, <3>2
  <2> QED BY <2>1, <2>2, <2>3, <2>4, UntouchedTypes DEF TypeOK, timerUnchanged
<1> QED BY <1>1, <1>2, <1>3 DEF TimerStep

-----------------------------------------------------------------------------
\* The wallet

\* An answer of the kind a coroutine waits for.
LEMMA AnswerTypes ==
  ASSUME TypeOK, NEW c \in Coroutines, NEW a, Suspended(c), Answer(c, a),
         Answers(pc[c], a)', served \subseteq served',
         UNCHANGED <<pc, claim, sessionId, visit>>
  PROVE  CallTypes' /\ VisitTypes'
<1>1. OnlyCall(c)
  BY DEF OnlyCall, Answer, TypeOK, CallTypes
<1>2. CallOK(c)'
  BY DEF Answer, TypeOK, CallTypes, CallOK, Suspended
<1>3. CallTypes'
  BY <1>1, <1>2, OneCall DEF TypeOK
<1> QED BY <1>3, UntouchedTypes DEF TypeOK

\* The steps of the wallet and of the link.
LEMMA WalletStepTypes ==
  ASSUME TypeOK, WalletNext
  PROVE  TypeOK'
<1>0. UNCHANGED <<poolSideVars, process>>
  BY DEF WalletNext, NewTip, ServeBlock, LinkDown, LinkUp, ServeTemplate,
     ServePowAccepted, ServePowRejected, CallFails, poolSideVars
<1>1. served \subseteq served'
  BY DEF WalletNext, NewTip, ServeBlock, LinkDown, LinkUp, ServeTemplate,
     ServePowAccepted, ServePowRejected, CallFails, walletVars
<1>2. BlockTypes' /\ TaskTypes' /\ RegistryTypes' /\ OutputTypes'
  BY <1>0, <1>1, UntouchedTypes DEF TypeOK, poolSideVars, taskVars
<1>3. ASSUME NEW b \in Blocks, TipBecomes(b)
      PROVE  /\ tip' \in Blocks /\ tip' \in chain' /\ chain' \subseteq Blocks
             /\ signals' \in Seq(Blocks) /\ overlooked' \in BOOLEAN
  <2>1. overlooked' \in {BlockOvertaken, overlooked}
    BY <1>3 DEF TipBecomes
  <2>2. overlooked' \in BOOLEAN
    BY <2>1 DEF BlockOvertaken, TypeOK, WalletTypes
  <2> QED BY <1>3, <2>2 DEF TipBecomes, TypeOK, WalletTypes
<1>4. WalletTypes'
  <2>1. CASE NewTip
    BY <1>3, <2>1 DEF NewTip, TypeOK, WalletTypes
  <2>2. CASE \E c \in Coroutines : ServePowAccepted(c)
    <3>1. PICK c \in Coroutines : ServePowAccepted(c)
      BY <2>2
    <3>2. claim[c].share \in Shares
      BY <3>1 DEF ServePowAccepted, TypeOK, CallTypes, CallOK, Claims
    <3> QED BY <1>3, <3>1, <3>2 DEF ServePowAccepted, TypeOK, WalletTypes
  <2>3. CASE \E c \in Coroutines : ServeTemplate(c)
    BY <2>3 DEF ServeTemplate, TypeOK, WalletTypes
  <2>4. CASE \E c \in Coroutines : ServePowRejected(c) \/ CallFails(c)
    BY <2>4, UntouchedTypes DEF ServePowRejected, CallFails, TypeOK
  <2>6. CASE ServeBlock
    BY <2>6 DEF ServeBlock, TypeOK, WalletTypes
  <2>5. CASE LinkDown \/ LinkUp
    <3>1. connected' \in BOOLEAN
      BY <2>5 DEF LinkDown, LinkUp
    <3>2. signals' \in Seq(Blocks)
      <4>1. signals' = <<>> \/ signals' = signals
        BY <2>5 DEF LinkDown, LinkUp
      <4>2. <<>> \in Seq(Blocks) /\ signals \in Seq(Blocks)
        BY DEF TypeOK, WalletTypes
      <4> QED BY <4>1, <4>2
    <3>3. overlooked' \in BOOLEAN
      <4>1. OutageUnseen \in BOOLEAN
        BY DEF OutageUnseen
      <4>2. overlooked' = OutageUnseen \/ overlooked' = overlooked
        BY <2>5 DEF LinkDown, LinkUp
      <4> QED BY <4>1, <4>2 DEF TypeOK, WalletTypes
    <3> QED BY <2>5, <3>1, <3>2, <3>3 DEF LinkDown, LinkUp, TypeOK, WalletTypes
  <2> QED BY <2>1, <2>2, <2>3, <2>4, <2>5, <2>6 DEF WalletNext
<1>5. CallTypes' /\ VisitTypes'
  <2>1. CASE NewTip \/ LinkUp
    BY <1>0, <1>1, <2>1, UntouchedTypes
       DEF NewTip, LinkUp, TypeOK, poolSideVars, callVars, registryVars
  <2>2. CASE LinkDown
    BY <1>0, <1>1, <2>2
       DEF LinkDown, TypeOK, poolSideVars, registryVars, CallTypes, CallOK,
           Answers, Suspended, VisitTypes
  <2>3. CASE ServeBlock
    BY <1>0, <2>3, AnswerTypes, Kinds
       DEF ServeBlock, poolSideVars, registryVars, walletVars, Suspended, Answers,
           TypeOK, WalletTypes
  <2>4. ASSUME NEW c \in Coroutines,
               \/ ServeTemplate(c) \/ ServePowAccepted(c)
               \/ ServePowRejected(c) \/ CallFails(c)
        PROVE  CallTypes' /\ VisitTypes'
    <3>1. \E a : Answer(c, a) /\ Answers(pc[c], a)' /\ Suspended(c)
      BY <1>0, <2>4 DEF ServeTemplate, ServePowAccepted, ServePowRejected, CallFails,
         WaitsForTemplate, Suspended, Answers, poolSideVars
    <3> QED BY <1>0, <1>1, <3>1, AnswerTypes DEF poolSideVars, registryVars
  <2> QED BY <2>1, <2>2, <2>3, <2>4 DEF WalletNext
<1> QED BY <1>2, <1>4, <1>5 DEF TypeOK

-----------------------------------------------------------------------------
\* The program starts well typed.
LEMMA InitTypes == Init => TypeOK
<1> SUFFICES ASSUME Init PROVE TypeOK
  OBVIOUS
<1> USE DEF Init
<1>1. BlockTypes
  BY DEF BlockTypes
<1>2. TaskTypes
  BY DEF TaskTypes, EmptyMap
<1>3. RegistryTypes
  <2>1. DOMAIN stratumWorkers = {} /\ sessionId \in 0..MaxSessions
    BY SessionsAssumption DEF EmptyMap
  <2>2. connectedBefore \in BOOLEAN
    OBVIOUS
  <2> QED BY <2>1, <2>2 DEF RegistryTypes
<1>4. \A c \in Coroutines : CallOK(c)
  BY Kinds, SessionsAssumption DEF CallOK, Start, Answers, Suspended, Sessions, Coroutines
<1>5. CallTypes
  BY <1>4 DEF CallTypes
<1>6. VisitTypes
  BY Kinds DEF VisitTypes, NoVisit, Start, Coroutines
<1>7. WalletTypes
  <2>1. signals \in Seq(Blocks)
    OBVIOUS
  <2>2. connected \in BOOLEAN
    OBVIOUS
  <2> QED BY <2>1, <2>2 DEF WalletTypes
<1>8. OutputTypes
  <2>1. <<>> \in Seq([height : Nat, isBlock : BOOLEAN])
    OBVIOUS
  <2> QED BY <2>1 DEF OutputTypes
<1> QED BY <1>1, <1>2, <1>3, <1>5, <1>6, <1>7, <1>8 DEF TypeOK

\* What a share is refused with.
Refusals == {"INVALID", "STALE", "DUPLICATE"}

\* What onShare does with a share: it refuses it or takes it, with the header
\* it has rebuilt on the current block.
LEMMA OnShareSplit ==
  ASSUME BlockTypes, NEW c, OnShare(c)
  PROVE  \/ \E label \in {"recv", "closed"} :
                \E error \in Refusals : RefusedShare(c, label, error)
         \/ \E height : \E h \in Shares :
              /\ h.prev = currHash
              /\ PlainShare(c, height, h) \/ BlockShare(c, height, h)
<1> DEFINE Refused ==
             \E label \in {"recv", "closed"} :
                \E error \in Refusals : RefusedShare(c, label, error)
           Taken ==
             \E height : \E h \in Shares :
               /\ h.prev = currHash
               /\ PlainShare(c, height, h) \/ BlockShare(c, height, h)
<1>1. CASE MalformedShare(c)
  BY <1>1 DEF MalformedShare, Refusals
<1>2. ASSUME NEW height, StaleShare(c, height) PROVE Refused \/ Taken
  BY <1>2 DEF StaleShare, Refusals
<1>3. ASSUME NEW height, NEW m, UnknownWork(c, height, m) PROVE Refused \/ Taken
  BY <1>3 DEF UnknownWork, Refusals
<1>4. ASSUME NEW height, NEW m \in Templates, NEW n \in Nonces, NEW h,
             h = HeaderOf(m, n),
             \/ TooSmallShare(c, height, h) \/ DuplicateShare(c, height, h)
             \/ PlainShare(c, height, h) \/ BlockShare(c, height, h)
      PROVE  Refused \/ Taken
  BY <1>4, HeaderIsShare DEF TooSmallShare, DuplicateShare, Refusals
<1> QED BY <1>1, <1>2, <1>3, <1>4 DEF OnShare

\* Every step keeps the types.
LEMMA StepTypes == TypeOK /\ [Next]_vars => TypeOK'
<1> SUFFICES ASSUME TypeOK, [Next]_vars PROVE TypeOK'
  OBVIOUS
<1>1. CASE UNCHANGED vars
  <2>1. UNCHANGED <<blockVars, taskVars, uniqueShares, registryVars, connectedBefore,
                    callVars, visit, walletVars, credits, process>>
    BY <1>1 DEF vars
  <2> QED BY <2>1, UntouchedTypes DEF TypeOK, callVars, registryVars, walletVars
<1>2. CASE ZmqNext
  <2>1. PICK c \in Miners : \/ ZmqConnect(c) \/ ZmqClose(c) \/ OnGetWork(c)
                            \/ OnShare(c) \/ ZmqReturn(c)
    BY <1>2 DEF ZmqNext
  <2>2. CASE OnShare(c)
    BY <2>2, OnShareSplit, ZmqIdleTypes, PlainShareTypes, BlockShareTypes DEF TypeOK
  <2> QED BY <2>1, <2>2, ZmqIdleTypes, TemplateForMinerTypes, BlockAcceptedTypes
          DEF ZmqReturn
<1>3. CASE StratumNext
  <2>1. ASSUME NEW s \in Sessions, OnStratumSubmit(s) PROVE TypeOK'
    <3>1. CASE \/ BadJobName(s)
               \/ \E e \in ExtraNonces :
                    \/ UnknownJob(s, e)
                    \/ \E n \in Nonces : BadShare(s, e, n) \/ DuplicateSubmit(s, e, n)
      BY <3>1, RefusedSubmitTypes
    <3>2. ASSUME NEW e \in ExtraNonces, NEW n \in Nonces, KnownJob(e),
                 \/ PlainSubmit(s, e, HeaderOfJob(e, n))
                 \/ BlockSubmit(s, e, HeaderOfJob(e, n))
          PROVE  TypeOK'
      <4>1. stratumTaskMap[e] \in Templates
        BY <3>2 DEF KnownJob, TypeOK, TaskTypes, WalletTypes
      <4>2. HeaderOfJob(e, n) \in Shares
        BY <4>1, HeaderIsShare DEF HeaderOfJob, TypeOK
      <4> QED BY <3>2, <4>2, PlainSubmitTypes, BlockSubmitTypes
    <3> QED BY <2>1, <3>1, <3>2 DEF OnStratumSubmit
  <2> QED BY <1>3, <2>1, StratumAcceptTypes, StratumCloseTypes, WorkLifeTimeTypes,
             OnStratumAuthorizeTypes, StratumWorkTypes, RefusedSubmitTypes,
             BlockSubmitAcceptedTypes
          DEF StratumNext, StratumReturn
<1>4. CASE WorkNext
  BY <1>4, NewBlockSignalTypes, WalkStepTypes, WalkCrashTypes, TimerTypes DEF WorkNext
<1>5. CASE WalletNext
  BY <1>5, WalletStepTypes
<1> QED BY <1>1, <1>2, <1>3, <1>4, <1>5 DEF Next, PoolNext, Stopped

\* Type correctness, of which more than the types matters: only templates the
\* wallet served are ever registered, only accepted sessions have records, and
\* a coroutine holds a share exactly while it waits for the wallet's verdict.
THEOREM TypeCorrect == Spec => []TypeOK
BY InitTypes, StepTypes, PTL DEF Spec

-----------------------------------------------------------------------------
(***************************************************************************)
(* No double credit.  uniqueShares alone does not give this: it is emptied *)
(* with every block the pool adopts, while proof-of-work checks of older   *)
(* shares are still under way, and a block can be adopted twice.  The      *)
(* inductive invariant UsedOnce says why it is enough: the work is         *)
(* forgotten together with the shares, and work that becomes known later   *)
(* is always unused.                                                       *)
(***************************************************************************)

\* No coroutine receives a template in this step.
TemplatesKept ==
  \A c \in Coroutines :
    HasTemplate(c)' => HasTemplate(c) /\ answer'[c] = answer[c]

\* Work that becomes known in this step leaves a coroutine that held it, and
\* work is forgotten no later than its shares.
WorkIsHandedOver ==
  \A m \in Templates : Known(m)' =>
    \/ Known(m) /\ UNCHANGED uniqueShares
    \/ \E c \in Coroutines : HasTemplate(c) /\ answer[c] = m /\ ~HasTemplate(c)'

-----------------------------------------------------------------------------
\* What is known, used and on its way is a template that was served.
LEMMA ServedTemplates ==
  ASSUME TypeOK
  PROVE  /\ \A m \in Templates : Known(m) => m \in served
         /\ \A c \in Coroutines : HasTemplate(c) =>
              answer[c] \in served /\ answer[c] \in Templates
<1>1. Null \notin Templates /\ served \subseteq Templates
  BY MarkersAssumption DEF TypeOK, WalletTypes
<1>2. \A m \in Templates : Known(m) => m \in served
  BY <1>1 DEF TypeOK, TaskTypes, Known
<1>3. \A c \in Coroutines : HasTemplate(c) => answer[c] \in served
  BY DEF TypeOK, CallTypes, CallOK, Answers, HasTemplate, WaitsForTemplate
<1> QED BY <1>1, <1>2, <1>3

\* The merkle root of a share is that of a template.
LEMMA MerkleIsTemplate ==
  ASSUME NEW h \in Shares PROVE h.merkle \in Templates
BY DEF Shares

\* Steps that take no share and judge none: logins, template calls, pushes of
\* work, and new blocks.
LEMMA WorkMoves ==
  ASSUME TypeOK, UsedOnce, UNCHANGED <<credits, claim>>, served \subseteq served',
         TemplatesKept, WorkIsHandedOver
  PROVE  UsedOnce'
<1>1. \A h : Used(h)' <=> Used(h)
  BY DEF Used, Judged
<1>2. NoDoubleCredit' /\ JudgedOnce'
  BY DEF UsedOnce, NoDoubleCredit, JudgedOnce, Judged
<1>3. UsedIsServed'
  BY <1>1 DEF UsedOnce, UsedIsServed
<1>4. UsedIsRemembered'
  <2> SUFFICES ASSUME NEW h \in Shares, Used(h), Known(h.merkle)'
               PROVE  h \in uniqueShares'
    BY <1>1 DEF UsedIsRemembered
  <2>1. CASE Known(h.merkle) /\ UNCHANGED uniqueShares
    BY <2>1 DEF UsedOnce, UsedIsRemembered
  <2>2. CASE \E c \in Coroutines : HasTemplate(c) /\ answer[c] = h.merkle
    BY <2>2 DEF UsedOnce, TemplatesAreFresh
  <2> QED BY <2>1, <2>2, MerkleIsTemplate DEF WorkIsHandedOver
<1>5. TemplatesAreFresh'
  <2> SUFFICES ASSUME NEW c \in Coroutines, HasTemplate(c)'
               PROVE  /\ ~Known(answer[c])'
                      /\ \A h \in Shares : Used(h)' => h.merkle # answer'[c]
                      /\ \A d \in Coroutines \ {c} :
                           HasTemplate(d)' => answer'[d] # answer'[c]
    BY DEF TemplatesAreFresh
  <2>1. HasTemplate(c) /\ answer'[c] = answer[c] /\ answer[c] \in Templates
    BY ServedTemplates DEF TemplatesKept
  <2>2. ~Known(answer[c])'
    <3>1. ~Known(answer[c])
      BY <2>1 DEF UsedOnce, TemplatesAreFresh
    <3>2. ~\E d \in Coroutines : HasTemplate(d) /\ answer[d] = answer[c] /\ ~HasTemplate(d)'
      BY <2>1 DEF UsedOnce, TemplatesAreFresh
    <3>3. \A m \in Templates : m = answer[c] => ~Known(m)'
      BY <3>1, <3>2 DEF WorkIsHandedOver
    <3> QED BY <2>1, <3>3 DEF Known
  <2>3. \A h \in Shares : Used(h)' => h.merkle # answer'[c]
    BY <1>1, <2>1 DEF UsedOnce, TemplatesAreFresh
  <2>4. \A d \in Coroutines \ {c} : HasTemplate(d)' => answer'[d] # answer'[c]
    BY <2>1 DEF UsedOnce, TemplatesAreFresh, TemplatesKept
  <2> QED BY <2>2, <2>3, <2>4
<1> QED BY <1>2, <1>3, <1>4, <1>5 DEF UsedOnce

\* Steps that take a share or end its judgement keep the three facts about
\* used shares, if only shares of known work that are remembered become used.
LEMMA SharesMove ==
  ASSUME TypeOK, UsedOnce, UNCHANGED <<taskVars, served>>, TemplatesKept,
         uniqueShares \subseteq uniqueShares',
         \A h \in Shares : Used(h)' =>
           Used(h) \/ (h \in uniqueShares' /\ Known(h.merkle))
  PROVE  TemplatesAreFresh' /\ UsedIsServed' /\ UsedIsRemembered'
<1>1. \A m : Known(m)' <=> Known(m)
  BY DEF Known, taskVars
<1>2. UsedIsServed'
  BY ServedTemplates, MerkleIsTemplate DEF UsedOnce, UsedIsServed
<1>3. UsedIsRemembered'
  BY <1>1 DEF UsedOnce, UsedIsRemembered
<1>4. TemplatesAreFresh'
  <2> SUFFICES ASSUME NEW c \in Coroutines, HasTemplate(c)'
               PROVE  /\ ~Known(answer[c])'
                      /\ \A h \in Shares : Used(h)' => h.merkle # answer'[c]
                      /\ \A d \in Coroutines \ {c} :
                           HasTemplate(d)' => answer'[d] # answer'[c]
    BY DEF TemplatesAreFresh
  <2>1. HasTemplate(c) /\ answer'[c] = answer[c] /\ ~Known(answer[c])
    BY DEF TemplatesKept, UsedOnce, TemplatesAreFresh
  <2>2. ~Known(answer[c])'
    <3>1. ~Known(answer[c]) /\ answer'[c] = answer[c]
      BY <2>1
    <3> QED BY <3>1 DEF Known, taskVars
  <2>3. \A h \in Shares : Used(h)' => h.merkle # answer'[c]
    BY <2>1 DEF UsedOnce, TemplatesAreFresh
  <2>4. \A d \in Coroutines \ {c} : HasTemplate(d)' => answer'[d] # answer'[c]
    BY <2>1 DEF UsedOnce, TemplatesAreFresh, TemplatesKept
  <2> QED BY <2>2, <2>3, <2>4
<1> QED BY <1>2, <1>3, <1>4

\* A share the frontend takes is one it never used: had it, the hash would be
\* in uniqueShares, as its work is known.
LEMMA TakeShare ==
  ASSUME TypeOK, UsedOnce, UNCHANGED <<taskVars, served>>, TemplatesKept,
         NEW h \in Shares, Known(h.merkle), h \notin uniqueShares,
         uniqueShares' = uniqueShares \cup {h},
         \/ UNCHANGED claim /\ \E isBlock : Credit(h, isBlock)
         \/ UNCHANGED <<claim, credits>>
         \/ /\ UNCHANGED credits
            /\ \E c \in Coroutines, cl \in Claims :
                 /\ cl.share = h /\ claim[c] = NoClaim
                 /\ claim' = [claim EXCEPT ![c] = cl]
  PROVE  UsedOnce'
<1>1. ~Used(h)
  BY DEF UsedOnce, UsedIsRemembered
<1>2. credits[h] = <<>> /\ \A c \in Coroutines : ~Judged(c, h)
  BY <1>1 DEF Used
<1>3. CASE UNCHANGED claim /\ \E isBlock : Credit(h, isBlock)
  <2>1. /\ Len(credits'[h]) = 1
        /\ \A g \in Shares \ {h} : credits'[g] = credits[g]
    BY <1>2, <1>3 DEF Credit, TypeOK, OutputTypes
  <2>2. \A c, g : Judged(c, g)' <=> Judged(c, g)
    BY <1>3 DEF Judged
  <2>3. NoDoubleCredit'
    <3> SUFFICES ASSUME NEW g \in Shares PROVE Len(credits'[g]) <= 1
      BY DEF NoDoubleCredit
    <3>1. CASE g = h
      BY <2>1, <3>1
    <3>2. CASE g # h
      BY <2>1, <3>2 DEF UsedOnce, NoDoubleCredit
    <3> QED BY <3>1, <3>2
  <2>4. JudgedOnce'
    BY <1>2, <2>1, <2>2 DEF UsedOnce, JudgedOnce
  <2>5. \A g \in Shares : Used(g)' =>
           Used(g) \/ (g \in uniqueShares' /\ Known(g.merkle))
    BY <2>1, <2>2 DEF Used
  <2> QED BY <2>3, <2>4, <2>5, SharesMove DEF UsedOnce
<1>4. CASE UNCHANGED <<claim, credits>>
  <2>1. \A g : Used(g)' <=> Used(g)
    BY <1>4 DEF Used, Judged
  <2>2. NoDoubleCredit' /\ JudgedOnce'
    BY <1>4 DEF UsedOnce, NoDoubleCredit, JudgedOnce, Judged
  <2> QED BY <2>1, <2>2, SharesMove DEF UsedOnce
<1>5. ASSUME UNCHANGED credits, NEW c \in Coroutines, NEW cl \in Claims,
             cl.share = h, claim' = [claim EXCEPT ![c] = cl], claim[c] = NoClaim
      PROVE  UsedOnce'
  <2>1. \A d \in Coroutines : \A g : Judged(d, g)' => Judged(d, g) \/ (d = c /\ g = h)
    BY <1>5 DEF Judged, TypeOK, CallTypes
  <2>2. NoDoubleCredit'
    BY <1>5 DEF UsedOnce, NoDoubleCredit
  <2>3. JudgedOnce'
    BY <1>2, <1>5, <2>1 DEF UsedOnce, JudgedOnce
  <2>4. \A g \in Shares : Used(g)' =>
           Used(g) \/ (g \in uniqueShares' /\ Known(g.merkle))
    BY <1>5, <2>1 DEF Used
  <2> QED BY <2>2, <2>3, <2>4, SharesMove DEF UsedOnce
<1> QED BY <1>3, <1>4, <1>5

\* A verdict ends the one judgement of its share, which is not credited yet.
LEMMA Verdict ==
  ASSUME TypeOK, UsedOnce, UNCHANGED <<taskVars, uniqueShares, served>>,
         TemplatesKept, NEW c \in Coroutines, claim[c] \in Claims,
         claim' = [claim EXCEPT ![c] = NoClaim],
         UNCHANGED credits \/ \E isBlock : Credit(claim[c].share, isBlock)
  PROVE  UsedOnce'
<1> DEFINE h == claim[c].share
<1>1. h \in Shares /\ Judged(c, h)
  BY MarkersAssumption DEF Judged, Claims
<1>2. credits[h] = <<>> /\ \A d \in Coroutines \ {c} : ~Judged(d, h)
  BY <1>1 DEF UsedOnce, JudgedOnce
<1>3. \A d \in Coroutines : \A g : Judged(d, g)' => d # c /\ Judged(d, g)
  BY DEF Judged, TypeOK, CallTypes
<1>4. /\ Len(credits'[h]) <= 1
      /\ \A g \in Shares \ {h} : credits'[g] = credits[g]
  <2>1. CASE UNCHANGED credits
    BY <1>2, <2>1
  <2>2. CASE \E isBlock : Credit(h, isBlock)
    BY <1>1, <1>2, <2>2 DEF Credit, TypeOK, OutputTypes
  <2> QED BY <2>1, <2>2
<1> HIDE DEF h
<1>5. NoDoubleCredit'
  BY <1>4 DEF UsedOnce, NoDoubleCredit
<1>6. JudgedOnce'
  BY <1>2, <1>3, <1>4 DEF UsedOnce, JudgedOnce
<1>7. \A g \in Shares : Used(g)' => Used(g)
  BY <1>1, <1>3, <1>4 DEF Used
<1> QED BY <1>5, <1>6, <1>7, SharesMove DEF UsedOnce

\* The wallet serves a template it never served.
LEMMA FreshTemplate ==
  ASSUME TypeOK, UsedOnce, ~WalletReissues,
         NEW c \in Coroutines, ServeTemplate(c)
  PROVE  UsedOnce'
<1> USE DEF ServeTemplate, poolSideVars
<1>1. PICK m \in Templates : m \notin served /\ Answer(c, m) /\ served' = served \cup {m}
  OBVIOUS
<1>2. \A h : Used(h)' <=> Used(h)
  BY DEF Used, Judged
<1>3. \A k : Known(k)' <=> Known(k)
  BY DEF Known, taskVars
<1>4. NoDoubleCredit' /\ JudgedOnce'
  BY DEF UsedOnce, NoDoubleCredit, JudgedOnce, Judged
<1>5. UsedIsServed' /\ UsedIsRemembered'
  BY <1>1, <1>2, <1>3 DEF UsedOnce, UsedIsServed, UsedIsRemembered
<1>6. ~Known(m) /\ \A h \in Shares : Used(h) => h.merkle # m
  BY <1>1, ServedTemplates DEF UsedOnce, UsedIsServed
<1>7. /\ answer'[c] = m
      /\ \A d \in Coroutines \ {c} :
           /\ answer'[d] = answer[d]
           /\ HasTemplate(d)' <=> HasTemplate(d)
           /\ HasTemplate(d) => answer[d] # m
  BY <1>1, ServedTemplates
     DEF Answer, HasTemplate, WaitsForTemplate, TypeOK, CallTypes
<1>8. TemplatesAreFresh'
  <2> SUFFICES ASSUME NEW d \in Coroutines, HasTemplate(d)'
               PROVE  /\ ~Known(answer[d])'
                      /\ \A h \in Shares : Used(h)' => h.merkle # answer'[d]
                      /\ \A e \in Coroutines \ {d} :
                           HasTemplate(e)' => answer'[e] # answer'[d]
    BY DEF TemplatesAreFresh
  <2>1. CASE d = c
    <3>1. ~Known(answer[d])'
      BY <1>6, <1>7, <2>1 DEF Known, taskVars
    <3>2. \A h \in Shares : Used(h)' => h.merkle # answer'[d]
      BY <1>2, <1>6, <1>7, <2>1
    <3>3. \A e \in Coroutines \ {d} : HasTemplate(e)' => answer'[e] # answer'[d]
      BY <1>7, <2>1
    <3> QED BY <3>1, <3>2, <3>3
  <2>2. CASE d # c
    <3>0. HasTemplate(d) /\ answer'[d] = answer[d] /\ answer[d] # m
      BY <1>7, <2>2
    <3>1. ~Known(answer[d])'
      BY <3>0 DEF UsedOnce, TemplatesAreFresh, Known, taskVars
    <3>2. \A h \in Shares : Used(h)' => h.merkle # answer'[d]
      BY <1>2, <3>0 DEF UsedOnce, TemplatesAreFresh
    <3>3. \A e \in Coroutines \ {d} : HasTemplate(e)' => answer'[e] # answer'[d]
      BY <1>7, <3>0 DEF UsedOnce, TemplatesAreFresh
    <3> QED BY <3>1, <3>2, <3>3
  <2> QED BY <2>1, <2>2
<1> QED BY <1>4, <1>5, <1>8 DEF UsedOnce

-----------------------------------------------------------------------------
\* What the steps do to the templates on their way

\* A coroutine that starts or ends a call holds no template.
LEMMA CallKeepsTemplates ==
  ASSUME TypeOK, NEW c \in Coroutines, NEW label,
         NEW a \in {Null, Pending}, pc' = [pc EXCEPT ![c] = label],
         answer' = [answer EXCEPT ![c] = a]
  PROVE  TemplatesKept /\ ~HasTemplate(c)'
BY DEF TemplatesKept, HasTemplate, WaitsForTemplate, TypeOK, CallTypes

\* Without a call nothing moves.
LEMMA NoCallKeepsTemplates ==
  ASSUME UNCHANGED <<pc, answer>> PROVE TemplatesKept
BY DEF TemplatesKept, HasTemplate, WaitsForTemplate

\* A walk that goes on holds no template any more.
LEMMA GoToKeepsTemplates ==
  ASSUME TypeOK, NEW w \in Walks, NEW loop, NEW from, NEW workers,
         GoTo(w, NextStop(w, loop, from, workers))
  PROVE  TemplatesKept /\ ~HasTemplate(w)'
<1>1. NextStop(w, loop, from, workers).answer \in {Null, Pending}
  BY DEF NextStop
<1> QED BY <1>1, CallKeepsTemplates, Kinds DEF GoTo

\* No work becomes known when the maps stay.
LEMMA SameWorkIsHandedOver ==
  ASSUME UNCHANGED <<taskVars, uniqueShares>> PROVE WorkIsHandedOver
BY DEF WorkIsHandedOver, Known, taskVars

\* stratumSendNewWork with the template it has waited for.
LEMMA SentWorkIsHandedOver ==
  ASSUME TypeOK, NEW c \in Coroutines, WaitsForTemplate(c), answer[c] # Pending,
         ~HasTemplate(c)', UNCHANGED <<extraNonceMap, uniqueShares>>,
         stratumTaskMap' = TasksAfterWork(answer[c])
  PROVE  WorkIsHandedOver
<1>1. \A m : Known(m)' => Known(m) \/ (m = answer[c] /\ answer[c] # Null)
  BY DEF Known, TasksAfterWork, HasWork, Put
<1> QED BY <1>1 DEF WorkIsHandedOver, HasTemplate

-----------------------------------------------------------------------------
\* The steps

\* Native protocol.
LEMMA ZmqUsedOnce ==
  ASSUME TypeOK, UsedOnce, ZmqNext
  PROVE  UsedOnce'
<1>1. PICK c \in Miners : \/ ZmqConnect(c) \/ ZmqClose(c) \/ OnGetWork(c)
                          \/ OnShare(c) \/ ZmqReturn(c)
  BY DEF ZmqNext
<1>2. c \in Coroutines
  BY Kinds
<1>3. CASE \/ ZmqConnect(c) \/ ZmqClose(c) \/ OnGetWork(c) \/ NoTemplate(c)
           \/ \E label \in {"recv", "closed"} :
                \E error : RefusedShare(c, label, error)
  <2> USE DEF ZmqConnect, ZmqClose, OnGetWork, NoTemplate, RefusedShare
  <2>1. TemplatesKept
    <3>1. CASE OnGetWork(c) \/ NoTemplate(c)
      BY <1>2, <3>1, CallKeepsTemplates DEF Call, Resume
    <3>2. CASE \E label \in {"recv", "closed"} :
                 pc' = [pc EXCEPT ![c] = label] /\ UNCHANGED answer
      BY <3>2 DEF TemplatesKept, HasTemplate, WaitsForTemplate, TypeOK, CallTypes
    <3> QED BY <1>3, <3>1, <3>2
  <2>2. UNCHANGED <<credits, claim, served, taskVars, uniqueShares>>
    BY <1>3 DEF zmqUnchanged, walletVars, taskVars
  <2> QED BY <2>1, <2>2, SameWorkIsHandedOver, WorkMoves
<1>4. CASE TemplateForMiner(c)
  <2> USE <1>4 DEF TemplateForMiner, Resume
  <2>1. TemplatesKept /\ ~HasTemplate(c)'
    BY <1>2, CallKeepsTemplates
  <2>2. \A m : Known(m)' => Known(m) \/ m = answer[c]
    BY DEF Known, Put, zmqUnchanged
  <2>3. HasTemplate(c) /\ UNCHANGED uniqueShares
    BY DEF HasTemplate, WaitsForTemplate
  <2>4. WorkIsHandedOver
    BY <1>2, <2>1, <2>2, <2>3 DEF WorkIsHandedOver
  <2> QED BY <2>1, <2>4, WorkMoves DEF zmqUnchanged, walletVars
<1>5. ASSUME NEW height, NEW h \in Shares,
             PlainShare(c, height, h) \/ BlockShare(c, height, h)
      PROVE  UsedOnce'
  <2> USE <1>5 DEF PlainShare, BlockShare, NewShare
  <2>1. /\ Known(h.merkle) /\ h \notin uniqueShares /\ pc[c] = "recv"
        /\ uniqueShares' = uniqueShares \cup {h}
        /\ UNCHANGED <<taskVars, served>>
    BY DEF CurrentWork, Known, zmqUnchanged, walletVars, taskVars
  <2>2. CASE PlainShare(c, height, h)
    BY <2>1, <2>2, NoCallKeepsTemplates, TakeShare DEF SendShare, callVars
  <2>3. CASE BlockShare(c, height, h)
    <3>1. TemplatesKept
      BY <1>2, <2>3, CallKeepsTemplates DEF Call
    <3>2. claim[c] = NoClaim /\ claim'[c] \in Claims
      BY <1>2, <2>1, <2>3, BlockShareTypes
         DEF TypeOK, CallTypes, CallOK, Call
    <3>3. claim'[c].share = h /\ claim' = [claim EXCEPT ![c] = claim'[c]]
      BY <1>2, <2>3 DEF TypeOK, CallTypes
    <3> QED BY <1>2, <2>1, <2>3, <3>1, <3>2, <3>3, TakeShare
  <2> QED BY <1>5, <2>2, <2>3
<1>6. CASE BlockRefused(c) \/ BlockAccepted(c)
  <2> USE <1>6 DEF BlockRefused, BlockAccepted, Resume
  <2>1. TemplatesKept
    BY <1>2, CallKeepsTemplates
  <2>2. claim[c] \in Claims
    BY <1>2 DEF TypeOK, CallTypes, CallOK
  <2>3. UNCHANGED credits \/ \E isBlock : Credit(claim[c].share, isBlock)
    BY DEF SendShare
  <2>4. UNCHANGED <<taskVars, uniqueShares, served>>
    BY DEF zmqUnchanged, taskVars, walletVars
  <2> QED BY <1>2, <2>1, <2>2, <2>3, <2>4, Verdict
<1>7. OnShare(c) => \/ \E label \in {"recv", "closed"} :
                         \E error : RefusedShare(c, label, error)
                    \/ \E height : \E h \in Shares :
                         PlainShare(c, height, h) \/ BlockShare(c, height, h)
  BY OnShareSplit DEF TypeOK
<1> QED BY <1>1, <1>3, <1>4, <1>5, <1>6, <1>7 DEF ZmqReturn

\* Stratum: the steps that take no share.
LEMMA StratumWorkUsedOnce ==
  ASSUME TypeOK, UsedOnce, NEW s \in Sessions,
         \/ StratumAccept \/ StratumClose(s) \/ WorkLifeTimeExpires(s)
         \/ \E valid \in BOOLEAN : OnStratumAuthorize(s, valid)
         \/ StratumWork(s)
         \/ BadJobName(s)
         \/ \E e \in ExtraNonces :
              \/ UnknownJob(s, e)
              \/ \E n \in Nonces : BadShare(s, e, n) \/ DuplicateSubmit(s, e, n)
  PROVE  UsedOnce'
<1>1. s \in Coroutines
  BY Kinds
<1>2. CASE StratumAccept \/ StratumClose(s) \/ WorkLifeTimeExpires(s)
  <2> USE <1>2 DEF StratumAccept, StratumClose, WorkLifeTimeExpires
  <2>1. TemplatesKept
    BY DEF TemplatesKept, HasTemplate, WaitsForTemplate, callVars, TypeOK, CallTypes
  <2>2. UNCHANGED <<credits, claim, served, taskVars, uniqueShares>>
    BY DEF stratumUnchanged, walletVars, taskVars, callVars
  <2> QED BY <2>1, <2>2, SameWorkIsHandedOver, WorkMoves
<1>3. CASE StratumWork(s)
  <2> USE <1>3 DEF StratumWork, Resume
  <2>1. TemplatesKept /\ ~HasTemplate(s)'
    BY <1>1, CallKeepsTemplates
  <2>2. WorkIsHandedOver
    BY <1>1, <2>1, SentWorkIsHandedOver DEF WaitsForTemplate, stratumUnchanged
  <2> QED BY <2>1, <2>2, WorkMoves DEF stratumUnchanged, walletVars
<1>4. CASE \/ \E valid \in BOOLEAN : OnStratumAuthorize(s, valid)
           \/ BadJobName(s)
           \/ \E e \in ExtraNonces :
                \E n \in Nonces : BadShare(s, e, n) \/ DuplicateSubmit(s, e, n)
  <2> USE <1>4 DEF OnStratumAuthorize, BadJobName, BadShare, DuplicateSubmit, RefuseSubmit
  <2>1. TemplatesKept
    BY <1>1, CallKeepsTemplates DEF Call
  <2>2. UNCHANGED <<credits, claim, served, taskVars, uniqueShares>>
    BY DEF stratumUnchanged, walletVars, taskVars
  <2> QED BY <2>1, <2>2, SameWorkIsHandedOver, WorkMoves
<1>5. ASSUME NEW e \in ExtraNonces, UnknownJob(s, e) PROVE UsedOnce'
  <2> USE <1>5 DEF UnknownJob, RefuseSubmit
  <2>1. TemplatesKept
    BY <1>1, CallKeepsTemplates DEF Call
  <2>2. \A m \in Templates : Known(m)' => Known(m)
    BY MarkersAssumption DEF Known, TasksAfterLookup, Put, stratumUnchanged
  <2>3. WorkIsHandedOver
    BY <2>2 DEF WorkIsHandedOver
  <2> QED BY <2>1, <2>3, WorkMoves DEF stratumUnchanged, walletVars
<1> QED BY <1>2, <1>3, <1>4, <1>5

\* Stratum: all its steps.
LEMMA StratumUsedOnce ==
  ASSUME TypeOK, UsedOnce, StratumNext
  PROVE  UsedOnce'
<1>1. ASSUME NEW s \in Sessions, NEW e \in ExtraNonces, NEW n \in Nonces, KnownJob(e),
             \/ PlainSubmit(s, e, HeaderOfJob(e, n))
             \/ BlockSubmit(s, e, HeaderOfJob(e, n))
      PROVE  UsedOnce'
  <2> DEFINE h == HeaderOfJob(e, n)
  <2>1. s \in Coroutines
    BY Kinds
  <2>2. stratumTaskMap[e] \in Templates
    BY <1>1 DEF KnownJob, TypeOK, TaskTypes, WalletTypes
  <2>3. h \in Shares /\ Known(h.merkle)
    BY <1>1, <2>2, HeaderIsShare DEF HeaderOfJob, KnownJob, Known, TypeOK
  <2> HIDE DEF h
  <2>4. /\ h \notin uniqueShares /\ pc[s] = "read"
        /\ uniqueShares' = uniqueShares \cup {h}
        /\ UNCHANGED <<taskVars, served>>
    BY <1>1 DEF h, PlainSubmit, BlockSubmit, NewSubmit, CountShare, RefuseSubmit,
       stratumUnchanged, walletVars, taskVars
  <2>5. CASE PlainSubmit(s, e, h)
    <3>1. CASE CountShare(s, h, FALSE) /\ UNCHANGED <<pc, answer>>
      BY <2>3, <2>4, <2>5, <3>1, NoCallKeepsTemplates, TakeShare
         DEF PlainSubmit, CountShare
    <3>2. CASE RefuseSubmit(s, "Stale share")
      <4>1. TemplatesKept
        BY <2>1, <3>2, CallKeepsTemplates DEF RefuseSubmit, Call
      <4> QED BY <2>3, <2>4, <2>5, <3>2, <4>1, TakeShare
              DEF PlainSubmit, RefuseSubmit
    <3> QED BY <2>5, <3>1, <3>2 DEF PlainSubmit
  <2>6. CASE BlockSubmit(s, e, h)
    <3> USE <2>6 DEF BlockSubmit
    <3>1. TemplatesKept
      BY <2>1, CallKeepsTemplates DEF Call
    <3>2. claim[s] = NoClaim /\ claim'[s] \in Claims
      BY <2>1, <2>3, <2>4, BlockSubmitTypes DEF TypeOK, CallTypes, CallOK, Call
    <3>3. claim'[s].share = h /\ claim' = [claim EXCEPT ![s] = claim'[s]]
      BY <2>1 DEF TypeOK, CallTypes
    <3> QED BY <2>1, <2>3, <2>4, <3>1, <3>2, <3>3, TakeShare
  <2> QED BY <1>1, <2>5, <2>6 DEF h
<1>2. ASSUME NEW s \in Sessions, BlockSubmitRefused(s) \/ BlockSubmitAccepted(s)
      PROVE  UsedOnce'
  <2> USE <1>2 DEF BlockSubmitRefused, BlockSubmitAccepted
  <2>1. s \in Coroutines /\ claim[s] \in Claims
    BY Kinds DEF TypeOK, CallTypes, CallOK
  <2>2. TemplatesKept
    BY <2>1, CallKeepsTemplates DEF RefuseSubmit, Call, Resume
  <2>3. UNCHANGED credits \/ \E isBlock : Credit(claim[s].share, isBlock)
    BY DEF CountShare, RefuseSubmit
  <2>4. UNCHANGED <<taskVars, uniqueShares, served>>
    BY DEF CountShare, RefuseSubmit, stratumUnchanged, taskVars, walletVars
  <2> QED BY <2>1, <2>2, <2>3, <2>4, Verdict
<1>3. CASE StratumAccept
  <2>1. sessionId \in Sessions
    BY <1>3, SessionsAssumption DEF StratumAccept, Sessions, TypeOK, RegistryTypes
  <2> QED BY <1>3, <2>1, StratumWorkUsedOnce
<1> QED BY <1>1, <1>2, <1>3, StratumWorkUsedOnce
        DEF StratumNext, OnStratumSubmit, StratumReturn

\* New blocks, walks and the timer.
LEMMA AdoptedBlockHandsOver ==
  ASSUME NEW b, AdoptBlock(b) PROVE WorkIsHandedOver
BY DEF AdoptBlock, WorkIsHandedOver, Known, EmptyMap

\* Every step of the work distribution keeps UsedOnce.
LEMMA WorkUsedOnce ==
  ASSUME TypeOK, UsedOnce, WorkNext
  PROVE  UsedOnce'
<1>1. CASE NewBlockSignal
  <2> USE <1>1 DEF NewBlockSignal
  <2>1. TemplatesKept
    BY GoToKeepsTemplates, Kinds DEF StartWalk
  <2> QED BY <2>1, AdoptedBlockHandsOver, WorkMoves
<1>2. ASSUME NEW w \in Walks, WalkStep(w) PROVE UsedOnce'
  <2>1. /\ WaitsForTemplate(w) /\ answer[w] # Pending
        /\ stratumTaskMap' = TasksAfterWork(answer[w])
        /\ UNCHANGED <<uniqueShares, extraNonceMap, claim, credits, served>>
    BY <1>2 DEF WalkStep, WaitsForTemplate, workUnchanged, walletVars
  <2>2. TemplatesKept /\ ~HasTemplate(w)' /\ w \in Coroutines
    BY <1>2, GoToKeepsTemplates, Kinds DEF WalkStep
  <2>3. WorkIsHandedOver
    BY <2>1, <2>2, SentWorkIsHandedOver
  <2> QED BY <2>1, <2>2, <2>3, WorkMoves
<1>3. ASSUME NEW w \in Walks, WalkCrash(w) PROVE UsedOnce'
  BY <1>3, NoCallKeepsTemplates, SameWorkIsHandedOver, WorkMoves
     DEF WalkCrash, callVars, walletVars
<1>4. CASE TimerStep
  <2>1. TemplatesKept
    BY <1>4, GoToKeepsTemplates, CallKeepsTemplates, Kinds
       DEF TimerStep, TimerTick, TimerSeesLinkUp, TimerGetsNoBlock, TimerGetsBlock,
           TimerSeesLinkDown, StartWalk, Call, Resume
  <2>2. WorkIsHandedOver
    BY <1>4, SameWorkIsHandedOver, AdoptedBlockHandsOver
       DEF TimerStep, TimerTick, TimerSeesLinkUp, TimerGetsNoBlock, TimerGetsBlock,
           TimerSeesLinkDown
  <2>3. UNCHANGED <<credits, claim, served>>
    BY <1>4
       DEF TimerStep, TimerTick, TimerSeesLinkUp, TimerGetsNoBlock, TimerGetsBlock,
           TimerSeesLinkDown, timerUnchanged, walletVars
  <2> QED BY <2>1, <2>2, <2>3, WorkMoves
<1> QED BY <1>1, <1>2, <1>3, <1>4 DEF WorkNext

\* Every step of the wallet keeps UsedOnce.
LEMMA WalletUsedOnce ==
  ASSUME TypeOK, UsedOnce, ~WalletReissues, WalletNext
  PROVE  UsedOnce'
<1>1. CASE \E c \in Coroutines : ServeTemplate(c)
  BY <1>1, FreshTemplate
<1>2. CASE \/ NewTip \/ ServeBlock \/ LinkDown \/ LinkUp
           \/ \E c \in Coroutines :
                ServePowAccepted(c) \/ ServePowRejected(c) \/ CallFails(c)
  <2>1. UNCHANGED <<credits, claim, served, taskVars, uniqueShares>>
    BY <1>2 DEF NewTip, ServeBlock, LinkDown, LinkUp, ServePowAccepted,
       ServePowRejected, CallFails, poolSideVars, walletVars, taskVars
  <2>2. TemplatesKept
    BY <1>2, Kinds DEF NewTip, ServeBlock, LinkDown, LinkUp, ServePowAccepted,
       ServePowRejected, CallFails, poolSideVars, Answer, TemplatesKept,
       HasTemplate, WaitsForTemplate, TypeOK, CallTypes
  <2> QED BY <2>1, <2>2, SameWorkIsHandedOver, WorkMoves
<1> QED BY <1>1, <1>2 DEF WalletNext

-----------------------------------------------------------------------------
\* The program starts with nothing used.
LEMMA InitUsedOnce == Init => UsedOnce
<1> SUFFICES ASSUME Init PROVE UsedOnce
  OBVIOUS
<1>1. \A h \in Shares : credits[h] = <<>> /\ ~Used(h)
  BY DEF Init, Used, Judged
<1>2. \A c \in Coroutines : ~HasTemplate(c) /\ \A h : ~Judged(c, h)
  BY DEF Init, HasTemplate, Judged
<1> QED BY <1>1, <1>2 DEF UsedOnce, NoDoubleCredit, TemplatesAreFresh, UsedIsServed,
        UsedIsRemembered, JudgedOnce

\* Every step keeps UsedOnce.
LEMMA StepUsedOnce ==
  ~WalletReissues /\ TypeOK /\ UsedOnce /\ [Next]_vars => UsedOnce'
<1> SUFFICES ASSUME ~WalletReissues, TypeOK, UsedOnce, [Next]_vars PROVE UsedOnce'
  OBVIOUS
<1>1. CASE UNCHANGED vars
  <2>1. UNCHANGED <<pc, answer, credits, claim, served, taskVars, uniqueShares>>
    BY <1>1 DEF vars, callVars, walletVars
  <2> QED BY <2>1, NoCallKeepsTemplates, SameWorkIsHandedOver, WorkMoves
<1>2. CASE PoolNext
  BY <1>2, ZmqUsedOnce, StratumUsedOnce, WorkUsedOnce, WalletUsedOnce DEF PoolNext
<1> QED BY <1>1, <1>2 DEF Next, Stopped

\* The inductive invariant holds: a template on its way is unused, and a used
\* share of known work is remembered.
THEOREM SharesUsedOnce == ~WalletReissues => (Spec => []UsedOnce)
<1> SUFFICES ASSUME ~WalletReissues PROVE Spec => []UsedOnce
  OBVIOUS
<1>1. TypeOK /\ UsedOnce /\ [Next]_vars => UsedOnce'
  BY StepUsedOnce
<1> QED BY <1>1, InitUsedOnce, TypeCorrect, PTL DEF Spec

\* A share is sent to the backend at most once: across new blocks, reorgs, lost
\* links, late verdicts and retries of miners (zcashpool.cpp onShare and
\* stratumCheckShare).
THEOREM AtMostOneCredit == ~WalletReissues => (Spec => []NoDoubleCredit)
<1>1. UsedOnce => NoDoubleCredit
  BY DEF UsedOnce
<1> QED BY <1>1, SharesUsedOnce, PTL
=============================================================================
