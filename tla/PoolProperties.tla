--------------------------- MODULE PoolProperties ---------------------------
(***************************************************************************)
(* What the frontend promises.                                             *)
(***************************************************************************)
EXTENDS PoolFrontend

\* The type invariant, in parts.

BlockTypes ==
  /\ currHeight \in Nat /\ currHash \in Blocks \cup {NoBlock}
  /\ published \in [height : Nat, hash : Blocks \cup {NoBlock}]

\* Only templates the wallet served are ever registered.
TaskTypes ==
  /\ DOMAIN extraNonceMap \subseteq served
  /\ \A m \in DOMAIN extraNonceMap : extraNonceMap[m] \in ExtraNonces
  /\ DOMAIN stratumTaskMap \subseteq ExtraNonces
  /\ \A e \in DOMAIN stratumTaskMap :
       stratumTaskMap[e] = Null \/ stratumTaskMap[e] \in served
  /\ uniqueShares \subseteq Shares

\* Only sessions that were accepted have worker records.
RegistryTypes ==
  /\ sessionId \in 0..MaxSessions
  /\ DOMAIN stratumWorkers \subseteq 0..(sessionId - 1)
  /\ \A s \in DOMAIN stratumWorkers :
       stratumWorkers[s] \in [socket : {"own", "wild"}, due : BOOLEAN]
  /\ connectedBefore \in BOOLEAN

\* What the RPC a coroutine waits in can return, by where it waits.
Answers(label, a) ==
  \/ a \in {Null, Pending}
  \/ label \in {"template", "update", "refresh"} /\ a \in served
  \/ label = "pow" /\ a \in {Accepted, Rejected}
  \/ label = "getblock" /\ a \in Blocks

\* A coroutine holds an answer only where it waits for one, of the kind it
\* waits for, and a share only while it waits for its proof-of-work check.
CallOK(c) ==
  /\ c \in Miners => pc[c] \in {"closed", "recv", "template", "pow"}
  /\ c \in Sessions =>
       pc[c] \in IF c < sessionId THEN {"read", "template", "pow", "closed"}
                 ELSE {"unborn"}
  /\ c \in Walkers => pc[c] \in {"free", "update"}
  /\ c = Timer => pc[c] \in {"sleep", "getblock", "update", "refresh"}
  /\ Answers(pc[c], answer[c])
  /\ ~Suspended(c) => answer[c] = Null
  /\ IF pc[c] = "pow" THEN claim[c] \in Claims ELSE claim[c] = NoClaim

CallTypes ==
  /\ DOMAIN pc = Coroutines
  /\ DOMAIN answer = Coroutines
  /\ DOMAIN claim = Coroutines
  /\ \A c \in Coroutines : CallOK(c)

\* A walk waits at the record of a session that was accepted.
VisitTypes ==
  /\ visit \in [Walks -> [pos : Nat, socket : {"own", "wild"}, valid : BOOLEAN]]
  /\ \A w \in Walks :
       pc[w] \in {"update", "refresh"} => visit[w].pos \in 0..(sessionId - 1)

WalletTypes ==
  /\ tip \in Blocks /\ tip \in chain /\ chain \subseteq Blocks
  /\ connected \in BOOLEAN /\ signals \in Seq(Blocks)
  /\ served \subseteq Templates /\ found \subseteq Shares
  /\ overlooked \in BOOLEAN

OutputTypes ==
  /\ credits \in [Shares -> Seq([height : Nat, isBlock : BOOLEAN])]
  /\ process \in {"running", "crashed"}

TypeOK ==
  /\ BlockTypes /\ TaskTypes /\ RegistryTypes /\ CallTypes /\ VisitTypes
  /\ WalletTypes /\ OutputTypes

-----------------------------------------------------------------------------
\* Shares

\* A share is sent to the backend at most once (onShare and stratumCheckShare
\* insert its hash into uniqueShares before anything else can happen to it,
\* but uniqueShares is emptied with every block the pool adopts).
NoDoubleCredit == \A h \in Shares : Len(credits[h]) <= 1

\* Why: the inductive invariant behind NoDoubleCredit.  A merkle root is known
\* if a share for it would be accepted, a share is used once it was taken from
\* its miner.  A template on its way to a coroutine is one that nobody knows,
\* used or was sent as well, so work that becomes known is unused work; a used
\* share of known work is in uniqueShares; and no used share is judged twice.
Known(m) ==
  \/ m \in DOMAIN extraNonceMap
  \/ \E e \in DOMAIN stratumTaskMap : stratumTaskMap[e] = m
Judged(c, h) == claim[c] # NoClaim /\ claim[c].share = h
Used(h) == credits[h] # <<>> \/ \E c \in Coroutines : Judged(c, h)
HasTemplate(c) == WaitsForTemplate(c) /\ answer[c] \notin {Null, Pending}

TemplatesAreFresh ==
  \A c \in Coroutines : HasTemplate(c) =>
    /\ ~Known(answer[c])
    /\ \A h \in Shares : Used(h) => h.merkle # answer[c]
    /\ \A d \in Coroutines \ {c} : HasTemplate(d) => answer[d] # answer[c]
UsedIsServed == \A h \in Shares : Used(h) => h.merkle \in served
UsedIsRemembered ==
  \A h \in Shares : Used(h) /\ Known(h.merkle) => h \in uniqueShares
JudgedOnce ==
  \A c \in Coroutines, h \in Shares : Judged(c, h) =>
    credits[h] = <<>> /\ \A d \in Coroutines \ {c} : ~Judged(d, h)

UsedOnce ==
  /\ NoDoubleCredit /\ TemplatesAreFresh /\ UsedIsServed
  /\ UsedIsRemembered /\ JudgedOnce

\* The frontend implements the abstract ledger: a share is judged while some
\* coroutine waits for its proof-of-work check, counted when it was credited.
Stage(h) ==
  CASE Len(credits[h]) = 1 -> "counted"
    [] Len(credits[h]) > 1 -> "counted twice"
    [] OTHER -> IF \E c \in Coroutines : Judged(c, h)
                THEN "judged" ELSE "new"
Ledger(h) == INSTANCE ShareLedger WITH stage <- Stage(h)
LedgerSpec == \* \A h \in Shares : Ledger(h)!Spec, in the form TLC takes
  /\ \A h \in Shares : Ledger(h)!Init
  /\ [][\/ UNCHANGED <<credits, claim>>
        \/ \A h \in Shares : [Ledger(h)!Next]_(Stage(h))]_vars

\* A miner is told that its share was accepted in the very steps that send it
\* to the backend, whatever path the handlers take: plain share or block,
\* backend up or down, wallet accepting, refusing or silent.
SharesAccepted ==
  reply'.type \in {"SHARE", "submit"} /\ reply'.error \in {"NONE", "null"}
ShareAnswerHonest == [][SharesAccepted <=> credits' # credits]_vars

\* With equihashShareCheck on, no share whose solution is not valid reaches
\* the backend.
InvalidSolutionNotCredited ==
  EquihashCheck => \A h \in Shares : credits[h] # <<>> => h \in EquihashValid

\* What every ioSendProofOfWork under way says, however many templates the pool
\* knows and whatever it adopted since the share came: the merkle root in the
\* header is that of a template the wallet served, the extra nonce is that of
\* this very template, and the height is that of the header's previous block,
\* or 0 if the pool took its link to be down.  The previous block need not be
\* the tip of the template: on a template that came late the wallet refuses.
ClaimMatchesTemplate ==
  \A c \in Coroutines : claim[c] # NoClaim =>
    LET h == claim[c].share
    IN  /\ h.merkle \in served
        /\ claim[c].extraNonce = h.merkle.extraNonce
        /\ \/ claim[c].height = 0
           \/ h.prev # NoBlock /\ claim[c].height = Height[h.prev]

\* A share is reported to the backend as a block only if the wallet made it
\* one, however late its answer and whatever the pool adopted meanwhile; in
\* particular never one on a template of another tip than the header's, which
\* a template that arrives after the next block allows a miner to send.
BlockCreditsAreFound ==
  \A h \in Shares : \A i \in DOMAIN credits[h] :
    credits[h][i].isBlock => h \in found /\ h.merkle.tip = h.prev

\* A share that waited for nothing is credited to the block after the one its
\* header extends, or to height 1 while mCurrBlock.height() is 0.
CreditHeight ==
  \A h \in Shares : \A i \in DOMAIN credits[h] :
    \/ credits[h][i].isBlock
    \/ credits[h][i].height = 1
    \/ h.prev # NoBlock /\ credits[h][i].height = Height[h.prev] + 1

-----------------------------------------------------------------------------
\* The worker registry

\* stratumWorkers never holds the socket of a connection that is gone: what
\* is left or made again for a closed session has no socket of its own.
SocketsAreAlive ==
  \A s \in DOMAIN stratumWorkers :
    stratumWorkers[s].socket = "own" => Alive(s)

\* Only the closing of the very session a walk waits at, or a record made
\* without a login, can break the walk: sessions that come, log in and go
\* elsewhere in the map do not.
OnlyVisitedSessionBreaksWalk ==
  \A w \in Walks :
    pc[w] \in {"update", "refresh"} /\ Broken(w) =>
      visit[w].socket = "wild" \/ pc[visit[w].pos] = "closed"

-----------------------------------------------------------------------------
\* The current block

\* There are only two ways to lose a block (main.cpp:306, :356): an answer of
\* ioGetCurrentBlock overtaken by the signal of a newer block, and an outage
\* over before timerProc compared the link with its copy, or during its
\* update.  Since the last of either the pool works on the wallet's tip and its
\* height, or that tip's signal is the last one under way, or the timer still
\* takes the link to be down and so will fetch the block: through signals lost
\* with the link, failed fetches, several outages, and signals and blocks of
\* the timer in any other order.
TipReachesPool ==
  connected /\ ~overlooked =>
    \/ signals # <<>> /\ signals[Len(signals)] = tip
    \/ currHash = tip /\ currHeight = Height[tip]
    \/ ~connectedBefore /\ pc[Timer] \in {"sleep", "getblock", "refresh"}

\* Once the wallet stays up and on one tip, and was told to the pool after the
\* last of those two events, the pool ends up on that tip and its height.
FollowTip ==
  \A b \in Blocks :
    <>[](connected /\ tip = b /\ ~overlooked) =>
      <>[](\/ currHash = b /\ currHeight = Height[b]
           \/ process = "crashed")

\* And every session that is logged in ends up with work on that tip, whatever
\* template calls failed on the way and whichever template of the last tip was
\* sent to it after the new one.
LoggedIn(s) == s \in DOMAIN stratumWorkers /\ stratumWorkers[s].socket = "own"
WorksOn(s, b) == job[s].prev = b /\ job[s].merkle # Null /\ job[s].merkle.tip = b
JobsFollowTip ==
  \A b \in Blocks, s \in Sessions :
    <>[](connected /\ tip = b /\ ~overlooked /\ LoggedIn(s))
      => <>[](WorksOn(s, b) \/ process = "crashed")
=============================================================================
