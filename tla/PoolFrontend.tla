---------------------------- MODULE PoolFrontend ----------------------------
(***************************************************************************)
(* The frontend: its protocol handlers, its work distribution and the      *)
(* wallet, interleaved at the calls where the coroutines wait.             *)
(***************************************************************************)
EXTENDS ZmqFrontend, StratumFrontend, WorkDistribution, Wallet

Start(c) ==
  IF c \in Miners THEN "closed"
  ELSE IF c \in Sessions THEN "unborn"
  ELSE IF c = Timer THEN "sleep" ELSE "free"

NoJob == [prev |-> NoBlock, merkle |-> Null]

Init ==
  /\ currHeight = 0 /\ currHash = NoBlock
  /\ published = [height |-> 0, hash |-> NoBlock]
  /\ extraNonceMap = EmptyMap /\ stratumTaskMap = EmptyMap
  /\ uniqueShares = {}
  /\ stratumWorkers = EmptyMap /\ sessionId = 0
  /\ connectedBefore = FALSE
  /\ pc = [c \in Coroutines |-> Start(c)]
  /\ answer = [c \in Coroutines |-> Null]
  /\ visit = [w \in Walks |-> NoVisit]
  /\ claim = [c \in Coroutines |-> NoClaim]
  /\ tip \in Blocks /\ chain = {tip}
  /\ connected = FALSE /\ signals = <<>> /\ served = {} /\ found = {}
  /\ overlooked = FALSE
  /\ credits = [h \in Shares |-> <<>>]
  /\ reply = NoReply
  /\ job = [s \in Sessions |-> NoJob]
  /\ process = "running"

PoolNext == ZmqNext \/ StratumNext \/ WorkNext \/ WalletNext

\* A crashed process does nothing more.
Stopped == process = "crashed" /\ UNCHANGED vars

Next == (process = "running" /\ PoolNext) \/ Stopped

Spec == Init /\ [][Next]_vars

-----------------------------------------------------------------------------
\* Fairness.  The event loop resumes every coroutine whose call was answered,
\* delivers the signals that arrive and wakes the timer; time passes.  Every
\* call ends, if only by its timeout.
Running(A) == process = "running" /\ A

LoopFairness ==
  /\ WF_vars(Running(NewBlockSignal))
  /\ WF_vars(Running(TimerStep))
  /\ \A w \in Walks : WF_vars(Running(WalkStep(w) \/ WalkCrash(w)))
  /\ \A c \in Miners : WF_vars(Running(ZmqReturn(c)))
  /\ \A s \in Sessions : /\ WF_vars(Running(StratumReturn(s)))
                          /\ WF_vars(Running(WorkLifeTimeExpires(s)))
  /\ \A c \in Coroutines : WF_vars(Running(answer[c] = Pending /\ CallFails(c)))

\* A wallet that is up does not fail the same call for ever, and not every
\* answer to it is lost.
WorkFetched(s) ==
  visit[Timer].pos = s /\ answer[Timer] # Null /\ WalkStep(Timer)

WalletFairness ==
  /\ SF_vars(Running(ServeBlock))
  /\ SF_vars(Running(TimerGetsBlock))
  /\ \A s \in Sessions :
       /\ SF_vars(Running(visit[Timer].pos = s /\ ServeTemplate(Timer)))
       /\ SF_vars(Running(WorkFetched(s)))

FairSpec == Spec /\ LoopFairness /\ WalletFairness
=============================================================================
