-------------------------- MODULE StratumFrontend --------------------------
(***************************************************************************)
(* The stratum protocol: stratumProc, one coroutine per connection, which  *)
(* handles one message at a time.  Work is pushed to a session after its   *)
(* login, after every refused share, and by the walks over stratumWorkers  *)
(* of module WorkDistribution.  mining.subscribe and messages that are not *)
(* understood leave the shared state alone.                                *)
(***************************************************************************)
EXTENDS PoolState

stratumUnchanged == <<blockVars, extraNonceMap, connectedBefore, walletVars,
                      process>>

\* A connection is accepted and takes the next session id.
StratumAccept ==
  /\ sessionId < MaxSessions
  /\ sessionId' = sessionId + 1
  /\ pc' = [pc EXCEPT ![sessionId] = "read"]
  /\ Silent
  /\ UNCHANGED <<stratumUnchanged, stratumTaskMap, uniqueShares,
                 stratumWorkers, answer, claim, visit, credits, job>>

\* The record is added whatever the address check said, and work is sent.
OnStratumAuthorize(s, addressIsValid) ==
  /\ pc[s] = "read"
  /\ Reply("authorize", IF CheckAddress /\ ~addressIsValid
                        THEN "Invalid ZCash T-Address" ELSE "null")
  /\ stratumWorkers' = Put(stratumWorkers, s, [socket |-> "own", due |-> TRUE])
  /\ Call(s, "template")
  /\ UNCHANGED <<stratumUnchanged, stratumTaskMap, uniqueShares, sessionId,
                 claim, visit, credits, job>>

\* stratumSendNewWork for the session itself returns to the read loop.
StratumWork(s) ==
  /\ pc[s] = "template"
  /\ Resume(s, "read")
  /\ stratumTaskMap' = TasksAfterWork(answer[s])
  /\ stratumWorkers' = WorkersAfterWork(s, answer[s])
  /\ job' = JobsAfterWork(s, answer[s], TRUE)
  /\ Silent
  /\ UNCHANGED <<stratumUnchanged, uniqueShares, sessionId, claim, visit,
                 credits>>

\* The connection ends.  A loop over stratumWorkers that stands on the record
\* of s is left with an iterator to a freed node.
InvalidateAllVisits(s) ==  \* mutant: erasing a record moves the others
  visit' = [w \in Walks |->
              IF s \in DOMAIN stratumWorkers
              THEN [visit[w] EXCEPT !.valid = FALSE] ELSE visit[w]]
InvalidateVisits(s) ==
  visit' = [w \in Walks |->
              IF visit[w].pos = s /\ s \in DOMAIN stratumWorkers
              THEN [visit[w] EXCEPT !.valid = FALSE] ELSE visit[w]]
StratumCloseKeepsRecord(s) ==  \* mutant: no erase
  /\ pc[s] = "read"
  /\ pc' = [pc EXCEPT ![s] = "closed"]
  /\ Silent
  /\ UNCHANGED <<stratumUnchanged, stratumTaskMap, uniqueShares, registryVars,
                 answer, claim, visit, credits, job>>
StratumClose(s) ==
  /\ pc[s] = "read"
  /\ pc' = [pc EXCEPT ![s] = "closed"]
  /\ stratumWorkers' = Erase(stratumWorkers, s)
  /\ InvalidateVisits(s)
  /\ Silent
  /\ UNCHANGED <<stratumUnchanged, stratumTaskMap, uniqueShares, sessionId,
                 answer, claim, credits, job>>

\* stratumWorkLifeTime passes since the last work of session s.
WorkLifeTimeExpires(s) ==
  /\ s \in DOMAIN stratumWorkers
  /\ ~stratumWorkers[s].due
  /\ stratumWorkers' = [stratumWorkers EXCEPT ![s].due = TRUE]
  /\ Silent
  /\ UNCHANGED <<stratumUnchanged, stratumTaskMap, uniqueShares, sessionId,
                 callVars, visit, credits, job>>

-----------------------------------------------------------------------------
\* mining.submit

\* stratumTaskMap[extraNonce] with operator[]: looking up an unknown job
\* leaves an empty task in the map.
TasksAfterLookupLeak(e) ==  \* mutant: a looked-up job gets a task of its own
  Put(stratumTaskMap, e, Pending)
TasksAfterLookup(e) ==
  IF e \in DOMAIN stratumTaskMap THEN stratumTaskMap
  ELSE Put(stratumTaskMap, e, Null)
KnownJob(e) == e \in DOMAIN stratumTaskMap /\ stratumTaskMap[e] # Null
HeaderOfLatest(e, n) ==  \* mutant: the newest job, whatever the id names
  HeaderOf(stratumTaskMap[Max(DOMAIN stratumTaskMap)], n)
HeaderOfJob(e, n) == HeaderOf(stratumTaskMap[e], n)
GoodShare(h) == (EquihashCheck => h \in EquihashValid) /\ h \in InShareTarget

\* Every refusal is answered false and followed by new work.
RefuseSubmit(s, error) ==
  /\ Reply("submit", error)
  /\ Call(s, "template")
  /\ UNCHANGED <<stratumUnchanged, registryVars, visit, credits, job>>

BadJobName(s) ==
  /\ pc[s] = "read"
  /\ RefuseSubmit(s, "Invalid job name")
  /\ UNCHANGED <<stratumTaskMap, uniqueShares, claim>>
UnknownJob(s, e) ==
  /\ pc[s] = "read" /\ ~KnownJob(e)
  /\ stratumTaskMap' = TasksAfterLookup(e)
  /\ RefuseSubmit(s, "Share for unknown work")
  /\ UNCHANGED <<uniqueShares, claim>>
\* A solution too short, not valid, or of a hash above the share target.
BadShare(s, e, n) ==
  /\ pc[s] = "read" /\ KnownJob(e)
  /\ ~GoodShare(HeaderOfJob(e, n))
  /\ RefuseSubmit(s, "Invalid share")
  /\ UNCHANGED <<stratumTaskMap, uniqueShares, claim>>
DuplicateSubmit(s, e, n) ==
  /\ pc[s] = "read" /\ KnownJob(e)
  /\ GoodShare(HeaderOfJob(e, n)) /\ HeaderOfJob(e, n) \in uniqueShares
  /\ RefuseSubmit(s, "Duplicate share")
  /\ UNCHANGED <<stratumTaskMap, uniqueShares, claim>>

NewSubmitForgotten(s, e, h) ==  \* mutant: the hash is not inserted
  /\ pc[s] = "read" /\ KnownJob(e)
  /\ GoodShare(h) /\ h \notin uniqueShares
  /\ UNCHANGED uniqueShares

NewSubmit(s, e, h) ==
  /\ pc[s] = "read" /\ KnownJob(e)
  /\ GoodShare(h) /\ h \notin uniqueShares
  /\ uniqueShares' = uniqueShares \cup {h}

\* pushShare goes to stratumWorkers[s], made on the spot for a session that
\* never logged in.  When the backend does not take the share the submit is
\* refused after all.
CountShare(s, h, isBlock) ==
  /\ Credit(h, isBlock)
  /\ Reply("submit", "null")
  /\ stratumWorkers' = Put(stratumWorkers, s, Record(stratumWorkers, s))
  /\ UNCHANGED <<stratumUnchanged, sessionId, visit, job>>

PlainSubmit(s, e, h) ==
  /\ NewSubmit(s, e, h) /\ h \notin InBlockTarget
  /\ \/ CountShare(s, h, FALSE) /\ UNCHANGED <<pc, answer>>
     \/ RefuseSubmit(s, "Stale share")
  /\ UNCHANGED <<stratumTaskMap, claim>>

\* A hash within the block target goes to the wallet.
BlockSubmit(s, e, h) ==
  /\ NewSubmit(s, e, h) /\ h \in InBlockTarget
  /\ Call(s, "pow")
  /\ claim' = [claim EXCEPT ![s] =
                 [share |-> h, extraNonce |-> e, height |-> currHeight,
                  invalid |-> FALSE]]
  /\ Silent
  /\ UNCHANGED <<stratumUnchanged, stratumTaskMap, registryVars, visit,
                 credits, job>>

BlockSubmitRefused(s) ==
  /\ pc[s] = "pow" /\ answer[s] \in {Null, Rejected}
  /\ claim' = [claim EXCEPT ![s] = NoClaim]
  /\ RefuseSubmit(s, "Check proof of work failed")
  /\ UNCHANGED <<stratumTaskMap, uniqueShares>>

BlockSubmitAccepted(s) ==
  /\ pc[s] = "pow" /\ answer[s] = Accepted
  /\ claim' = [claim EXCEPT ![s] = NoClaim]
  /\ \/ CountShare(s, claim[s].share, TRUE) /\ Resume(s, "read")
     \/ RefuseSubmit(s, "Stale share")
  /\ UNCHANGED <<stratumTaskMap, uniqueShares>>

OnStratumSubmit(s) ==
  \/ BadJobName(s)
  \/ \E e \in ExtraNonces :
       \/ UnknownJob(s, e)
       \/ \E n \in Nonces :
            \/ BadShare(s, e, n)
            \/ DuplicateSubmit(s, e, n)
            \/ KnownJob(e) /\ PlainSubmit(s, e, HeaderOfJob(e, n))
            \/ KnownJob(e) /\ BlockSubmit(s, e, HeaderOfJob(e, n))

StratumReturn(s) ==
  StratumWork(s) \/ BlockSubmitRefused(s) \/ BlockSubmitAccepted(s)

StratumNext ==
  \/ StratumAccept
  \/ \E s \in Sessions :
       \/ StratumClose(s) \/ WorkLifeTimeExpires(s)
       \/ \E addressIsValid \in BOOLEAN : OnStratumAuthorize(s, addressIsValid)
       \/ OnStratumSubmit(s)
       \/ StratumReturn(s)
=============================================================================
