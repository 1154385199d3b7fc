---------------------------- MODULE ZmqFrontend ----------------------------
(***************************************************************************)
(* The native ZeroMQ protocol: mainProc, one coroutine per connection,     *)
(* answering GETWORK and SHARE one request at a time (STATS and unknown    *)
(* types are answered NONE and leave the shared state alone).              *)
(***************************************************************************)
EXTENDS PoolState

zmqUnchanged == <<blockVars, stratumTaskMap, registryVars, connectedBefore,
                  visit, walletVars, job, process>>

ZmqConnect(c) ==
  /\ pc[c] = "closed"
  /\ pc' = [pc EXCEPT ![c] = "recv"]
  /\ Silent
  /\ UNCHANGED <<zmqUnchanged, extraNonceMap, uniqueShares, answer, claim,
                 credits>>

\* The miner leaves, or sends what checkRequest refuses.
ZmqClose(c) ==
  /\ pc[c] = "recv"
  /\ pc' = [pc EXCEPT ![c] = "closed"]
  /\ Silent
  /\ UNCHANGED <<zmqUnchanged, extraNonceMap, uniqueShares, answer, claim,
                 credits>>

-----------------------------------------------------------------------------
\* GETWORK

OnGetWork(c) ==
  /\ pc[c] = "recv"
  /\ Call(c, "template")
  /\ Silent
  /\ UNCHANGED <<zmqUnchanged, extraNonceMap, uniqueShares, claim, credits>>

NoTemplate(c) ==
  /\ pc[c] = "template" /\ answer[c] = Null
  /\ Resume(c, "closed")
  /\ Reply("GETWORK", "HEIGHT")
  /\ UNCHANGED <<zmqUnchanged, extraNonceMap, uniqueShares, claim, credits>>

TemplateForMiner(c) ==
  /\ pc[c] = "template" /\ answer[c] # Null
  /\ Resume(c, "recv")
  /\ extraNonceMap' = Put(extraNonceMap, answer[c], answer[c].extraNonce)
  /\ Reply("GETWORK", "NONE")
  /\ UNCHANGED <<zmqUnchanged, uniqueShares, claim, credits>>

-----------------------------------------------------------------------------
\* SHARE

\* The tests before the share is looked up.  has_height() is no test:
\* the height of mCurrBlock is set when the program starts and never cleared.
RequestHeights == {0} \cup {Height[b] : b \in Blocks}
CurrentWork(height, merkle) ==
  height = currHeight /\ merkle \in DOMAIN extraNonceMap

\* An invalid solution marks the reply INVALID but does not end the handler.
EquihashRefuses(h) == EquihashCheck /\ h \notin EquihashValid

RefusedShare(c, label, error) ==
  /\ pc[c] = "recv"
  /\ pc' = [pc EXCEPT ![c] = label]
  /\ Reply("SHARE", error)
  /\ UNCHANGED <<zmqUnchanged, extraNonceMap, uniqueShares, answer, claim,
                 credits>>

\* No share, or one without bignonce or proofofwork; or one whose hash is not
\* that of the header the pool rebuilds.
MalformedShare(c) == RefusedShare(c, "recv", "INVALID")
StaleShare(c, height) ==
  height # currHeight /\ RefusedShare(c, "recv", "STALE")
UnknownWork(c, height, merkle) ==
  /\ height = currHeight /\ ~CurrentWork(height, merkle)
  /\ RefusedShare(c, "closed", "STALE")
TooSmallShare(c, height, h) ==
  /\ CurrentWork(height, h.merkle) /\ h \notin InShareTarget
  /\ RefusedShare(c, "recv", "INVALID")
DuplicateShare(c, height, h) ==
  /\ CurrentWork(height, h.merkle) /\ h \in InShareTarget
  /\ h \in uniqueShares
  /\ RefusedShare(c, "recv", "DUPLICATE")

NewShareForgotten(c, height, h) ==  \* mutant: the hash is not inserted
  /\ pc[c] = "recv"
  /\ CurrentWork(height, h.merkle) /\ h \in InShareTarget
  /\ h \notin uniqueShares
  /\ UNCHANGED uniqueShares

NewShare(c, height, h) ==
  /\ pc[c] = "recv"
  /\ CurrentWork(height, h.merkle) /\ h \in InShareTarget
  /\ h \notin uniqueShares
  /\ uniqueShares' = uniqueShares \cup {h}

\* The Share message is sent, or the backend does not take it.
SendShareIgnoresBackend(h, isBlock, invalid) ==  \* mutant: failure not reported
  /\ Credit(h, isBlock) \/ UNCHANGED credits
  /\ Reply("SHARE", IF invalid THEN "INVALID" ELSE "NONE")

SendShare(h, isBlock, invalid) ==
  \/ /\ Credit(h, isBlock)
     /\ Reply("SHARE", IF invalid THEN "INVALID" ELSE "NONE")
  \/ /\ UNCHANGED credits
     /\ Reply("SHARE", "STALE")

PlainShare(c, height, h) ==
  /\ NewShare(c, height, h)
  /\ SendShare(h, FALSE, EquihashRefuses(h))
  /\ UNCHANGED <<zmqUnchanged, extraNonceMap, callVars>>

\* A share its miner says is a block is first offered to the wallet.
BlockShare(c, height, h) ==
  /\ NewShare(c, height, h)
  /\ Call(c, "pow")
  /\ claim' = [claim EXCEPT ![c] =
                 [share |-> h, extraNonce |-> extraNonceMap[h.merkle],
                  height |-> currHeight, invalid |-> EquihashRefuses(h)]]
  /\ Silent
  /\ UNCHANGED <<zmqUnchanged, extraNonceMap, credits>>

BlockRefused(c) ==
  /\ pc[c] = "pow" /\ answer[c] \in {Null, Rejected}
  /\ Resume(c, "recv")
  /\ claim' = [claim EXCEPT ![c] = NoClaim]
  /\ Reply("SHARE", "INVALID")
  /\ UNCHANGED <<zmqUnchanged, extraNonceMap, uniqueShares, credits>>

BlockAcceptedAnyResult(c) ==  \* mutant: result->result is not looked at
  /\ pc[c] = "pow" /\ answer[c] \in {Accepted, Rejected}
  /\ Resume(c, "recv")
  /\ claim' = [claim EXCEPT ![c] = NoClaim]
  /\ SendShare(claim[c].share, TRUE, claim[c].invalid)
  /\ UNCHANGED <<zmqUnchanged, extraNonceMap, uniqueShares>>

BlockAccepted(c) ==
  /\ pc[c] = "pow" /\ answer[c] = Accepted
  /\ Resume(c, "recv")
  /\ claim' = [claim EXCEPT ![c] = NoClaim]
  /\ SendShare(claim[c].share, TRUE, claim[c].invalid)
  /\ UNCHANGED <<zmqUnchanged, extraNonceMap, uniqueShares>>

OnShare(c) ==
  \/ MalformedShare(c)
  \/ \E height \in RequestHeights :
       \/ StaleShare(c, height)
       \/ \E m \in Templates :
            \/ UnknownWork(c, height, m)
            \/ \E n \in Nonces :
                 LET h == HeaderOf(m, n)
                 IN  \/ TooSmallShare(c, height, h)
                     \/ DuplicateShare(c, height, h)
                     \/ PlainShare(c, height, h)
                     \/ BlockShare(c, height, h)

ZmqReturn(c) ==
  NoTemplate(c) \/ TemplateForMiner(c) \/ BlockRefused(c) \/ BlockAccepted(c)

ZmqNext ==
  \E c \in Miners :
    \/ ZmqConnect(c) \/ ZmqClose(c)
    \/ OnGetWork(c) \/ OnShare(c) \/ ZmqReturn(c)
=============================================================================
