------------------------------- MODULE Wallet -------------------------------
(***************************************************************************)
(* The patched zcashd behind the p2p link, as far as the pool depends on   *)
(* it: it has a tip, builds templates on it, judges proofs of work, and    *)
(* signals every new tip.  RPCs are served in one thread and new blocks    *)
(* notified from another (pool.diff), so a template of the new tip may be  *)
(* served before the signal of that tip arrives and one of the old tip may *)
(* be delivered after it.                                                  *)
(***************************************************************************)
EXTENDS PoolState

poolSideVars == <<blockVars, taskVars, uniqueShares, registryVars,
                  connectedBefore, visit, credits, job, process, pc, claim>>

\* Signals come from another thread than answers: one may overtake the other.
\* overlooked is set by the two events after which the pool may never hear of
\* the tip, and cleared when it is told again: the signal of a new tip finds
\* the timer with the answer that named the old one, or the link is back
\* before the timer compared it with its copy of the link's state.
BlockOvertaken ==
  pc[Timer] = "getblock" /\ answer[Timer] \notin {Null, Pending}
OutageUnseen == connectedBefore \/ pc[Timer] = "update"

\* The tip becomes b, by an extension or a reorganisation, and b is signalled
\* if the pool is connected.
TipBecomes(b) ==
  /\ Len(signals) < MaxSignals
  /\ tip' = b
  /\ chain' = chain \cup {b}
  /\ signals' = IF connected THEN Append(signals, b) ELSE signals
  /\ overlooked' = IF connected THEN BlockOvertaken ELSE overlooked

NewTip ==
  /\ \E b \in Blocks \ {tip} : TipBecomes(b)
  /\ Silent
  /\ UNCHANGED <<poolSideVars, answer, connected, served, found>>

Answer(c, a) == answer' = [answer EXCEPT ![c] = a]

\* A template on the tip.  Each is new unless the wallet starts its count of
\* extra nonces again.
ServeTemplate(c) ==
  /\ WaitsForTemplate(c) /\ answer[c] = Pending /\ connected
  /\ \E m \in Templates :
       /\ m.tip = tip
       /\ WalletReissues \/ m \notin served
       /\ Answer(c, m)
       /\ served' = served \cup {m}
  /\ Silent
  /\ UNCHANGED <<poolSideVars, tip, chain, connected, signals, found, overlooked>>

ServeBlock ==
  /\ pc[Timer] = "getblock" /\ answer[Timer] = Pending /\ connected
  /\ Answer(Timer, tip)
  /\ overlooked' = FALSE
  /\ Silent
  /\ UNCHANGED <<poolSideVars, tip, chain, connected, signals, served, found>>

\* The block the wallet assembles from its own template with the extra nonce
\* of the call is valid and extends the tip.
MakesBlock(cl) ==
  /\ cl.share.prev = tip
  /\ cl.share.merkle = [tip |-> tip, extraNonce |-> cl.extraNonce]
  /\ cl.share \in EquihashValid \cap InBlockTarget

ServePowAccepted(c) ==
  /\ pc[c] = "pow" /\ answer[c] = Pending /\ connected
  /\ MakesBlock(claim[c])
  /\ \E b \in Blocks \ chain : Height[b] = Height[tip] + 1 /\ TipBecomes(b)
  /\ found' = found \cup {claim[c].share}
  /\ Answer(c, Accepted)
  /\ Silent
  /\ UNCHANGED <<poolSideVars, connected, served>>

ServePowRejected(c) ==
  /\ pc[c] = "pow" /\ answer[c] = Pending /\ connected
  /\ Answer(c, Rejected)
  /\ Silent
  /\ UNCHANGED <<poolSideVars, walletVars>>

\* The call fails in the pool: a timeout, or an answer lost on its way.
CallFails(c) ==
  /\ Suspended(c) /\ answer[c] # Null
  /\ Answer(c, Null)
  /\ Silent
  /\ UNCHANGED <<poolSideVars, walletVars>>

\* The link drops with the signals and the answers on it.
LinkDown ==
  /\ connected
  /\ connected' = FALSE
  /\ signals' = <<>>
  /\ answer' = [c \in Coroutines |-> Null]
  /\ Silent
  /\ UNCHANGED <<poolSideVars, tip, chain, served, found, overlooked>>

LinkUp ==
  /\ ~connected
  /\ connected' = TRUE
  /\ overlooked' = OutageUnseen
  /\ Silent
  /\ UNCHANGED <<poolSideVars, answer, tip, chain, signals, served, found>>

WalletNext ==
  \/ NewTip \/ ServeBlock \/ LinkDown \/ LinkUp
  \/ \E c \in Coroutines :
       ServeTemplate(c) \/ ServePowAccepted(c) \/ ServePowRejected(c)
         \/ CallFails(c)
=============================================================================
