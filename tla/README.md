# Verification of pool_frontend_zcash

TLA+ modules of the ZCash mining pool frontend in `src/src`, the TLC runs that
check them on small instances, and proofs that hold for every instance.
Line numbers are of the files under `src/`; a file without a directory is in
`src/src`.

## 1. The system

`pool_frontend_zcash` is one process with one event loop thread. Every miner
connection, the timer and every work update is a coroutine of libp2p's asyncio;
control passes from one to another only at an `io*` call. The process talks to

* miners of the **native protocol** (ZeroMQ; request and reply, and a PUB
  socket for new blocks) and of **stratum** (JSON lines over TCP),
* one patched **zcashd** (`pool.diff`) through a p2p link: three RPCs
  (`ioGetBlockTemplate`, `ioSendProofOfWork`, `ioGetCurrentBlock`) and the
  signal `NewBlock`,
* the **backend** (`PoolBackend` of poolcore, in another thread), which gets
  the shares and the statistics as messages.

### Inventory

| Component | Where | State | Operations | What makes it correct |
|---|---|---|---|---|
| shared state `poolContext` | zcashpool.h:73 | `mCurrBlock`, `extraNonceMap`, `stratumTaskMap`, `uniqueShares`, `stratumWorkers`, `sessionId`, targets | used by all | work, shares and block belong together |
| native handler | main.cpp:154, zcashpool.cpp:87-255 | one request at a time | GETWORK, SHARE, STATS | each share judged once, answered for what was done with it |
| stratum handler | main.cpp:200, zcashpool.cpp:298-557 | session id, buffer | authorize, submit, new work, close | the same, and a record exactly while a session may be served |
| work distribution | main.cpp:110, 295, 430 | `connectedBefore`, loops over `stratumWorkers` | new block, reconnect, disconnect, refresh | the pool and its miners follow the wallet's tip |
| signal sockets | main.cpp:88-108, 274 | `signalSockets`, sends under way | subscribe, send, disconnect | each socket deleted once, and not used after; every subscriber hears of every block |
| statistics | zcashpool.h:15-65, main.cpp:368 | ring of share counters | shift, push, report | counts of the last minutes |
| stratum reader | main.cpp:208-266 | buffer, offset | read, split, move | every line handled once, in order |
| decoder, hex codec | stratum.cpp | - | decode, byte order | inverse conversions |
| targets | main.cpp:290, 320, 449, 621, uint256.h | block and share target | bits to target, compact form | no overflow, no division by zero |
| Equihash verifier | equihash_original.cpp | - | ExpandArray, IsValidSolution | accepts exactly the solutions |
| connect port | main.cpp:117, zcashpool.cpp:66 | - | CONNECT | a miner learns of the signals, and of the block it lacks |
| start, shutdown | main.cpp:398, 482, 518 | - | listen, stop | nothing is used after it was deleted |
| wallet, link | external | tip, templates, signals | RPCs, NewBlock | assumed, section 4 |
| backend | external | - | take a share | may fail |

Hard behaviour: every RPC is a point where the shared state changes under the
handler that waits; the link drops and returns between the timer's polls;
templates, verdicts, blocks and signals overtake each other; range-for loops
over a map wait in their body while sessions erase and create its elements;
the duplicate check is emptied with each block while shares wait for a verdict;
the callback of a send erases from the list that the loop around it walks.
PROJECT.json lists each such place with its line.

## 2. The modules

| Module | Models |
|---|---|
| `PoolState` | constants, variables, and what the coroutines share: RPC suspension, headers, credits, worker records, `AdoptBlock` |
| `ZmqFrontend` | `mainProc`, `onGetWork`, `onShare` |
| `StratumFrontend` | `stratumProc`, `onStratumAuthorize`, `onStratumSubmit`, `stratumCheckShare`, `stratumSendNewWork` |
| `WorkDistribution` | `signalHandler`, `updateStratumWorkers`, `timerProc` |
| `Wallet` | zcashd and the link (external) |
| `PoolFrontend` | composition: `Init`, `Next`, fairness |
| `ShareLedger` | abstract specification: the life of one share |
| `PoolProperties` | type invariant, properties, inductive invariant, refinement mapping |
| `MCPool` | values and bounds for TLC |
| `PoolProofs` | proofs of the type invariant and that no share is credited twice |
| `FrontendProofs` | the other safety properties of the pool, and the refinement of `ShareLedger` |
| `StratumReader` | the line buffer of `stratumProc` |
| `ReaderProperties` | its type invariant and properties; root of its runs |
| `ReaderProofs` | its inductive invariant and proofs |
| `StratumCodec` | `decodeStratumMessage` and the conversions between text and header |
| `StratumCodecProperties` | its properties |
| `MCStratumCodec` | values for TLC |
| `CodecProofs` | its inductive invariant and proofs |
| `WorkerStats` | the ring of share counters of a `StratumWorker`, `updateStats`, and its invariants |
| `StatsProofs` | its inductive invariant and proofs |
| `Targets` | share target and block target in limbs, `GetCompact`, the judgement of a share |
| `TargetsProperties` | its properties |
| `MCTargets` | values for TLC |
| `TargetsProofs` | their inductive invariant and proofs |
| `Signals` | `sendSignal`, `sendSignalCb`, `signalsProc`, the connect port, `sigintProc` |
| `SignalsProperties` | its properties |
| `MCSignals` | values for TLC |
| `SignalsProofs` | their inductive invariant and proofs |
| `Equihash` | `IsValidSolution`: `ExpandArray` and the rounds |
| `EquihashProperties` | the definition of a solution, properties |
| `MCEquihash` | values for TLC |
| `EquihashProofs` | its inductive invariants and proofs |

The pool's modules compose in `PoolFrontend`, where `published` is the
block last signalled to native miners. The others stand beside it, each for what
the composition takes as given: `Signals` for native miners hearing of that
block, `StratumReader` for messages arriving one at a time and whole,
`StratumCodec` for a header being the same to miner, pool and wallet, `Targets`
and `Equihash` for the constant sets of shares that meet a target or have a
valid solution, `WorkerStats` for the counters a record has beside its socket.

**Steps.** An action is what one coroutine does between two RPCs. `pc[c]` is
the RPC in which coroutine `c` waits (`template`, `pow`, `getblock`; `update`
and `refresh` for the template calls of a walk), or where it waits for its
peer (`recv`, `read`, `sleep`). `answer[c]` is `Pending`, then what the RPC
returned. `reply` is the answer a step gives to its miner; sending it is part
of the step, as nothing shared is touched after it.

**Data.** A template is its merkle root, determined by the tip and the number of
the coinbase. A share is its header hash: the *pool's* current block, the
merkle root, and the miner's part as one nonce. Which shares have a valid
solution and meet the share and block targets is given by three constant sets,
so every combination is explored: a target is never compared. The wallet's
verdict is not one of these sets: it accepts only a proof that makes a block on
its tip, and may refuse for any reason.

**Records and loops.** `stratumWorkers[s]` has the socket the session wrote at
login (`own`), or an uninitialised one (`wild`) if operator[] made the record,
and whether its work is due for a refresh. `visit[w]` is what a range-for loop
holds while its body waits: the session id and socket it passed, and whether
its iterator still stands on a live node. A round that writes to a deleted or
wild socket, or steps on from a freed node, is undefined behaviour: it may
crash the process (`WalkCrash`) or go on (`WalkStep`); going on, a freed node
still leads to its successor.

**has_height().** The guards at zcashpool.cpp:114 and 305 are absent from the
model because they never fire: main.cpp:644 sets the height before anything
runs and nothing clears it (main.cpp:341 sets it to 0). The guard at
zcashpool.cpp:59 is another: a request may come without a height (`Signals`).

**Lost blocks.** `overlooked` in `Wallet` is a history variable that nothing reads.
It is set by the two events after which the pool may never hear of the tip: the
signal of a new block is sent while the timer holds an older answer to
ioGetCurrentBlock (`BlockOvertaken`), or the link is back before the timer compared
it, or while the timer updates the sessions (`OutageUnseen`). A later signal or
answer clears it.

**The stream.** In `StratumReader` a byte is its position in what the client
writes, so the buffer is a sequence of positions and "handled whole and in
order" can be said exactly. Lines have a size and a kind (answered, not JSON);
a byte 0 inside a line is not modelled, and an empty line is not JSON. A read
returns any number of the bytes under way that fit; a read of length 0, which
a full buffer asks for, returns 0 and ends the loop. memcpy of overlapping
regions is undefined: `MemcpyForward` chooses whether it copies from the begin
(as memmove does here) or from the end.

**The ring.** `WorkerStats` keeps the counters, `begin` and a clock that does not
go back. `Copy` is the loop of shift(), which copies in place: a recursive function
that gives the counters after each round; `Shifted` is the loop and the zero fill,
or the memset. All of them write with `Write`, which keeps what is written beyond
the counters as a place the ring should not have. `Sums` is the loop of updateStats. The root of its run is the
module itself.

**Small widths.** `Targets` and `StratumCodec` have the bits of a byte, the bytes
of a limb or a number and the base of a digit as constants, so that the inputs at
every boundary (sign bit, limb, half a byte) can be enumerated. `Targets` runs with
bytes of one bit for the code's eight and four limbs for its eight; a limb has four
bytes as in the code, one more than a mantissa. `StratumCodec` runs with digits of
one bit for four and numbers of three bytes for 32.

**Texts and fields.** readHex does not use the size it is given. A text shorter than
its field leaves the rest uninitialised (`Leftovers`); the text of a time that is
longer goes on into the nonce, which is read over it, and both may end in
`nonce[32]`. A text that is written past that array is undefined behaviour:
`Overrun` ends in the stage "undefined", of which nothing is said.

**Equihash.** A solution is a sequence of bytes. `ExpandByte` is one round of
ExpandArray's loop: the accumulator keeps the width of its word, is shifted by a
byte each time and never cleared; the bytes it writes for an index are read back
as one number by `ArrayToEhIndex`, which the model takes at once. A segment of a
hash is the set of its one bits; BLAKE2b is a table, the constant `Hashes`.

**Signals.** `signalSockets` is the vector, `at` the index of the loop in
`sendSignal` (0 when none runs: the loop does not suspend, so no coroutine runs
until it ends). A round either queues a send (`Queue`) or the send ends at once,
with its callback, inside the loop (`SendNow`); a queued send ends later
(`SendDone`). The callback deletes the socket only when the peer is gone; a
send that timed out is not repeated. `owed` is a history variable: the
subscribers the last signal has not reached; a disconnection found inside the
loop removes the socket behind it from `owed`, as the erase moves that
socket under the index the loop has just done. `known` is the block a miner
works on, from a signal or from a reply. `checkRequest` puts the block into the
reply of a request that states a lower height (`Stated`: a request may state none
and then gets no block), before the handler waits for the wallet; `reply` is what
mainProc has yet to send, so that an older block may follow a newer signal, or
be lost. How a send may end is `Outcomes`, an assumption on libp2p (section 4).

## 3. The runs

`zmq`, `shares`, `registry`, `follow_tip` and `refused_solution` use MCPool; bounds are constants or named constraints of it.

**zmq** (Zmq.cfg): two miners, one walker, two blocks, one extra nonce per tip,
one signal under way, nonces `block` and `weak`. The tip goes forth and back
between the blocks, so a block is adopted twice, and the link drops at any
time. Two miners suffice for a race on one share; two blocks for a stale
template, share or verdict.

* `NoDoubleCredit`, `UsedOnce` - section 5.
* `BlockCreditsAreFound` - a share is reported as a block only if the wallet
  made it one, however late its verdict, and on a template of the tip its
  header extends: a template that arrives after the next block is registered as
  work of that block (zcashpool.cpp:99), and its shares are credited, but none
  becomes a block.
* `CreditHeight` - the height a plain share is credited to belongs to its
  header. (A block share has no such property: the height is read after the
  wallet answered, zcashpool.cpp:236 and 467.)

**shares** (Shares.cfg): one miner of each protocol, two blocks, two extra
nonces, two walkers, nonces `share` and `block`. Constraints: no reorganisation, the
link stays up, nobody comes before the first block, the session logs in first and
stays, nothing gets old, one share, and two templates (numbered from 1 on a tip), so
that a handler may find two jobs or two merkle roots. These cut what the other runs
explore; left is every way in which the two protocols can take the same kind of
share, wait for its verdict and try it again.

* `LedgerSpec` is the refinement: for each share, `Stage` maps the frontend to
  `ShareLedger`.
* `ShareAnswerHonest` - a miner is told of success exactly in the steps that
  send its share.
* `ClaimMatchesTemplate` - a proof of work under way names the extra nonce of the
  template in its own header, though the pool knows two, and the height of the
  header's previous block (or 0).

**registry** (Registry.cfg): two stratum sessions that come, log in, submit
shares that are refused and leave, two walkers and the timer, two blocks, no
reorganisation, the link up after the first block.

* `TypeOK` - among others, that the task map holds templates or the empty tasks
  that looking up unknown jobs leaves; section 5.
* `SocketsAreAlive` - a record never holds the deleted socket of a session that
  is gone. Records of gone sessions do occur: a walk that was waiting for a
  template of a session that left makes its record again (zcashpool.cpp:555),
  with an uninitialised socket, and later walks visit it.
* `OnlyVisitedSessionBreaksWalk` - only the session a walk waits at, by
  leaving, or such a record, breaks the walk. That this *does* happen is the
  hazard at main.cpp:113; the run explores it as undefined behaviour.

**follow_tip** (FollowTip.cfg): the tip and liveness. One session that logs in,
one walker and the timer, two blocks, reorganisations, up to two signals under way,
answers and signals that overtake each other, outages that the timer sees or not,
templates served again without bound. With no shares nothing depends on the tasks
and on what was served, which the view `WithoutWork` leaves out.

* `TipReachesPool` - a block is lost in two ways only, those of `overlooked`.
  Otherwise, while the link is up, the pool is on the wallet's tip and its height, or
  the last signal under way is that of the tip, or the timer takes the link to
  be down and so fetches the block. This is the safety side of `FollowTip`.
* `FollowTip` - if the wallet stays connected on one tip that was told to the pool
  after the last of these events, the pool ends up on it and its height.
  `JobsFollowTip` - so does the work of a session that stays, whatever late
  template it was sent before.

Both ways to lose a block exist in the code. A late answer to `ioGetCurrentBlock`
overwrites a newer block (main.cpp:306). And the link drops, `timerProc` sets the
height to 0 and walks the sessions; while a template call waits the link returns;
main.cpp:356 copies `connected() = true`. The next tick sees no change, the block
is never fetched, and the pool answers STALE to every share until the next new block.

**pipelined** (Pipelined.cfg): a buffer of six bytes, three lines of one to six
bytes, so that lines fit, just fit, do not fit, share a read and are cut anywhere.

* `LinesArriveIntact` - lines are handled in order, once, and as written.
  `DroppedForAReason` - a connection ends only when closed from outside, for a
  line that is not JSON or for one that does not fit.
* `NextBytesReleaseLine` - while bytes are under way the next line is going to be
  handled, or the connection ends for a reason. So a client that waits for each
  answer is always served. The code handles one line a read, so of two lines that
  arrive together the second waits for more bytes: a client that then waits for
  its answer waits forever. `ClientLeaves` and `ClientWrites` have no fairness.

**codec** (StratumCodec.cfg): a digit has one bit, hashes have three bytes, time
and nonce two; every text up to the length of its field, of digits and others, and
texts that spill into the next field, fill `nonce[32]` and are written past it;
every method with missing, null and mistyped parameters.

* `CodecTypeOK` - a submission is accepted exactly if its parameters are texts and
  the last three are what stratumDumpHex writes of some bytes; then, and for no
  other line, there are fields, and these are bytes.
* `MinerAndPoolAgree` - the miner reads the header as text, the pool builds it from
  numbers; version, previous hash, merkle root, reserved, bits, time, nonce and
  solution have the same bytes. `WalletGetsNonce` - so has the nonce of the wallet.
* Of a field that is longer than its text the property says nothing past the text.

**stats** (Stats.cfg): three counters of three seconds, a clock to 14 and four
shares: the ring is shifted by one, by several and by more than its length.

* `StatsTypeOK` - no round writes beyond the counters.
* `CountsAreExact` - each counter holds the shares of its interval.
  `ReportWindow` - a share is reported for the whole time the rate is computed
  over, and for less than twice that time. `RateIsBounded` - so the rate is not
  below the true one, and may count shares of up to twice the time it is divided
  by: intervals get longer than AccumulateInterval, as `begin` is moved to now
  and an interval, but not twice as long.
* updateStats does not shift: these say what a report after a share covers. A
  worker that stops sending is reported at its last rate.

**targets** (Targets.cfg): numbers of four limbs of four bytes of one bit; share
targets that are powers of two, beside one, small and large; blocks of every size
and mantissa; hashes at and beside each of these targets and the extremes.
`hash` is the number a hash is; the code's comparisons see its limbs (`ToUint`).

* `AdvertisedTargetIsFair` - the compact target sent to native miners is never
  easier than the one they are judged by, and less than one unit harder.
* `JudgedByNumber` - too small, share or block as the numbers compare.
* `ConversionsAgree` - hashTargetFromBits, which nothing calls, computes by shifts
  of uint256 what timerProc and signalHandler compute with mpz_class.

**equihash** (Equihash.cfg): two rounds, bytes of two bits, indices of three, a
word of four: indices straddle bytes, the word overflows. All 4096 strings of
six bytes and two of a wrong size, with three tables of hashes (everything
collides; one solution; collisions with a last segment that is not zero).

* `VerdictIsRight` - the verdict is that of the definition over the whole tree,
  with the indices read bit by bit from the string.
  `RowsAreSubtrees` - why: a row is the exclusive or over a subtree.
* `AccumulatorHoldsTail` - whatever was shifted out of the word, its low
  `accBits` bits are the last bits read, and fewer than an index.
  `NoIndexTwice` - section 5.

**signals** (Signals.cfg): two miners, two blocks, one on the other, that come and
go in any order, the state without a block, one send under way on a socket when a
signal goes out (so at most two), one reply under way for each miner. The bound is
`MaxPending`: a send ends after five seconds (`TM`), so more than two signals within
them would be needed to exceed it. The proofs hold for every bound.

* `DeletedOnce` - a socket is deleted once and is not listed afterwards, with
  several callbacks under way.
* `ListedAreTold` - after the loop, each subscriber the signal was for has it
  under way or its send has ended - but not the one right behind a socket that was
  erased inside the loop: it gets no signal. That happens when
  aioZmtpSend calls back before it returns.
* `GoneIsForgotten` - while signals go on, a socket whose peer left is erased,
  though the erase of another makes the loop pass over it.
* `RequestersCatchUp` - a miner that goes on sending requests ends up at the
  pool's height, whatever signals it missed and replies it lost or got late. At the
  height, not on the block: a reply has the block only when it is higher
  (zcashpool.cpp:59), so of two blocks of one height a miner may stay on the one the
  pool left. Requests without a height are served as well, but help nobody.

**Findings.** Two runs are expected to fail.

* `overlapping_move`: main.cpp:261 moves the rest of the buffer with memcpy
  although the regions overlap; with a memcpy that does not copy like memmove
  the next line is damaged. The other reader runs and the proofs assume
  `MemcpyForward`.

* `refused_solution`: with `equihashShareCheck` the native handler answers
  INVALID to a share whose solution is not valid but does not return
  (zcashpool.cpp:187), and the share is credited. The stratum handler returns.

Two observations that contradict no text of the repository: a login refused by
`checkAddress` is registered and served (zcashpool.cpp:445-450), though the
address that a share is credited to is the one in the submit;
and `createListener` (main.cpp:398) flows off its end without the value its type
promises, which C++ leaves undefined; the models take it to return, as no
caller uses the value.

**Mutants.** Each property of a passing run has a mutated definition in the
models, marked `mutant`, that a plausible slip would produce (a missing clear,
erase, insert or test); with it in place the property fails.

## 4. Assumptions

*The wallet* (module `Wallet`). It serves a template on its tip, a new one
each time unless `WalletReissues`; `NoDoubleCredit` depends on that: a
restarted zcashd that counts its coinbases from the start on the same tip could
serve a template again after the pool forgot its shares. It signals each new
tip while connected. A dropped link loses the signals and fails the calls under
way. A call may fail at any time.

*Arithmetic and data.* `PowersAssumption` (`Equihash`, `Targets`) states 2^n as the
provers need it. Share targets are at least 2 (`CoeffsAssumption`; main.cpp:625 divides by
0 and does not fit 1 into 256 bits) and a wallet's block target is neither 0 nor
above 256 bits. Integers are little-endian in memory, as on the platforms the
project builds for.

*libp2p's sends* (module `Signals`). The sends on a socket end in their order;
its callback runs when a send ends, not later; deleting a socket cancels the
sends left on it, and a canceled send does not report a disconnection. If two
sends could report it before either callback ran, the socket would be
deleted twice.

*Fairness of the signals.* `sendSignal`'s loop and every send come to an end
(weak fairness, by the time-out). Sends to a peer that is gone do not time out
or succeed forever (strong fairness: TCP gives up). A miner goes on sending
requests that state its height, each is served between two loops, and not every
reply is lost (strong fairness); this is the hypothesis of `RequestersCatchUp`, as
its shares are requests. A miner whose request ends the connection (`needDisconnect`)
is taken to connect again.

*Walkers.* signalHandler starts a new coroutine for each block; `Walkers` bounds how
many of them run at a time, and a signal waits for one to be free. Two in shares and
registry, where two walks and the timer's interleave; one in zmq, which has no
sessions, and in follow_tip, for the cost of liveness. The proofs hold for any number.

*Fairness of the reader.* A read that has bytes returns (weak fairness), a
handler returns. Nothing is assumed of the client.

*Fairness.* `LoopFairness`: the event loop resumes each coroutine whose call
returned, runs signal handlers and the timer (weak fairness: these stay enabled
until they run), calls end by their timeout, time passes. `WalletFairness`: a
wallet that is up does not fail the same call forever (strong fairness, as each
failure starts the call anew), and not all of its answers are lost. Nothing is
assumed of miners, of the tip or of the link; `FollowTip` and `JobsFollowTip`
have their stability as hypothesis.

## 5. The proofs

`PoolProofs` proves `TypeCorrect == Spec => []TypeOK` for all constants that
satisfy the named assumptions of `PoolState`. Beside the types, `TypeOK` says
that only served templates are registered, that only accepted sessions have
records or are visited by walks, and where a coroutine may hold an answer or a
share. Each action has a lemma; `OneCall`, `OneConnection`, `SessionCall`,
`WalkTypes` and `AnswerTypes` carry the argument for the calls, `NextStopTypes`
(on `MinIsLeast`, from the well-foundedness of the naturals) for the walks.

It also proves `AtMostOneCredit == ~WalletReissues => (Spec =>
[]NoDoubleCredit)`. `NoDoubleCredit` is not inductive: nothing in it prevents a
credited share from being taken again. `UsedOnce` adds why that is impossible:

* `UsedIsRemembered` - a share that was taken (credited or being judged) and
  whose work is known is in `uniqueShares`. It survives `AdoptBlock`, which
  forgets the shares, because the work is forgotten too;
* `TemplatesAreFresh` - a template on its way to a coroutine is unknown, unused
  and on its way to no other. So work that becomes known after `AdoptBlock`,
  late as it may be, is unused work;
* `UsedIsServed` - so a newly served template is unused;
* `JudgedOnce` - a share being judged is not credited and judged by no other
  coroutine, so a verdict credits it for the first time.

`WorkMoves` covers the steps that move work (a new block, a registered
template), `TakeShare` the steps that take a share, `Verdict` those that end a
judgement and `FreshTemplate` the one that serves a template; the remaining
lemmas show each action to be one of these.

`FrontendProofs` proves what the runs check of the pool otherwise. Most of it
rests on one summary of a step, `StepMoves`: which shares under judgement, credits,
work and answers a step may touch, shown once for each action on top of `TypeOK`.

* `SharesFit` is inductive and contains `ClaimMatchesTemplate`,
  `BlockCreditsAreFound` and `CreditHeight` (`ClaimsMatch`, `BlocksAreFound`,
  `CreditsHaveHeight`): a proof of work under way names the extra nonce of the
  template in its header, a verdict stays with the share it was asked for, and what
  is credited as a block was made one by the wallet, on its own tip. That the
  template was served stays true (`ServedStays`). The template's tip and the header's
  previous block need not agree while the verdict is out: a late template is work
  of the next block.
* `KeepsLedger` is the refinement, `~WalletReissues => (Spec => LedgerSpec)`: each
  step of the frontend is, for every share, a step of `ShareLedger` or leaves it
  where it is. It needs `NoDoubleCredit`, by which the ledger sees a share counted
  at most once (`CountedOnce`).
* `AnswersMatchCredits` says what every answer to a share is worth, whatever the
  configuration: a step answers with success exactly when it sends a share that
  the solution check lets through, and a share that the check refuses is answered
  INVALID if it is sent. Only the native handler sends one (finding
  `refused_solution`). `AnswersAreHonest` is its corollary for `~EquihashCheck`:
  success is told exactly in the steps that send a share. The invariant
  behind both is that an answer under way is marked INVALID exactly for a share
  whose solution is refused, and never in a session (`MarkedIsRefused`).
* `RegistryHolds` proves `SocketsAreAlive` with `WalksAreValid`: a walk has lost its
  place in the registry only if the session it waits at is closed.
  `RegistryMoves` summarises a step for both: a closed session stays closed, a
  socket dies only with its record, and a walk stays where it is or goes on from
  a valid place. `OnlyVisitedBreaks` is the action property on the same summary.
* `BlocksAreNotLost` is `Spec => []TipReachesPool`, without an assumption on the
  order of answers and signals or on outages. `TipInvariant` adds that the last
  signal under way is the tip's and none outlives the link, and that the timer,
  while it waits for a block, takes the link to be down and holds nothing but the
  tip, unless that was overtaken. So whichever comes last, the signal or the fetched
  block, leaves the pool on the tip, and a fetch that fails is repeated; the two
  events of `overlooked` are the only ones after which neither need come. What
  `FollowTip` leaves to fairness is then only that signals are handled and the fetch
  once succeeds.

These invariants hold on the zmq, shares, registry and follow_tip instances,
where TLC checked them before they were proved.

`ReaderProofs` proves `LinesAreWhole` and `NoneDroppedWithoutReason` from the
inductive `ReaderInv`: the buffer up to `offset` and what is under way are the
consecutive positions from the first byte not yet handled, and that byte begins a
line. Finding the first newline then gives exactly the line's end, and the move
re-establishes it - by `MemcpyForward`, the only place it is needed. `BufferHolds`
(`ReaderTypeOK`) is proved without it: nothing is read or written beyond the
buffer, however memcpy copies.

`StatsProofs` proves `CountersAreExact` and `ReportCoversWindow` from `StatsInv`:
beside the counts, `Ages` bounds how long before the last shift a share of n
intervals back was pushed: more than n - 1 intervals and less than 2n. Each shift
adds its count to n and the time since the last shift to the age; both bounds
survive because `shiftCount` rounds that time down and is at least 1.
`RateHasBounds` counts with them: round i of updateStats adds the shares of the i-th
interval back (`SumsCount`), so the sum is the number of shares of the intervals
reported (`SumIsReported`), and the ages bound which these are.

`StatsTypes` says that nothing is written beyond the counters: `WriteInside` shows
that a write to a counter adds no place, and each round, the zero fill (of fewer than
`Interval` counters) and the count stay inside.

The counters rest on `ShiftMoves`: for every number of counters and every pause the
loop of shift() with its zero fill, or the memset, moves each counter up by the
intervals that ended and clears those it frees. The copy is in place, and it is
right because a round reads a counter that no earlier one has written
(`RoundMoves`). Both loops are recursive functions, of which the provers know only
that they are *some* function with the given equation, if there is one
(`CopyIsChosen`, `SumsAreChosen`). A function that fits the equation is given, and that
no other does is shown by the least round at which one would differ (`Least`, from the
well-foundedness of the naturals); so no induction theorem is needed.

`CodecProofs` proves `FieldsAreBytes`, `SameHeader` and `SameNonce` for every base
of a digit, length of a field and length of a text, from `CodecInv`: which job,
message and memory the fields of the notice and of the submit came from. A number
written by `GetHex` reads back by `SetHex` (`WrittenAndRead`); the text of a notice is
the dump of the number in memory (`NoticeIsMemory`), and its version that of the
literal (`SameVersion`); texts are read into the memory of time and nonce one after
the other (`MemoryRead`, `Fields`), so that a field and its text agree as far as both
go (`FieldHoldsText`, `AgreeByPlaces`); a solution without its size prefix has the
text without those digits (`RestOfText`); and a text is a dump exactly if it has only
digits and no half byte (`WholeBytes`, `AcceptedExactly`).

`EquihashProofs` proves `RowShapes` and `AcceptedAreDistinct` from `EquihashInv`:
the rows of round l have K + 1 - l segments and 2^l indices; together they hold
the indices of the solution; and within each row indices are distinct. The step is
a merge of two rows whose halves are compared by `DistinctIndices`. At the last
round there is one row, and its distinctness is that of the solution. Before
the rounds, `Expanded` says that the bits taken from the bytes are those of the
indices so far and `accBits` more, so that 2^K indices have been taken at the end.

With `VerdictInv` beside it, it proves `TailIsHeld`, `RowsStandForSubtrees` and
`VerdictIsExact`: `IsValidSolution` accepts exactly the solutions, for every
number of rounds, width, table of hashes and string of bytes. The invariant has
three layers.

* *Bits.* `Bit(x, n)` is the n-th bit. `BitLow`, `BitHigh`, `BitOfRest` and
  `BitOfQuotient` say where the bits of x * 2^b + y, x % 2^b and x \div 2^b are;
  `NextTail` follows a byte into the accumulator, past what is shifted out of its
  word; `BitsDetermine` makes an index the number with its bits (`IndexByBits`).
  `PowerSum` and `BitsDetermine` are inductions, done with the least
  counterexample (`Least`, from the well-foundedness of the naturals).
* *Subtrees.* The exclusive or over a set of positions has the bits that an odd
  number of them have; over two disjoint sets it is the exclusive or of both
  (`XorOfUnion`, by parity of cardinalities). So a merged row has the segments of
  its node (`XorOfNode`).
* *Verdict.* Every node below the rows collides (`TreeOK`): a pair that is good
  makes its node a collision, and the pairs of a solution are good
  (`GoodIsCollision`, `SolutionIsGood`), so a refused pair refutes the solution.
  At the last row all that is left of the definition is the last segment over
  all positions, which `IsZero` decides, and distinctness, from `EquihashInv`.

`TargetsProofs` proves the four properties of `Targets` for every width of a byte,
two to four bytes in a limb and at least two limbs (`WidthsAssumption`;
GetCompact reads the second limb). `TargetsInv` says which number each target was
computed from; the rest is arithmetic:

* `ShiftRightDivides` and `ShiftLeftMultiplies`: the shifts of limbs are a division
  and a multiplication by a power of two. Both come down to one fact about a window
  that spans two limbs (`TwoLimbs`), the left shift by s bits being a window
  LimbBits - s bits into the limb below.
* `LessIsSmaller`: the highest limb that differs decides. Of two different numbers
  the smaller one is less (`SmallerIsLess`, by the least place above which they
  agree), and two numbers cannot each be less than the other.
* `CompactValue`: the compact form is the number without what is below its three
  bytes, or below its two when the first had the sign bit.

`SignalsProofs` proves `NoSecondDelete`, `SubscribersAreTold` and `SignalTypes`
from `SignalsInv`. `Standing` places each socket: not listed and never deleted
before its handshake ends, listed while its peer is there, listed only while it
is not deleted. A send that reports a disconnection is one of a socket not
yet deleted (a deleted one's sends are canceled), so it counts from 0 to 1. `Owing`
says that during a loop a subscriber still without the signal stands at or
behind the loop's index; `Erasing` shows what an erase moves where, and that only
the next socket slips past. `Sends` has room for what the loop has yet to queue.

Two definitions are written so that they can be reasoned about: an index of the
definition is the number with its bits, not a sum over them, and
`stratumDumpHex` gives each digit by its place. TLC checks them in the same runs.

Model-checked only: liveness, which is out of the prover's reach (`FollowTip`,
`JobsFollowTip`, `NextBytesReleaseLine`, `GoneIsForgotten`, `RequestersCatchUp`).
Every invariant, every action property and the refinement that a passing run
checks are proved.

## 6. Not modelled, and the plan

Order of work:

1. done: the core, the reader, the codec, the ring of statistics, the targets,
   the Equihash verifier with the packing of its indices, the signals with the
   connect port and the shutdown.
2. the models have no further part the code would allow to model faithfully: what
   is left is listed below.
3. done: proofs of every safety property the passing runs check.
4. the liveness properties stay with TLC, for the reason in section 5.

Out of scope: configuration and logging (I/O), the wire format, the backend's
accounting (not in this repository), the vendored arithmetic beyond the
shifts, comparisons and conversions the pool calls, BLAKE2b, the Equihash solver
(never called), address checksums (the class is poolcore's), what handlers do with a
backend that was stopped, and a coroutine left on the deleted listening socket
(both are decided in poolcore and libp2p).
