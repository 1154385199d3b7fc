----------------------- MODULE StratumCodecProperties -----------------------
(***************************************************************************)
(* What the texts of a share promise, whatever the miner sends.            *)
(***************************************************************************)
EXTENDS StratumCodec

\* The texts that stratumDumpHex writes.
IsDump(text) ==
  text \in Seq(0..(Base - 1)) /\ stratumDumpHex(BytesOf(text)) = text

\* Type invariant.  The status is Ok for a submission exactly if its five
\* parameters are texts and the last three are what stratumDumpHex writes of
\* some bytes; then, and for no other line, there are fields, and these are
\* bytes, however long the texts.  After a write past nonce[32] nothing is said.
\* stratum.cpp:43-100, 152-160.
CodecTypeOK ==
  /\ stage \in {"idle", "notified", "decoded", "checked", "offered", "undefined"}
  /\ job \in Jobs /\ message \in Messages \cup {Nothing}
  /\ status \in {"Ok", "JsonError", "FormatError"}
  /\ stage = "decoded" /\ message.json /\ Decodes(message, "mining.submit", 5) =>
       (status = "Ok" <=> /\ \A n \in 1..5 : IsText(message.params[n])
                          /\ \A n \in 3..5 : IsDump(message.params[n].text))
  /\ stage = "decoded" =>
       (submit # Nothing <=> status = "Ok" /\ message.method = "mining.submit")
  /\ submit # Nothing =>
       /\ submit.time \in Number(WordBytes) /\ submit.nonce \in Number(NonceBytes)
       /\ submit.equihashSolution \in Seq(Byte)
  /\ header # Nothing => header.nNonce \in Number(HashBytes)

\* One text goes on where the other ends.
Agree(one, other) == IsPrefix(one, other) \/ IsPrefix(other, one)

\* The header the miner reads out of the notice and its own submission, byte by
\* byte in the order of the text, is the one the pool builds from numbers: a
\* share is judged by the hash its miner found.  The text of time or nonce may be
\* shorter than the field, whose last bytes are then not the miner's, or longer.
\* stratum.cpp:174, zcashpool.cpp:333-345, 532-546.
MinerAndPoolAgree ==
  header # Nothing =>
    LET text(n) == message.params[n].text
        Digits(field) == stratumDumpHex(field)
    IN /\ Digits(header.nVersion) = notice.version
       /\ Digits(header.hashPrevBlock) = notice.prevHash
       /\ Digits(header.hashMerkleRoot) = notice.merkleroot
       /\ Digits(header.hashReserved) = notice.reserved
       /\ Digits(header.nBits) = notice.bits
       /\ Agree(text(3), Digits(header.nTime))
       /\ Agree([d \in 1..(2 * ZeroBytes) |-> 0] \o text(4), Digits(header.nNonce))
       /\ Digits(header.solution)
            = SubSeq(text(5), 2 * SkipBytes + 1, Len(text(5)))

\* The wallet reads the nonce the share was judged with.  uint256.h:298, 306.
WalletGetsNonce == stage = "offered" => SetHex(claim) = header.nNonce
=============================================================================
