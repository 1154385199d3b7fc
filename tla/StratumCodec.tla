---------------------------- MODULE StratumCodec ----------------------------
(***************************************************************************)
(* The header of a share on its way through text: the pool writes a job in *)
(* hexadecimal (mining.notify), the miner puts the header together from it *)
(* and answers with its own fields (mining.submit), the pool decodes these *)
(* and builds the header again from its copy of the job, and offers the    *)
(* nonce of a block to the wallet, in hexadecimal once more.               *)
(*                                                                         *)
(* Text is a sequence of digits below Base, a digit whatever its case, and *)
(* of NotDigit.  A byte is two digits; a number of the code is the         *)
(* sequence of its bytes in memory, the lowest first.                      *)
(***************************************************************************)
EXTENDS Integers, SequencesExt

CONSTANTS
  Base,        \* 16
  Decimals,    \* the digits below this one are decimal: 10
  NotDigit,    \* any other character
  HashBytes,   \* of a uint256: 32
  WordBytes,   \* of version, time and bits: 4
  VersionDigit,\* 4
  NonceBytes,  \* of the nonce a miner may choose: 28
  SkipBytes,   \* of the solution, the size written before it: 3
  Jobs,        \* [hash, merkle, reserved, time, bits], in bytes
  Messages,    \* what miners send
  Leftovers    \* what msg.submit.time and the array behind it may hold before

Byte == 0..(Base * Base - 1)
Number(size) == [1..size -> Byte]
ZeroBytes == HashBytes - NonceBytes   \* "hi 32 bits always 0"

ASSUME WidthsAssumption ==
  /\ Base \in Nat \ {0, 1} /\ NotDigit \notin Nat
  /\ Decimals \in 1..Base /\ VersionDigit \in 0..(Base - 1)
  /\ {HashBytes, WordBytes, NonceBytes} \subseteq Nat \ {0} /\ SkipBytes \in Nat
  /\ NonceBytes <= HashBytes
ASSUME JobsAssumption ==
  Jobs \subseteq [hash : Number(HashBytes), merkle : Number(HashBytes),
                  reserved : Number(HashBytes),
                  time : Number(WordBytes), bits : Number(WordBytes)]
\* struct StratumSubmit: unsigned time, uint8_t nonce[32], one behind the other.
ASSUME LeftoversAssumption == Leftovers \subseteq Number(WordBytes + HashBytes)

\* A JSON value as far as the decoder looks at it.
String(text) == [type |-> "string", text |-> text]
Null == [type |-> "null", text |-> <<>>]
Integer == [type |-> "integer", text |-> <<>>]
Other == [type |-> "other", text |-> <<>>]

Text == Seq(0..(Base - 1) \cup {NotDigit})
ASSUME TextsAssumption ==
  \A msg \in Messages :
    msg.params # "no array" =>
      msg.params \in Seq([type : {"string", "null", "integer", "other"}, text : Text])

VARIABLES
  stage,    \* "idle", "notified", "decoded", "checked", "offered"; "undefined"
  job,      \* mCurrBlock and the StratumTask of the job
  notice,   \* the text of mining.notify
  message,  \* the line received
  status,   \* what decodeStratumMessage returned
  submit,   \* msg.submit
  header,   \* the header the pool hashes, with the solution
  claim     \* the nonce sent to the wallet

vars == <<stage, job, notice, message, status, submit, header, claim>>

Nothing == [empty |-> TRUE]
Init ==
  /\ stage = "idle" /\ job \in Jobs
  /\ notice = Nothing /\ message = Nothing /\ status = "Ok"
  /\ submit = Nothing /\ header = Nothing /\ claim = <<>>

-----------------------------------------------------------------------------
\* Bytes and text

ByteAt(text, n) == text[2 * n - 1] * Base + text[2 * n]

\* stratumDumpHex: the lowest byte first, its high digit first
stratumDumpHex(number) ==
  [c \in 1..(2 * Len(number)) |->
     IF c % 2 = 1 THEN number[(c + 1) \div 2] \div Base ELSE number[c \div 2] % Base]

\* uint256::GetHex: the highest byte first
GetHex(number) == stratumDumpHex(Reverse(number))

\* stratumLittleEndianHex: pairs of characters from the end
ReversedText(in) == Reverse(in)   \* mutant: the two digits change places too
stratumLittleEndianHex(in) ==
  [c \in 1..(2 * (Len(in) \div 2)) |->
     IF c % 2 = 1 THEN in[Len(in) - c] ELSE in[Len(in) - c + 2]]

\* uint256::SetHex: the digits the text begins with, read from their end
FromTheFront(psz) ==   \* mutant: the first digits are the lowest byte
  [n \in 1..HashBytes |->
     IF 2 * n <= Len(psz) THEN ByteAt(psz, n) ELSE 0]
SetHex(psz) ==
  LET digits == SelectInSeq(psz, LAMBDA c : c = NotDigit)
      length == IF digits = 0 THEN Len(psz) ELSE digits - 1
      Digit(place) == IF place > 0 THEN psz[place] ELSE 0
  IN [n \in 1..HashBytes |->
        Digit(length - 2 * n + 2) + Base * Digit(length - 2 * n + 1)]

\* readHex: fails at a character that is no digit and at half a byte
OddIsRead(in) == \A c \in DOMAIN in : in[c] # NotDigit   \* mutant: half a byte is dropped
IsHex(in) == (\A c \in DOMAIN in : in[c] # NotDigit) /\ Len(in) % 2 = 0
BytesOf(in) == [n \in 1..(Len(in) \div 2) |-> ByteAt(in, n)]

\* readHex into memory, from a place on: what the text does not reach keeps
\* what was there.  The size of the field, its third parameter, is not used.
ReadInto(in, memory, place) ==
  [n \in DOMAIN memory |->
     IF n > place /\ 2 * (n - place) <= Len(in) THEN ByteAt(in, n - place) ELSE memory[n]]

\* The bytes readHex writes before it fails or gets to the end.
Written(in) ==
  LET digits == SelectInSeq(in, LAMBDA c : c = NotDigit)
  IN (IF digits = 0 THEN Len(in) ELSE digits - 1) \div 2

-----------------------------------------------------------------------------
\* decodeStratumMessage

IsText(param) == param.type \in {"string", "null"}   \* decodeAsString
IsInteger(param) ==                                  \* decodeAsInteger
  \/ param.type = "integer"
  \/ param.type = "string" /\ param.text # <<>> /\ param.text[1] \in 0..(Decimals - 1)

Decodes(msg, method, params) ==
  /\ msg.id = "integer" /\ msg.method = method
  /\ msg.params # "no array" /\ Len(msg.params) >= params

DecodesSubscribe(msg) ==
  /\ Decodes(msg, "mining.subscribe", 4)
  /\ \A n \in 1..3 : IsText(msg.params[n])
  /\ IsInteger(msg.params[4])
DecodesAuthorize(msg) == Decodes(msg, "mining.authorize", 1) /\ IsText(msg.params[1])
DecodesExtraNonce(msg) == Decodes(msg, "mining.extranonce.subscribe", 0)
SubmitsTexts(msg) ==
  Decodes(msg, "mining.submit", 5) /\ \A n \in 1..5 : IsText(msg.params[n])
DecodesSubmit(msg) == SubmitsTexts(msg) /\ \A n \in 3..5 : IsHex(msg.params[n].text)

StatusOf(msg) ==
  IF msg.json = FALSE THEN "JsonError"
  ELSE IF \/ DecodesSubscribe(msg) \/ DecodesAuthorize(msg)
          \/ DecodesExtraNonce(msg) \/ DecodesSubmit(msg)
       THEN "Ok" ELSE "FormatError"

\* msg.submit, a variable of the loop that nothing initialises.  The text of
\* the nonce is read over what a long text of the time left there.
Submit(msg, memory) ==
  LET read == ReadInto(msg.params[4].text, ReadInto(msg.params[3].text, memory, 0), WordBytes)
  IN [time |-> SubSeq(read, 1, WordBytes),
      nonce |-> SubSeq(read, WordBytes + 1, WordBytes + NonceBytes),
      equihashSolution |-> BytesOf(msg.params[5].text)]

\* A text that is written past the end of the array.
Overruns(msg) ==
  /\ msg.json /\ SubmitsTexts(msg)
  /\ \/ Written(msg.params[3].text) > WordBytes + HashBytes
     \/ IsHex(msg.params[3].text) /\ Written(msg.params[4].text) > HashBytes

-----------------------------------------------------------------------------
\* stratumSendNewWork; the version is a literal, "04000000".
VersionText == [c \in 1..(2 * WordBytes) |-> IF c = 2 THEN VersionDigit ELSE 0]
Notify ==
  /\ stage = "idle"
  /\ stage' = "notified"
  /\ notice' = [prevHash |-> stratumLittleEndianHex(GetHex(job.hash)),
                merkleroot |-> stratumLittleEndianHex(GetHex(job.merkle)),
                reserved |-> stratumLittleEndianHex(GetHex(job.reserved)),
                time |-> stratumDumpHex(job.time),
                bits |-> stratumDumpHex(job.bits),
                version |-> VersionText]
  /\ UNCHANGED <<job, message, status, submit, header, claim>>

\* A line arrives and is decoded.
Decode(msg, memory) ==
  /\ stage = "notified" /\ ~Overruns(msg)
  /\ stage' = "decoded"
  /\ message' = msg /\ status' = StatusOf(msg)
  /\ submit' = IF StatusOf(msg) = "Ok" /\ msg.method = "mining.submit"
               THEN Submit(msg, memory) ELSE Nothing
  /\ UNCHANGED <<job, notice, header, claim>>

\* What becomes of the process after a write past the array, C++ does not say.
Overrun(msg) ==
  /\ stage = "notified" /\ Overruns(msg)
  /\ stage' = "undefined" /\ message' = msg
  /\ UNCHANGED <<job, notice, status, submit, header, claim>>
Undefined == stage = "undefined" /\ UNCHANGED vars

\* stratumCheckShare
CURRENT_VERSION == [n \in 1..WordBytes |-> IF n = 1 THEN VersionDigit ELSE 0]
ShortSolution == Len(submit.equihashSolution) < SkipBytes + 1
NonceFirst == submit.nonce \o [n \in 1..ZeroBytes |-> 0]   \* mutant: zeros last
Nonce == [n \in 1..ZeroBytes |-> 0] \o submit.nonce
CheckShare ==
  /\ stage = "decoded" /\ submit # Nothing /\ ~ShortSolution
  /\ stage' = "checked"
  /\ header' = [nVersion |-> CURRENT_VERSION,
                hashPrevBlock |-> SetHex(GetHex(job.hash)),
                hashMerkleRoot |-> SetHex(GetHex(job.merkle)),
                hashReserved |-> SetHex(GetHex(job.reserved)),
                nTime |-> submit.time,
                nBits |-> job.bits,
                nNonce |-> Nonce,
                solution |-> SubSeq(submit.equihashSolution, SkipBytes + 1,
                                    Len(submit.equihashSolution))]
  /\ UNCHANGED <<job, notice, message, status, submit, claim>>

\* ioSendProofOfWork
OfferBlock ==
  /\ stage = "checked"
  /\ stage' = "offered"
  /\ claim' = GetHex(header.nNonce)
  /\ UNCHANGED <<job, notice, message, status, submit, header>>

\* The handler returns.
Answer ==
  /\ stage \in {"decoded", "checked", "offered"}
  /\ stage = "decoded" => (submit # Nothing => ShortSolution)
  /\ stage' = "notified"
  /\ message' = Nothing /\ status' = "Ok" /\ submit' = Nothing
  /\ header' = Nothing /\ claim' = <<>>
  /\ UNCHANGED <<job, notice>>

Next ==
  \/ Notify
  \/ \E msg \in Messages, memory \in Leftovers : Decode(msg, memory)
  \/ \E msg \in Messages : Overrun(msg)
  \/ Undefined
  \/ CheckShare
  \/ OfferBlock
  \/ Answer

Spec == Init /\ [][Next]_vars
=============================================================================
