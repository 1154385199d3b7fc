----------------------------- MODULE CodecProofs -----------------------------
(***************************************************************************)
(* The texts of a share for every base, width of the fields, job and line  *)
(* a miner may send.                                                       *)
(*                                                                         *)
(* Writing a number and reading it again gives the number; the text of a   *)
(* notice is the text of the number it stands for; what readHex leaves of  *)
(* a text is written as that text.  The invariant says which text and      *)
(* which memory the fields came from.                                      *)
(***************************************************************************)
EXTENDS StratumCodecProperties, SequenceTheorems, TLAPS

Digit == 0..(Base - 1)
IsDigits(text) == text \in Seq(Digit)

\* What stratumSendNewWork makes of a job, stratumCheckShare of a submission.
NoticeOf(work) ==
  [prevHash |-> stratumLittleEndianHex(GetHex(work.hash)),
   merkleroot |-> stratumLittleEndianHex(GetHex(work.merkle)),
   reserved |-> stratumLittleEndianHex(GetHex(work.reserved)),
   time |-> stratumDumpHex(work.time),
   bits |-> stratumDumpHex(work.bits),
   version |-> VersionText]
Judged(work, fields) ==
  [nVersion |-> CURRENT_VERSION,
   hashPrevBlock |-> SetHex(GetHex(work.hash)),
   hashMerkleRoot |-> SetHex(GetHex(work.merkle)),
   hashReserved |-> SetHex(GetHex(work.reserved)),
   nTime |-> fields.time,
   nBits |-> work.bits,
   nNonce |-> [n \in 1..ZeroBytes |-> 0] \o fields.nonce,
   solution |-> SubSeq(fields.equihashSolution, SkipBytes + 1,
                       Len(fields.equihashSolution))]

\* Where the variables of a handler come from, at each stage.
CodecInv ==
  /\ stage \in {"idle", "notified", "decoded", "checked", "offered", "undefined"}
  /\ job \in Jobs
  /\ stage # "idle" => notice = NoticeOf(job)
  /\ IF stage \in {"decoded", "checked", "offered"}
     THEN /\ message \in Messages /\ status = StatusOf(message)
          /\ submit # Nothing <=> status = "Ok" /\ message.method = "mining.submit"
     ELSE message \in Messages \cup {Nothing} /\ status = "Ok" /\ submit = Nothing
  /\ submit # Nothing =>
       /\ DecodesSubmit(message)
       /\ \E memory \in Leftovers : submit = Submit(message, memory)
  /\ IF stage \in {"checked", "offered"}
     THEN submit # Nothing /\ ~ShortSolution /\ header = Judged(job, submit)
     ELSE header = Nothing
  /\ stage = "offered" => claim = GetHex(header.nNonce)

-----------------------------------------------------------------------------
\* Bytes and digits

\* Two digits are the byte they were written for.
LEMMA TwoDigits ==
  ASSUME NEW hi \in Digit, NEW lo \in Digit
  PROVE  /\ hi * Base + lo \in Byte
         /\ (hi * Base + lo) \div Base = hi
         /\ (hi * Base + lo) % Base = lo
<1> DEFINE b == Base
           x == hi * b + lo
           q == x \div b
           r == x % b
<1>1. b \in Nat \ {0} /\ hi \in 0..(b - 1) /\ lo \in 0..(b - 1)
  BY WidthsAssumption DEF Digit
<1>2. hi * b \in Nat /\ x \in Nat
  BY <1>1
<1>3. q \in Nat /\ r \in 0..(b - 1) /\ x = b * q + r
  <2> HIDE DEF x
  <2> QED BY <1>1, <1>2
<1> HIDE DEF b
<1>4. q = hi
  <2> HIDE DEF q, r
  <2>1. ASSUME q > hi PROVE FALSE
    <3>1. PICK d \in Nat : q = hi + 1 + d
      <4>1. q - hi - 1 \in Nat
        BY <1>1, <1>3, <2>1
      <4> QED BY <1>1, <1>3, <4>1
    <3>2. b * q = hi * b + b + d * b
      BY <1>1, <3>1
    <3>3. d * b \in Nat
      BY <1>1
    <3> QED BY <1>1, <1>2, <1>3, <3>2, <3>3 DEF x
  <2>2. ASSUME q < hi PROVE FALSE
    <3>1. PICK d \in Nat : hi = q + 1 + d
      <4>1. hi - q - 1 \in Nat
        BY <1>1, <1>3, <2>2
      <4> QED BY <1>1, <1>3, <4>1
    <3>2. hi * b = b * q + b + d * b
      BY <1>1, <1>3, <3>1
    <3>3. d * b \in Nat /\ b * q \in Nat
      BY <1>1, <1>3
    <3> QED BY <1>1, <1>2, <1>3, <3>2, <3>3 DEF x
  <2> QED BY <1>1, <1>3, <2>1, <2>2
<1>5. r = lo
  <2>1. b * q = hi * b
    BY <1>1, <1>4
  <2> HIDE DEF q, r
  <2> QED BY <1>1, <1>2, <1>3, <2>1 DEF x
<1>6. x \in 0..(b * b - 1)
  <2>1. PICK d \in Nat : b = hi + 1 + d
    <3>1. b - hi - 1 \in Nat
      BY <1>1
    <3> QED BY <1>1, <3>1
  <2>2. b * b = hi * b + b + d * b
    BY <1>1, <2>1
  <2>3. d * b \in Nat /\ b * b \in Nat
    BY <1>1
  <2> QED BY <1>1, <1>2, <2>2, <2>3 DEF x
<1> QED BY <1>4, <1>5, <1>6 DEF Byte, b

\* A byte is written with two digits that read as the byte.
LEMMA ByteIsTwoDigits ==
  ASSUME NEW byte \in Byte
  PROVE  /\ byte \div Base \in Digit /\ byte % Base \in Digit
         /\ byte = (byte \div Base) * Base + (byte % Base)
<1> DEFINE b == Base
           q == byte \div b
           r == byte % b
<1>1. b \in Nat \ {0} /\ byte \in 0..(b * b - 1)
  BY WidthsAssumption DEF Byte
<1>2. byte \in Nat /\ b * b \in Nat /\ byte < b * b
  BY <1>1
<1>3. q \in Nat /\ r \in 0..(b - 1) /\ byte = b * q + r
  BY <1>1, <1>2
<1> HIDE DEF b, q, r
<1>4. q < b
  <2> SUFFICES ASSUME q >= b PROVE FALSE
    BY <1>1, <1>3
  <2>1. PICK d \in Nat : q = b + d
    <3>1. q - b \in Nat
      BY <1>1, <1>3
    <3> QED BY <1>1, <1>3, <3>1
  <2>2. b * q = b * b + b * d /\ b * d \in Nat
    BY <1>1, <2>1
  <2> QED BY <1>1, <1>2, <1>3, <2>2
<1>5. b * q = q * b
  BY <1>1, <1>3
<1> QED BY <1>1, <1>3, <1>4, <1>5 DEF Digit, b, q, r

-----------------------------------------------------------------------------
\* Numbers and texts

\* The text of a number: two digits for each byte, in order.
LEMMA Dumped ==
  ASSUME NEW size \in Nat, NEW number \in Number(size)
  PROVE  /\ IsDigits(stratumDumpHex(number))
         /\ Len(stratumDumpHex(number)) = 2 * size
         /\ \A n \in 1..size :
              /\ stratumDumpHex(number)[2 * n - 1] = number[n] \div Base
              /\ stratumDumpHex(number)[2 * n] = number[n] % Base
<1>1. Len(number) = size /\ \A n \in 1..size : number[n] \in Byte
  BY DEF Number
<1> DEFINE text == stratumDumpHex(number)
<1>2. text = [c \in 1..(2 * size) |->
                IF c % 2 = 1 THEN number[(c + 1) \div 2] \div Base
                             ELSE number[c \div 2] % Base]
  BY <1>1 DEF stratumDumpHex
<1>3. \A c \in 1..(2 * size) :
        /\ c % 2 = 1 => (c + 1) \div 2 \in 1..size
        /\ c % 2 # 1 => c \div 2 \in 1..size
  OBVIOUS
<1> HIDE DEF text
<1>4. ASSUME NEW c \in 1..(2 * size) PROVE text[c] \in Digit
  <2>1. CASE c % 2 = 1
    BY <1>1, <1>2, <1>3, <2>1, ByteIsTwoDigits
  <2>2. CASE c % 2 # 1
    BY <1>1, <1>2, <1>3, <2>2, ByteIsTwoDigits
  <2> QED BY <2>1, <2>2
<1>5. text \in [1..(2 * size) -> Digit]
  BY <1>2, <1>4
<1>6. text \in Seq(Digit) /\ Len(text) = 2 * size
  BY <1>5
<1>7. ASSUME NEW n \in 1..size
      PROVE  text[2 * n - 1] = number[n] \div Base /\ text[2 * n] = number[n] % Base
  <2>1. /\ 2 * n - 1 \in 1..(2 * size) /\ (2 * n - 1) % 2 = 1
        /\ ((2 * n - 1) + 1) \div 2 = n
        /\ 2 * n \in 1..(2 * size) /\ (2 * n) % 2 # 1 /\ (2 * n) \div 2 = n
    OBVIOUS
  <2> QED BY <1>2, <2>1
<1> QED BY <1>6, <1>7 DEF IsDigits, text

\* The other way round, the highest byte first.
LEMMA Hex ==
  ASSUME NEW size \in Nat, NEW number \in Number(size)
  PROVE  /\ IsDigits(GetHex(number))
         /\ Len(GetHex(number)) = 2 * size
         /\ \A n \in 1..size :
              /\ GetHex(number)[2 * (size - n + 1) - 1] = number[n] \div Base
              /\ GetHex(number)[2 * (size - n + 1)] = number[n] % Base
<1>1. Len(number) = size
  BY DEF Number
<1>2. Reverse(number) = [n \in 1..size |-> number[(size - n) + 1]]
  BY <1>1 DEF Reverse
<1>3. Reverse(number) \in Number(size)
  <2>1. \A n \in 1..size : (size - n) + 1 \in 1..size
    OBVIOUS
  <2> QED BY <1>2, <2>1 DEF Number
<1>4. /\ IsDigits(GetHex(number)) /\ Len(GetHex(number)) = 2 * size
      /\ \A n \in 1..size :
           /\ GetHex(number)[2 * n - 1] = Reverse(number)[n] \div Base
           /\ GetHex(number)[2 * n] = Reverse(number)[n] % Base
  BY <1>3, Dumped DEF GetHex
<1>5. ASSUME NEW n \in 1..size
      PROVE  /\ size - n + 1 \in 1..size
             /\ Reverse(number)[size - n + 1] = number[n]
  <2>1. size - n + 1 \in 1..size /\ (size - (size - n + 1)) + 1 = n
    OBVIOUS
  <2> QED BY <1>2, <2>1
<1> QED BY <1>4, <1>5

\* A number that is written and read again is the number: the wallet gets the
\* nonce, the pool its own hashes.
LEMMA WrittenAndRead ==
  ASSUME NEW number \in Number(HashBytes)
  PROVE  SetHex(GetHex(number)) = number
<1> DEFINE text == GetHex(number)
           size == HashBytes
<1>1. size \in Nat \ {0}
  BY WidthsAssumption
<1>2. /\ text \in Seq(Digit) /\ Len(text) = 2 * size
      /\ \A n \in 1..size :
           /\ text[2 * (size - n + 1) - 1] = number[n] \div Base
           /\ text[2 * (size - n + 1)] = number[n] % Base
  BY <1>1, Hex DEF IsDigits
<1> HIDE DEF text
<1>3. SelectInSeq(text, LAMBDA c : c = NotDigit) = 0
  <2>1. \A c \in 1..Len(text) : text[c] # NotDigit
    <3>1. \A c \in 1..Len(text) : text[c] \in Digit
      BY <1>2
    <3>2. NotDigit \notin Digit
      BY WidthsAssumption DEF Digit
    <3> QED BY <3>1, <3>2
  <2> QED BY <2>1 DEF SelectInSeq
<1>4. SetHex(text) =
        [n \in 1..size |->
           (IF 2 * size - 2 * n + 2 > 0 THEN text[2 * size - 2 * n + 2] ELSE 0)
           + Base * (IF 2 * size - 2 * n + 1 > 0 THEN text[2 * size - 2 * n + 1] ELSE 0)]
  BY <1>2, <1>3 DEF SetHex
<1>5. ASSUME NEW n \in 1..size PROVE SetHex(text)[n] = number[n]
  <2>1. /\ 2 * size - 2 * n + 2 > 0 /\ 2 * size - 2 * n + 1 > 0
        /\ 2 * size - 2 * n + 2 = 2 * (size - n + 1)
        /\ 2 * size - 2 * n + 1 = 2 * (size - n + 1) - 1
    BY <1>1
  <2>2. SetHex(text)[n] = (number[n] % Base) + Base * (number[n] \div Base)
    BY <1>2, <1>4, <2>1
  <2>3. number[n] \in Byte
    BY DEF Number
  <2>4. /\ number[n] \div Base \in Int /\ number[n] % Base \in Int
        /\ number[n] = (number[n] \div Base) * Base + (number[n] % Base)
        /\ Base \in Int
    BY <2>3, ByteIsTwoDigits, WidthsAssumption DEF Digit
  <2> DEFINE hi == number[n] \div Base
             lo == number[n] % Base
  <2> HIDE DEF hi, lo
  <2>5. lo + Base * hi = hi * Base + lo
    BY <2>4 DEF hi, lo
  <2> QED BY <2>2, <2>4, <2>5 DEF hi, lo
<1>6. number = [n \in 1..size |-> number[n]]
  BY DEF Number
<1> QED BY <1>4, <1>5, <1>6 DEF text

\* What the notice says of a hash is the hash, byte by byte in memory.
LEMMA NoticeIsMemory ==
  ASSUME NEW size \in Nat, NEW number \in Number(size)
  PROVE  stratumLittleEndianHex(GetHex(number)) = stratumDumpHex(number)
<1> DEFINE text == GetHex(number)
           dump == stratumDumpHex(number)
<1>1. /\ text \in Seq(Digit) /\ Len(text) = 2 * size
      /\ \A n \in 1..size :
           /\ text[2 * (size - n + 1) - 1] = number[n] \div Base
           /\ text[2 * (size - n + 1)] = number[n] % Base
  BY Hex DEF IsDigits
<1>2. /\ dump \in Seq(Digit) /\ Len(dump) = 2 * size
      /\ \A n \in 1..size :
           /\ dump[2 * n - 1] = number[n] \div Base
           /\ dump[2 * n] = number[n] % Base
  BY Dumped DEF IsDigits
<1> HIDE DEF text, dump
<1>3. (2 * size) \div 2 = size
  OBVIOUS
<1>4. stratumLittleEndianHex(text) =
        [c \in 1..(2 * size) |->
           IF c % 2 = 1 THEN text[2 * size - c] ELSE text[2 * size - c + 2]]
  BY <1>1, <1>3 DEF stratumLittleEndianHex
<1>5. ASSUME NEW c \in 1..(2 * size)
      PROVE  stratumLittleEndianHex(text)[c] = dump[c]
  <2>1. CASE c % 2 = 1
    <3>1. PICK n \in 1..size : c = 2 * n - 1
      <4>1. (c + 1) \div 2 \in 1..size /\ c = 2 * ((c + 1) \div 2) - 1
        BY <2>1
      <4> QED BY <4>1
    <3>2. 2 * size - c = 2 * (size - n + 1) - 1
      BY <3>1
    <3> QED BY <1>1, <1>2, <1>4, <2>1, <3>1, <3>2
  <2>2. CASE c % 2 # 1
    <3>1. PICK n \in 1..size : c = 2 * n
      <4>1. c \div 2 \in 1..size /\ c = 2 * (c \div 2)
        BY <2>2
      <4> QED BY <4>1
    <3>2. 2 * size - c + 2 = 2 * (size - n + 1)
      BY <3>1
    <3> QED BY <1>1, <1>2, <1>4, <2>2, <3>1, <3>2
  <2> QED BY <2>1, <2>2
<1>6. dump = [c \in 1..(2 * size) |-> dump[c]]
  BY <1>2
<1> QED BY <1>4, <1>5, <1>6 DEF text, dump

\* Functions are equal if they are at every place.
LEMMA SamePlaces ==
  ASSUME NEW D, NEW S, NEW f \in [D -> S], NEW g \in [D -> S],
         \A d \in D : f[d] = g[d]
  PROVE  f = g
OBVIOUS

\* A part of a sequence, place by place.
LEMMA Part ==
  ASSUME NEW S, NEW s \in Seq(S), NEW k \in Nat, NEW n \in Nat,
         k <= n, n <= Len(s)
  PROVE  /\ SubSeq(s, k + 1, n) \in [1..(n - k) -> S]
         /\ \A i \in 1..(n - k) : SubSeq(s, k + 1, n)[i] = s[k + i]
<1>1. \A i \in (k + 1)..n : s[i] \in S
  OBVIOUS
<1> DEFINE u == SubSeq(s, k + 1, n)
<1>2. /\ u \in Seq(S)
      /\ Len(u) = IF k + 1 <= n THEN n - (k + 1) + 1 ELSE 0
      /\ \A i \in 1..(n - (k + 1) + 1) : u[i] = s[(k + 1) + i - 1]
  BY <1>1, SubSeqProperties
<1> HIDE DEF u
<1>3. Len(u) = n - k
  BY <1>2
<1>4. u \in [1..(n - k) -> S]
  BY <1>2, <1>3, LenProperties
<1>5. ASSUME NEW i \in 1..(n - k) PROVE u[i] = s[k + i]
  <2>1. i \in 1..(n - (k + 1) + 1) /\ (k + 1) + i - 1 = k + i
    OBVIOUS
  <2> QED BY <1>2, <2>1
<1> QED BY <1>4, <1>5 DEF u

\* The front of a sequence, place by place.
LEMMA Beginning ==
  ASSUME NEW S, NEW s \in Seq(S), NEW n \in Nat, n <= Len(s)
  PROVE  /\ SubSeq(s, 1, n) \in [1..n -> S]
         /\ \A i \in 1..n : SubSeq(s, 1, n)[i] = s[i]
<1>1. \A i \in 1..n : s[i] \in S
  OBVIOUS
<1> DEFINE u == SubSeq(s, 1, n)
<1>2. /\ u \in Seq(S)
      /\ Len(u) = IF 1 <= n THEN n - 1 + 1 ELSE 0
      /\ \A i \in 1..(n - 1 + 1) : u[i] = s[1 + i - 1]
  BY <1>1, SubSeqProperties
<1> HIDE DEF u
<1>3. Len(u) = n /\ n - 1 + 1 = n
  BY <1>2
<1>4. u \in [1..n -> S]
  BY <1>2, <1>3, LenProperties
<1>5. \A i \in 1..n : u[i] = s[i]
  <2>1. \A i \in 1..n : 1 + i - 1 = i
    OBVIOUS
  <2> QED BY <1>2, <1>3, <2>1
<1> QED BY <1>4, <1>5 DEF u

\* A sequence behind another, place by place.
LEMMA Behind ==
  ASSUME NEW S, NEW s \in Seq(S), NEW t \in Seq(S), NEW n, n = Len(s)
  PROVE  /\ s \o t \in Seq(S) /\ Len(s \o t) = n + Len(t)
         /\ \A i \in 1..n : (s \o t)[i] = s[i]
         /\ \A i \in 1..Len(t) : (s \o t)[n + i] = t[i]
<1> DEFINE u == s \o t
<1>1. n \in Nat /\ Len(t) \in Nat
  BY LenProperties
<1>2. /\ u \in Seq(S) /\ Len(u) = n + Len(t)
      /\ \A i \in 1..(n + Len(t)) : u[i] = IF i <= n THEN s[i] ELSE t[i - n]
  BY ConcatProperties
<1> HIDE DEF u
<1>3. \A i \in 1..n : u[i] = s[i]
  BY <1>1, <1>2
<1>4. ASSUME NEW i \in 1..Len(t) PROVE u[n + i] = t[i]
  <2>1. n + i \in 1..(n + Len(t)) /\ ~(n + i <= n) /\ (n + i) - n = i
    BY <1>1
  <2> QED BY <1>2, <2>1
<1> QED BY <1>2, <1>3, <1>4 DEF u

\* A prefix, place by place.
LEMMA PrefixByPlaces ==
  ASSUME NEW S, NEW s \in Seq(S), NEW t \in Seq(S),
         Len(s) <= Len(t), \A k \in 1..Len(s) : s[k] = t[k]
  PROVE  IsPrefix(s, t)
<1> DEFINE n == Len(s)
           u == SubSeq(t, 1, n)
<1>1. n \in Nat /\ Len(t) \in Nat /\ s \in [1..n -> S]
  BY LenProperties
<1>2. SubSeq(s, 1, n) = s
  BY SubSeqFull
<1>3. u \in [1..n -> S] /\ \A k \in 1..n : u[k] = t[k]
  <2>1. 0 + 1 = 1 /\ n - 0 = n /\ \A i \in 1..n : 0 + i = i
    BY <1>1
  <2> HIDE DEF n
  <2>2. n <= Len(t) /\ 0 \in Nat /\ 0 <= n
    BY <1>1 DEF n
  <2>3. /\ SubSeq(t, 0 + 1, n) \in [1..(n - 0) -> S]
        /\ \A i \in 1..(n - 0) : SubSeq(t, 0 + 1, n)[i] = t[0 + i]
    BY <1>1, <2>2, Part
  <2> QED BY <2>1, <2>3
<1>4. u = s
  <2> HIDE DEF u, n
  <2>1. \A k \in 1..n : u[k] = s[k]
    BY <1>3 DEF n
  <2> QED BY <1>1, <1>3, <2>1
<1> QED BY <1>2, <1>4 DEF IsPrefix

\* Two texts that are the same as far as both go.
LEMMA AgreeByPlaces ==
  ASSUME NEW S, NEW s \in Seq(S), NEW t \in Seq(S),
         \A k \in 1..Len(s) : k <= Len(t) => s[k] = t[k]
  PROVE  Agree(s, t)
<1>1. Len(s) \in Nat /\ Len(t) \in Nat
  BY LenProperties
<1>2. CASE Len(s) <= Len(t)
  <2>1. \A k \in 1..Len(s) : s[k] = t[k]
    BY <1>1, <1>2
  <2>2. IsPrefix(s, t)
    BY <1>2, <2>1, PrefixByPlaces
  <2> QED BY <2>2 DEF Agree
<1>3. CASE Len(t) <= Len(s)
  <2>1. \A k \in 1..Len(t) : t[k] = s[k]
    BY <1>1, <1>3
  <2>2. IsPrefix(t, s)
    BY <1>3, <2>1, PrefixByPlaces
  <2> QED BY <2>2 DEF Agree
<1> QED BY <1>1, <1>2, <1>3

\* What readHex takes from a text that it accepts.
LEMMA BytesRead ==
  ASSUME NEW text \in Text, IsHex(text)
  PROVE  \E size \in Nat :
           /\ Len(text) = 2 * size /\ text \in Seq(Digit)
           /\ BytesOf(text) \in Number(size)
           /\ \A n \in 1..size :
                /\ ByteAt(text, n) \in Byte /\ BytesOf(text)[n] = ByteAt(text, n)
                /\ text[2 * n - 1] = ByteAt(text, n) \div Base
                /\ text[2 * n] = ByteAt(text, n) % Base
<1>1. Len(text) \in Nat /\ Len(text) % 2 = 0
  BY DEF Text, IsHex
<1>2. PICK size \in Nat : Len(text) = 2 * size /\ Len(text) \div 2 = size
  <2>1. Len(text) \div 2 \in Nat /\ Len(text) = 2 * (Len(text) \div 2)
    BY <1>1
  <2> QED BY <2>1
<1>3. \A c \in 1..Len(text) : text[c] \in Digit
  <2> SUFFICES ASSUME NEW c \in 1..Len(text) PROVE text[c] \in Digit
    OBVIOUS
  <2>1. text[c] \in 0..(Base - 1) \cup {NotDigit}
    BY DEF Text
  <2>2. text[c] # NotDigit
    BY DEF IsHex, Text
  <2> QED BY <2>1, <2>2 DEF Digit
<1>4. text \in Seq(Digit)
  <2>1. text \in [1..Len(text) -> Digit]
    BY <1>3 DEF Text
  <2> QED BY <1>1, <2>1
<1>5. ASSUME NEW n \in 1..size
      PROVE  /\ ByteAt(text, n) \in Byte
             /\ text[2 * n - 1] = ByteAt(text, n) \div Base
             /\ text[2 * n] = ByteAt(text, n) % Base
  <2>1. 2 * n - 1 \in 1..Len(text) /\ 2 * n \in 1..Len(text)
    BY <1>2
  <2>2. text[2 * n - 1] \in Digit /\ text[2 * n] \in Digit
    BY <1>3, <2>1
  <2> QED BY <2>2, TwoDigits DEF ByteAt
<1>6. BytesOf(text) = [n \in 1..size |-> ByteAt(text, n)]
  BY <1>2 DEF BytesOf
<1>7. BytesOf(text) \in Number(size)
  BY <1>5, <1>6 DEF Number
<1> QED BY <1>2, <1>4, <1>5, <1>6, <1>7

\* Memory that a text was read into is bytes, of the text where it reached and
\* what was there before elsewhere.
LEMMA MemoryRead ==
  ASSUME NEW size \in Nat, NEW memory \in Number(size), NEW place \in Nat,
         NEW text \in Text, IsHex(text)
  PROVE  /\ ReadInto(text, memory, place) \in Number(size)
         /\ \A n \in 1..size : n <= place => ReadInto(text, memory, place)[n] = memory[n]
         /\ \A n \in 1..(size - place) :
              2 * n <= Len(text) => ReadInto(text, memory, place)[place + n] = ByteAt(text, n)
<1> DEFINE read == ReadInto(text, memory, place)
<1>1. PICK half \in Nat :
        Len(text) = 2 * half /\ \A n \in 1..half : ByteAt(text, n) \in Byte
  BY BytesRead
<1>2. read = [n \in 1..size |->
                IF n > place /\ 2 * (n - place) <= Len(text)
                THEN ByteAt(text, n - place) ELSE memory[n]]
  BY DEF ReadInto, Number
<1>3. ASSUME NEW n \in 1..size
      PROVE  read[n] \in Byte /\ (n <= place => read[n] = memory[n])
  <2>1. CASE n > place /\ 2 * (n - place) <= Len(text)
    <3>1. n - place \in 1..half
      BY <1>1, <2>1
    <3> QED BY <1>1, <1>2, <2>1, <3>1
  <2>2. CASE ~(n > place /\ 2 * (n - place) <= Len(text))
    BY <1>2, <2>2 DEF Number
  <2> QED BY <2>1, <2>2
<1>4. ASSUME NEW n \in 1..(size - place), 2 * n <= Len(text)
      PROVE  read[place + n] = ByteAt(text, n)
  <2>1. place + n \in 1..size /\ place + n > place /\ (place + n) - place = n
    OBVIOUS
  <2> QED BY <1>2, <1>4, <2>1
<1>5. read \in Number(size)
  BY <1>2, <1>3 DEF Number
<1> QED BY <1>3, <1>4, <1>5

\* Bytes of a text, as far as it goes, are written as that text.
LEMMA FieldHoldsText ==
  ASSUME NEW size \in Nat, NEW field \in Number(size),
         NEW text \in Text, IsHex(text),
         \A n \in 1..size : 2 * n <= Len(text) => field[n] = ByteAt(text, n)
  PROVE  /\ text \in Seq(Digit)
         /\ \A c \in 1..Len(text) :
              c <= 2 * size => text[c] = stratumDumpHex(field)[c]
         /\ Agree(text, stratumDumpHex(field))
<1> DEFINE dump == stratumDumpHex(field)
<1>1. PICK half \in Nat :
        /\ Len(text) = 2 * half /\ text \in Seq(Digit)
        /\ \A n \in 1..half :
             /\ ByteAt(text, n) \in Byte
             /\ text[2 * n - 1] = ByteAt(text, n) \div Base
             /\ text[2 * n] = ByteAt(text, n) % Base
  BY BytesRead
<1>2. /\ dump \in Seq(Digit) /\ Len(dump) = 2 * size
      /\ \A n \in 1..size :
           /\ dump[2 * n - 1] = field[n] \div Base
           /\ dump[2 * n] = field[n] % Base
  BY Dumped DEF IsDigits
<1> HIDE DEF dump
<1>3. ASSUME NEW c \in 1..Len(text), c <= 2 * size PROVE text[c] = dump[c]
  <2>1. PICK n \in 1..half : c = 2 * n - 1 \/ c = 2 * n
    <3>1. (c + 1) \div 2 \in 1..half
          /\ (c = 2 * ((c + 1) \div 2) - 1 \/ c = 2 * ((c + 1) \div 2))
      BY <1>1
    <3> QED BY <3>1
  <2>2. n \in 1..size /\ 2 * n <= Len(text)
    BY <1>1, <1>3, <2>1
  <2>3. field[n] = ByteAt(text, n)
    BY <2>2
  <2> QED BY <1>1, <1>2, <2>1, <2>2, <2>3
<1>4. Agree(text, dump)
  BY <1>1, <1>2, <1>3, AgreeByPlaces
<1> QED BY <1>1, <1>3, <1>4 DEF dump

\* The nonce behind its zero bytes: the text behind as many zero digits.
LEMMA ZerosThenNonce ==
  ASSUME NEW nonce \in Number(NonceBytes), NEW text \in Seq(Digit),
         \A c \in 1..Len(text) :
           c <= 2 * NonceBytes => text[c] = stratumDumpHex(nonce)[c]
  PROVE  /\ [n \in 1..ZeroBytes |-> 0] \o nonce \in Number(HashBytes)
         /\ Agree([d \in 1..(2 * ZeroBytes) |-> 0] \o text,
                  stratumDumpHex([n \in 1..ZeroBytes |-> 0] \o nonce))
<1> DEFINE z == ZeroBytes
           zeros == [n \in 1..z |-> 0]
           digits == [d \in 1..(2 * z) |-> 0]
           full == zeros \o nonce
           dump == stratumDumpHex(full)
           part == stratumDumpHex(nonce)
           long == digits \o text
<1>1. z \in Nat /\ NonceBytes \in Nat /\ HashBytes = z + NonceBytes
      /\ 0 \in Byte /\ 0 \in Digit /\ 0 \div Base = 0 /\ 0 % Base = 0
  <2>1. Base \in Nat \ {0, 1} /\ Base * Base - 1 >= 0
    BY WidthsAssumption
  <2>2. 0 \div Base = 0 /\ 0 % Base = 0
    BY <2>1
  <2> QED BY <2>1, <2>2, WidthsAssumption DEF ZeroBytes, Byte, Digit
<1> HIDE DEF z
<1>2. zeros \in Seq(Byte) /\ Len(zeros) = z /\ digits \in Seq(Digit)
      /\ Len(digits) = 2 * z /\ nonce \in Seq(Byte) /\ Len(nonce) = NonceBytes
  BY <1>1 DEF Number
<1>3. /\ full \in Seq(Byte) /\ Len(full) = HashBytes
      /\ \A n \in 1..z : full[n] = 0
      /\ \A n \in 1..NonceBytes : full[z + n] = nonce[n]
  <2> HIDE DEF zeros
  <2>1. \A n \in 1..z : zeros[n] = 0
    BY DEF zeros
  <2>2. /\ full \in Seq(Byte) /\ Len(full) = z + NonceBytes
        /\ \A n \in 1..z : full[n] = zeros[n]
        /\ \A n \in 1..NonceBytes : full[z + n] = nonce[n]
    <3>1. zeros \in Seq(Byte) /\ nonce \in Seq(Byte) /\ z = Len(zeros)
      BY <1>2
    <3>2. Len(nonce) = NonceBytes
      BY <1>2
    <3>3. /\ full \in Seq(Byte) /\ Len(full) = z + Len(nonce)
          /\ \A n \in 1..z : full[n] = zeros[n]
          /\ \A n \in 1..Len(nonce) : full[z + n] = nonce[n]
      BY <3>1, Behind
    <3> QED BY <3>2, <3>3
  <2> HIDE DEF full
  <2> QED BY <1>1, <2>1, <2>2
<1>4. full \in Number(HashBytes)
  <2> HIDE DEF full
  <2> QED BY <1>3, LenProperties DEF Number
<1>5. /\ part \in Seq(Digit) /\ Len(part) = 2 * NonceBytes
      /\ \A n \in 1..NonceBytes :
           /\ part[2 * n - 1] = nonce[n] \div Base
           /\ part[2 * n] = nonce[n] % Base
  BY <1>1, Dumped DEF IsDigits
<1> HIDE DEF full, part
<1>6. /\ dump \in Seq(Digit) /\ Len(dump) = 2 * HashBytes
      /\ \A n \in 1..HashBytes :
           /\ dump[2 * n - 1] = full[n] \div Base
           /\ dump[2 * n] = full[n] % Base
  BY <1>1, <1>4, Dumped DEF IsDigits
<1> HIDE DEF dump
<1>7. \A c \in 1..Len(text) : c <= 2 * NonceBytes => text[c] = part[c]
  BY DEF part
<1>8. /\ long \in Seq(Digit) /\ Len(long) = 2 * z + Len(text)
      /\ \A c \in 1..(2 * z) : long[c] = 0
      /\ \A c \in 1..Len(text) : long[2 * z + c] = text[c]
  <2> HIDE DEF digits
  <2>1. \A c \in 1..(2 * z) : digits[c] = 0
    BY DEF digits
  <2>2. /\ long \in Seq(Digit) /\ Len(long) = 2 * z + Len(text)
        /\ \A c \in 1..(2 * z) : long[c] = digits[c]
        /\ \A c \in 1..Len(text) : long[2 * z + c] = text[c]
    <3> DEFINE k == 2 * z
    <3>1. digits \in Seq(Digit) /\ Len(digits) = k
      BY <1>2
    <3> HIDE DEF k
    <3>2. /\ long \in Seq(Digit) /\ Len(long) = k + Len(text)
          /\ \A c \in 1..k : long[c] = digits[c]
          /\ \A c \in 1..Len(text) : long[k + c] = text[c]
      BY <3>1, Behind
    <3> QED BY <3>2 DEF k
  <2> HIDE DEF long
  <2> QED BY <2>1, <2>2
<1> HIDE DEF long
<1>9. ASSUME NEW c \in 1..Len(long), c <= Len(dump) PROVE long[c] = dump[c]
  <2>1. CASE c <= 2 * z
    <3>1. PICK n \in 1..z : c = 2 * n - 1 \/ c = 2 * n
      <4>1. (c + 1) \div 2 \in 1..z
            /\ (c = 2 * ((c + 1) \div 2) - 1 \/ c = 2 * ((c + 1) \div 2))
        BY <1>1, <2>1
      <4> QED BY <4>1
    <3>2. n \in 1..HashBytes /\ full[n] = 0 /\ long[c] = 0
      BY <1>1, <1>3, <1>8, <2>1
    <3> QED BY <1>1, <1>6, <3>1, <3>2
  <2>2. CASE c > 2 * z
    <3>1. PICK k \in 1..Len(text) : c = 2 * z + k
      <4>1. c - 2 * z \in 1..Len(text) /\ c = 2 * z + (c - 2 * z)
        BY <1>1, <1>8, <2>2
      <4> QED BY <4>1
    <3>2. long[c] = part[k] /\ k \in 1..(2 * NonceBytes)
      <4>1. k <= 2 * NonceBytes
        BY <1>1, <1>6, <1>9, <3>1
      <4> QED BY <1>7, <1>8, <3>1, <4>1
    <3>3. PICK n \in 1..NonceBytes : k = 2 * n - 1 \/ k = 2 * n
      <4>1. (k + 1) \div 2 \in 1..NonceBytes
            /\ (k = 2 * ((k + 1) \div 2) - 1 \/ k = 2 * ((k + 1) \div 2))
        BY <1>1, <3>2
      <4> QED BY <4>1
    <3>4. /\ z + n \in 1..HashBytes /\ full[z + n] = nonce[n]
          /\ (c = 2 * (z + n) - 1 /\ k = 2 * n - 1)
               \/ (c = 2 * (z + n) /\ k = 2 * n)
      BY <1>1, <1>3, <3>1, <3>3
    <3>5. CASE c = 2 * (z + n) - 1 /\ k = 2 * n - 1
      BY <1>5, <1>6, <3>2, <3>4, <3>5
    <3>6. CASE c = 2 * (z + n) /\ k = 2 * n
      BY <1>5, <1>6, <3>2, <3>4, <3>6
    <3> QED BY <3>4, <3>5, <3>6
  <2> QED BY <1>1, <1>8, <2>1, <2>2
<1>10. Agree(long, dump)
  BY <1>6, <1>8, <1>9, AgreeByPlaces
<1> QED BY <1>4, <1>10 DEF full, dump, long, z

\* The solution without the size before it: the text without its digits.
LEMMA RestOfText ==
  ASSUME NEW text \in Text, IsHex(text), Len(BytesOf(text)) >= SkipBytes + 1
  PROVE  stratumDumpHex(SubSeq(BytesOf(text), SkipBytes + 1, Len(BytesOf(text))))
           = SubSeq(text, 2 * SkipBytes + 1, Len(text))
<1> DEFINE bytes == BytesOf(text)
           skip == SkipBytes
<1>1. PICK size \in Nat :
        /\ Len(text) = 2 * size /\ text \in Seq(Digit)
        /\ bytes \in Number(size)
        /\ \A n \in 1..size :
             /\ bytes[n] \in Byte
             /\ text[2 * n - 1] = bytes[n] \div Base
             /\ text[2 * n] = bytes[n] % Base
  BY BytesRead
<1>2. skip \in Nat /\ Len(bytes) = size /\ bytes \in Seq(Byte) /\ size >= skip + 1
  BY <1>1, WidthsAssumption DEF Number
<1> HIDE DEF bytes, skip
<1> DEFINE rest == SubSeq(bytes, skip + 1, size)
           tail == SubSeq(text, 2 * skip + 1, 2 * size)
           left == size - skip
           dump == stratumDumpHex(rest)
<1>3. left \in Nat /\ rest \in [1..left -> Byte]
      /\ \A n \in 1..left : rest[n] = bytes[skip + n]
  BY <1>2, Part
<1>4. tail \in [1..(2 * left) -> Digit]
      /\ \A c \in 1..(2 * left) : tail[c] = text[2 * skip + c]
  <2> DEFINE k == 2 * skip
             m == 2 * size
  <2>1. m - k = 2 * left /\ k <= m /\ k \in Nat /\ m \in Nat /\ m <= Len(text)
    BY <1>1, <1>2
  <2> HIDE DEF k, m, left
  <2>2. /\ SubSeq(text, k + 1, m) \in [1..(m - k) -> Digit]
        /\ \A c \in 1..(m - k) : SubSeq(text, k + 1, m)[c] = text[k + c]
    <3>1. text \in Seq(Digit)
      BY <1>1
    <3> QED BY <2>1, <3>1, Part
  <2> QED BY <2>1, <2>2 DEF k, m
<1> HIDE DEF rest, tail
<1>5. /\ dump \in Seq(Digit) /\ Len(dump) = 2 * left
      /\ \A n \in 1..left :
           /\ dump[2 * n - 1] = rest[n] \div Base
           /\ dump[2 * n] = rest[n] % Base
  BY <1>3, Dumped DEF IsDigits, Number
<1> HIDE DEF dump
<1>6. ASSUME NEW c \in 1..(2 * left) PROVE dump[c] = tail[c]
  <2>1. PICK n \in 1..left : c = 2 * n - 1 \/ c = 2 * n
    <3>1. (c + 1) \div 2 \in 1..left
          /\ (c = 2 * ((c + 1) \div 2) - 1 \/ c = 2 * ((c + 1) \div 2))
      BY <1>3
    <3> QED BY <3>1
  <2>2. /\ skip + n \in 1..size /\ rest[n] = bytes[skip + n]
        /\ 2 * skip + (2 * n - 1) = 2 * (skip + n) - 1
        /\ 2 * skip + 2 * n = 2 * (skip + n)
    BY <1>2, <1>3
  <2>3. CASE c = 2 * n - 1
    BY <1>1, <1>4, <1>5, <2>2, <2>3
  <2>4. CASE c = 2 * n
    BY <1>1, <1>4, <1>5, <2>2, <2>4
  <2> QED BY <2>1, <2>3, <2>4
<1>7. dump \in [1..(2 * left) -> Digit]
  BY <1>5, LenProperties
<1>8. dump = tail
  <2> DEFINE D == 1..(2 * left)
  <2>1. dump \in [D -> Digit] /\ tail \in [D -> Digit] /\ \A c \in D : dump[c] = tail[c]
    BY <1>4, <1>6, <1>7
  <2> HIDE DEF D
  <2> QED BY <2>1, SamePlaces
<1> QED BY <1>1, <1>2, <1>8 DEF dump, tail, rest, bytes, skip

-----------------------------------------------------------------------------
\* Submissions

\* The texts of a submission that is accepted.
LEMMA SubmittedTexts ==
  ASSUME NEW msg \in Messages, DecodesSubmit(msg)
  PROVE  \A n \in 3..5 : msg.params[n].text \in Text /\ IsHex(msg.params[n].text)
<1>1. /\ msg.method = "mining.submit" /\ msg.params # "no array"
      /\ Len(msg.params) >= 5 /\ \A n \in 3..5 : IsHex(msg.params[n].text)
  BY DEF DecodesSubmit, SubmitsTexts, Decodes
<1> DEFINE Value == [type : {"string", "null", "integer", "other"}, text : Text]
           params == msg.params
<1>2. params \in Seq(Value)
  BY <1>1, TextsAssumption
<1>3. ASSUME NEW n \in 3..5 PROVE params[n].text \in Text
  <2>1. n \in 1..Len(params)
    <3>1. Len(params) >= 5
      BY <1>1
    <3> HIDE DEF Value, params
    <3>2. Len(params) \in Nat
      BY <1>2
    <3> QED BY <3>1, <3>2
  <2>2. params[n] \in Value
    <3> HIDE DEF Value, params
    <3> QED BY <1>2, <2>1, ElementOfSeq
  <2> QED BY <2>2
<1> QED BY <1>1, <1>3

\* What a submission becomes, whatever memory its fields are read into.
LEMMA Fields ==
  ASSUME NEW msg \in Messages, DecodesSubmit(msg), NEW memory \in Leftovers,
         NEW fields, fields = Submit(msg, memory)
  PROVE  /\ fields.time \in Number(WordBytes) /\ fields.nonce \in Number(NonceBytes)
         /\ fields.equihashSolution \in Seq(Byte)
         /\ fields.equihashSolution = BytesOf(msg.params[5].text)
         /\ Agree(msg.params[3].text, stratumDumpHex(fields.time))
         /\ msg.params[4].text \in Seq(Digit)
         /\ \A c \in 1..Len(msg.params[4].text) :
              c <= 2 * NonceBytes =>
                msg.params[4].text[c] = stratumDumpHex(fields.nonce)[c]
<1> DEFINE first == msg.params[3].text
           second == msg.params[4].text
           read == ReadInto(second, ReadInto(first, memory, 0), WordBytes)
<1>1. /\ fields.time = SubSeq(read, 1, WordBytes)
      /\ fields.nonce = SubSeq(read, WordBytes + 1, WordBytes + NonceBytes)
      /\ fields.equihashSolution = BytesOf(msg.params[5].text)
  BY DEF Submit
<1>2. /\ memory \in Number(WordBytes + HashBytes)
      /\ WordBytes \in Nat /\ NonceBytes \in Nat
      /\ first \in Text /\ IsHex(first) /\ second \in Text /\ IsHex(second)
  BY LeftoversAssumption, WidthsAssumption, SubmittedTexts
<1> HIDE DEF first, second
<1> DEFINE time == fields.time
           nonce == fields.nonce
<1>3. /\ time = SubSeq(read, 1, WordBytes)
      /\ nonce = SubSeq(read, WordBytes + 1, WordBytes + NonceBytes)
      /\ read = ReadInto(second, ReadInto(first, memory, 0), WordBytes)
  BY <1>1
<1> HIDE DEF time, nonce, read
<1>4. /\ time \in Number(WordBytes)
      /\ \A n \in 1..WordBytes : 2 * n <= Len(first) => time[n] = ByteAt(first, n)
      /\ nonce \in Number(NonceBytes)
      /\ \A n \in 1..NonceBytes : 2 * n <= Len(second) => nonce[n] = ByteAt(second, n)
  <2> DEFINE w == WordBytes
             size == WordBytes + HashBytes
             end == WordBytes + NonceBytes
             once == ReadInto(first, memory, 0)
  <2>1. /\ w \in Nat /\ size \in Nat /\ NonceBytes \in Nat /\ end \in Nat
        /\ w <= end /\ end <= size /\ end - w = NonceBytes
        /\ \A n \in 1..NonceBytes : n \in 1..(size - w)
        /\ \A n \in 1..w : n \in 1..size /\ n \in 1..(size - 0) /\ 0 + n = n /\ n <= w
    BY WidthsAssumption
  <2>2. once \in Number(size) /\ \A n \in 1..w : 2 * n <= Len(first) => once[n] = ByteAt(first, n)
    <3> HIDE DEF size
    <3>1. memory \in Number(size) /\ 0 \in Nat /\ size \in Nat
      BY <1>2, <2>1 DEF size
    <3>2. /\ ReadInto(first, memory, 0) \in Number(size)
          /\ \A n \in 1..size : n <= 0 => ReadInto(first, memory, 0)[n] = memory[n]
          /\ \A n \in 1..(size - 0) :
               2 * n <= Len(first) => ReadInto(first, memory, 0)[0 + n] = ByteAt(first, n)
      BY ONLY <1>2, <3>1, MemoryRead
    <3> HIDE DEF w
    <3> QED BY <2>1, <3>2
  <2> HIDE DEF once, w, size, end
  <2>3. /\ read \in Number(size)
        /\ \A n \in 1..size : n <= w => read[n] = once[n]
        /\ \A n \in 1..(size - w) : 2 * n <= Len(second) => read[w + n] = ByteAt(second, n)
    <3>1. read = ReadInto(second, once, w)
      BY <1>3 DEF once, w
    <3>2. once \in Number(size) /\ w \in Nat /\ size \in Nat
      BY <2>1, <2>2
    <3>3. /\ ReadInto(second, once, w) \in Number(size)
          /\ \A n \in 1..size : n <= w => ReadInto(second, once, w)[n] = once[n]
          /\ \A n \in 1..(size - w) :
               2 * n <= Len(second) => ReadInto(second, once, w)[w + n] = ByteAt(second, n)
      BY ONLY <1>2, <3>2, MemoryRead
    <3> QED BY <3>1, <3>3
  <2>4. read \in Seq(Byte) /\ Len(read) = size
    BY <2>1, <2>3 DEF Number
  <2>5. /\ time \in [1..w -> Byte]
        /\ \A n \in 1..w : time[n] = read[n]
    <3>1. time = SubSeq(read, 1, w) /\ w \in Nat /\ w <= Len(read)
      BY <1>3, <2>1, <2>4 DEF w
    <3>2. /\ SubSeq(read, 1, w) \in [1..w -> Byte]
          /\ \A n \in 1..w : SubSeq(read, 1, w)[n] = read[n]
      BY ONLY <2>4, <3>1, Beginning
    <3> QED BY <3>1, <3>2
  <2>6. /\ nonce \in [1..(end - w) -> Byte]
        /\ \A n \in 1..(end - w) : nonce[n] = read[w + n]
    <3>1. nonce = SubSeq(read, w + 1, end)
      BY <1>3 DEF w, end
    <3>2. /\ SubSeq(read, w + 1, end) \in [1..(end - w) -> Byte]
          /\ \A n \in 1..(end - w) : SubSeq(read, w + 1, end)[n] = read[w + n]
      <4>1. w \in Nat /\ end \in Nat /\ w <= end /\ end <= Len(read)
        BY <2>1, <2>4
      <4> QED BY ONLY <2>4, <4>1, Part
    <3> QED BY <3>1, <3>2
  <2>7. time \in Number(WordBytes) /\ nonce \in Number(NonceBytes)
    BY <2>1, <2>5, <2>6 DEF Number, w
  <2>8. ASSUME NEW n \in 1..w, 2 * n <= Len(first) PROVE time[n] = ByteAt(first, n)
    BY <2>1, <2>2, <2>3, <2>5, <2>8
  <2>9. ASSUME NEW n \in 1..NonceBytes, 2 * n <= Len(second)
        PROVE  nonce[n] = ByteAt(second, n)
    BY <2>1, <2>3, <2>6, <2>9
  <2> QED BY <2>7, <2>8, <2>9 DEF w
<1>5. /\ fields.time \in Number(WordBytes)
      /\ \A n \in 1..WordBytes : 2 * n <= Len(first) => fields.time[n] = ByteAt(first, n)
      /\ fields.nonce \in Number(NonceBytes)
      /\ \A n \in 1..NonceBytes : 2 * n <= Len(second) => fields.nonce[n] = ByteAt(second, n)
  BY <1>4 DEF time, nonce
<1>6. Agree(first, stratumDumpHex(fields.time))
  BY <1>2, <1>5, FieldHoldsText
<1>7. /\ second \in Seq(Digit)
      /\ \A c \in 1..Len(second) :
           c <= 2 * NonceBytes => second[c] = stratumDumpHex(fields.nonce)[c]
  BY <1>2, <1>5, FieldHoldsText
<1>8. fields.equihashSolution \in Seq(Byte)
  <2>1. PICK size \in Nat : BytesOf(msg.params[5].text) \in Number(size)
    BY SubmittedTexts, BytesRead
  <2> QED BY <1>1, <2>1 DEF Number
<1> QED BY <1>1, <1>5, <1>6, <1>7, <1>8 DEF first, second

\* A text is whole bytes exactly if it is what stratumDumpHex writes of some.
LEMMA WholeBytes ==
  ASSUME NEW text \in Text
  PROVE  IsHex(text) <=> IsDump(text)
<1>1. ASSUME IsHex(text) PROVE IsDump(text)
  <2>1. PICK size \in Nat :
          /\ Len(text) = 2 * size /\ text \in Seq(Digit)
          /\ BytesOf(text) \in Number(size)
          /\ \A n \in 1..size :
               /\ BytesOf(text)[n] = ByteAt(text, n)
               /\ text[2 * n - 1] = ByteAt(text, n) \div Base
               /\ text[2 * n] = ByteAt(text, n) % Base
    BY <1>1, BytesRead
  <2> DEFINE dump == stratumDumpHex(BytesOf(text))
  <2>2. /\ dump \in Seq(Digit) /\ Len(dump) = 2 * size
        /\ \A n \in 1..size : 2 * n <= Len(text) => BytesOf(text)[n] = ByteAt(text, n)
    BY <2>1, Dumped DEF IsDigits
  <2>3. \A c \in 1..Len(text) : c <= 2 * size => text[c] = dump[c]
    BY <1>1, <2>1, <2>2, FieldHoldsText
  <2> HIDE DEF dump
  <2>4. \A c \in 1..(2 * size) : text[c] = dump[c]
    BY <2>1, <2>3
  <2>5. text \in [1..(2 * size) -> Digit] /\ dump \in [1..(2 * size) -> Digit]
    BY <2>1, <2>2, LenProperties
  <2>6. text = dump
    <3> DEFINE D == 1..(2 * size)
    <3>1. text \in [D -> Digit] /\ dump \in [D -> Digit] /\ \A c \in D : text[c] = dump[c]
      BY <2>4, <2>5
    <3> HIDE DEF D
    <3> QED BY <3>1, SamePlaces
  <2> QED BY <2>1, <2>6 DEF IsDump, Digit, dump
<1>2. ASSUME IsDump(text) PROVE IsHex(text)
  <2>1. text \in Seq(Digit) /\ stratumDumpHex(BytesOf(text)) = text
    BY <1>2 DEF IsDump, Digit
  <2>2. ASSUME NEW c \in DOMAIN text PROVE text[c] # NotDigit
    <3>1. text[c] \in Digit
      BY <2>1
    <3>2. NotDigit \notin Digit
      BY WidthsAssumption DEF Digit
    <3> QED BY <3>1, <3>2
  <2>3. Len(text) \in Nat /\ Len(text) \div 2 \in Nat
    BY <2>1
  <2>4. Len(BytesOf(text)) = Len(text) \div 2
    BY <2>3 DEF BytesOf
  <2>5. Len(stratumDumpHex(BytesOf(text))) = 2 * (Len(text) \div 2)
    BY <2>3, <2>4 DEF stratumDumpHex
  <2>6. Len(text) % 2 = 0
    BY <2>1, <2>3, <2>5
  <2> QED BY <2>2, <2>6 DEF IsHex
<1> QED BY <1>1, <1>2

\* The version in the notice, a literal, is the one of the header.
LEMMA SameVersion == stratumDumpHex(CURRENT_VERSION) = VersionText
<1> DEFINE dump == stratumDumpHex(CURRENT_VERSION)
           size == WordBytes
<1>1. size \in Nat /\ CURRENT_VERSION \in Number(size)
      /\ VersionDigit \div Base = 0 /\ VersionDigit % Base = VersionDigit
      /\ 0 \div Base = 0 /\ 0 % Base = 0 /\ VersionDigit \in Digit /\ 0 \in Digit
  <2>1. Base \in Nat \ {0, 1} /\ VersionDigit \in 0..(Base - 1) /\ size \in Nat
    BY WidthsAssumption
  <2>2. VersionDigit \div Base = 0 /\ VersionDigit % Base = VersionDigit
        /\ 0 \div Base = 0 /\ 0 % Base = 0
    BY <2>1
  <2>3. 0 \in Digit /\ VersionDigit \in Digit
    BY <2>1 DEF Digit
  <2>4. 0 * Base + 0 \in Byte /\ 0 * Base + VersionDigit \in Byte
    BY <2>3, TwoDigits
  <2>5. 0 \in Byte /\ VersionDigit \in Byte
    <3>1. 0 * Base + 0 = 0 /\ 0 * Base + VersionDigit = VersionDigit
      BY <2>1
    <3> QED BY <2>4, <3>1
  <2> QED BY <2>1, <2>2, <2>3, <2>5 DEF CURRENT_VERSION, Number
<1>2. /\ dump \in Seq(Digit) /\ Len(dump) = 2 * size
      /\ \A n \in 1..size :
           /\ dump[2 * n - 1] = CURRENT_VERSION[n] \div Base
           /\ dump[2 * n] = CURRENT_VERSION[n] % Base
  BY <1>1, Dumped DEF IsDigits
<1> HIDE DEF dump
<1>6. ASSUME NEW c \in 1..(2 * size) PROVE dump[c] = VersionText[c]
  <2>1. PICK n \in 1..size : c = 2 * n - 1 \/ c = 2 * n
    <3>1. (c + 1) \div 2 \in 1..size
          /\ (c = 2 * ((c + 1) \div 2) - 1 \/ c = 2 * ((c + 1) \div 2))
      BY <1>1
    <3> QED BY <3>1
  <2>2. CURRENT_VERSION[n] = IF n = 1 THEN VersionDigit ELSE 0
    BY DEF CURRENT_VERSION
  <2>3. VersionText[c] = IF c = 2 THEN VersionDigit ELSE 0
    BY DEF VersionText
  <2>4. CASE c = 2 * n - 1
    <3>1. c # 2 /\ dump[c] = 0
      BY <1>1, <1>2, <2>1, <2>2, <2>4
    <3> QED BY <2>3, <3>1
  <2>5. CASE c = 2 * n
    <3>1. c = 2 <=> n = 1
      BY <2>5
    <3> QED BY <1>1, <1>2, <2>2, <2>3, <2>5, <3>1
  <2> QED BY <2>1, <2>4, <2>5
<1>7. dump \in [1..(2 * size) -> Digit] /\ VersionText \in [1..(2 * size) -> Digit]
  BY <1>1, <1>2, LenProperties DEF VersionText
<1>8. dump = VersionText
  <2> DEFINE D == 1..(2 * size)
  <2>1. /\ dump \in [D -> Digit] /\ VersionText \in [D -> Digit]
        /\ \A c \in D : dump[c] = VersionText[c]
    BY <1>6, <1>7
  <2> HIDE DEF D
  <2> QED BY <2>1, SamePlaces
<1> QED BY <1>8 DEF dump

-----------------------------------------------------------------------------
\* The invariant

\* A line that reads as a submission and is Ok was decoded as one.
LEMMA OkSubmits ==
  ASSUME NEW msg, StatusOf(msg) = "Ok", msg.method = "mining.submit"
  PROVE  DecodesSubmit(msg)
BY DEF StatusOf, DecodesSubscribe, DecodesAuthorize, DecodesExtraNonce, Decodes

\* The fields of a submission are fields: not nothing.
LEMMA SomeFields ==
  ASSUME NEW msg, NEW memory
  PROVE  Submit(msg, memory) # Nothing
<1>1. DOMAIN Submit(msg, memory) = {"time", "nonce", "equihashSolution"}
  BY DEF Submit
<1>2. DOMAIN Nothing = {"empty"}
  BY DEF Nothing
<1>3. "empty" \notin {"time", "nonce", "equihashSolution"}
  OBVIOUS
<1> QED BY <1>1, <1>2, <1>3

\* Every step keeps it.
LEMMA CodecStep == CodecInv /\ [Next]_vars => CodecInv'
<1> SUFFICES ASSUME CodecInv, [Next]_vars PROVE CodecInv'
  OBVIOUS
<1>1. CASE Notify
  BY <1>1 DEF Notify, CodecInv, NoticeOf, ShortSolution
<1>2. ASSUME NEW msg \in Messages, NEW memory \in Leftovers, Decode(msg, memory)
      PROVE  CodecInv'
  <2>1. /\ stage = "notified" /\ stage' = "decoded"
        /\ message' = msg /\ status' = StatusOf(msg)
        /\ UNCHANGED <<job, notice, header, claim>>
        /\ submit' = IF StatusOf(msg) = "Ok" /\ msg.method = "mining.submit"
                     THEN Submit(msg, memory) ELSE Nothing
    BY <1>2 DEF Decode
  <2>2. submit' # Nothing <=> StatusOf(msg) = "Ok" /\ msg.method = "mining.submit"
    BY <2>1, SomeFields
  <2>3. submit' # Nothing => DecodesSubmit(msg) /\ submit' = Submit(msg, memory)
    BY <2>1, <2>2, OkSubmits
  <2> QED BY <2>1, <2>2, <2>3 DEF CodecInv
<1>3. CASE \E msg \in Messages : Overrun(msg)
  BY <1>3 DEF Overrun, CodecInv, ShortSolution
<1>4. CASE CheckShare
  <2>1. header' = Judged(job, submit)
    BY <1>4 DEF CheckShare, Judged, Nonce
  <2> QED BY <1>4, <2>1 DEF CheckShare, CodecInv, ShortSolution
<1>5. CASE OfferBlock
  BY <1>5 DEF OfferBlock, CodecInv, ShortSolution
<1>6. CASE Answer
  BY <1>6 DEF Answer, CodecInv, ShortSolution
<1>7. CASE Undefined \/ UNCHANGED vars
  BY <1>7 DEF Undefined, vars, CodecInv, ShortSolution
<1> QED BY <1>1, <1>2, <1>3, <1>4, <1>5, <1>6, <1>7 DEF Next

\* It holds before the first notice.
LEMMA CodecInit == Init => CodecInv
BY DEF Init, CodecInv

\* A submission is accepted exactly if its texts are whole bytes.
LEMMA AcceptedExactly ==
  ASSUME NEW msg \in Messages, msg.json, Decodes(msg, "mining.submit", 5)
  PROVE  StatusOf(msg) = "Ok" <=> /\ \A n \in 1..5 : IsText(msg.params[n])
                                  /\ \A n \in 3..5 : IsDump(msg.params[n].text)
<1> DEFINE Value == [type : {"string", "null", "integer", "other"}, text : Text]
           params == msg.params
<1>1. params \in Seq(Value) /\ Len(params) >= 5 /\ msg.method = "mining.submit"
  BY TextsAssumption DEF Decodes
<1>2. ASSUME NEW n \in 3..5 PROVE params[n].text \in Text
  <2>1. n \in 1..Len(params)
    <3> HIDE DEF Value, params
    <3>1. Len(params) \in Nat
      BY <1>1
    <3> QED BY <1>1, <3>1
  <2>2. params[n] \in Value
    <3> HIDE DEF Value, params
    <3> QED BY <1>1, <2>1, ElementOfSeq
  <2> QED BY <2>2
<1>3. \A n \in 3..5 : IsHex(params[n].text) <=> IsDump(params[n].text)
  <2> HIDE DEF params, Value
  <2> QED BY <1>2, WholeBytes
<1>4. StatusOf(msg) = "Ok" <=> DecodesSubmit(msg)
  <2>1. StatusOf(msg) = "Ok" => DecodesSubmit(msg)
    BY <1>1, OkSubmits
  <2>2. DecodesSubmit(msg) => StatusOf(msg) = "Ok"
    BY DEF StatusOf
  <2> QED BY <2>1, <2>2
<1>5. DecodesSubmit(msg) <=> /\ \A n \in 1..5 : IsText(params[n])
                             /\ \A n \in 3..5 : IsHex(params[n].text)
  BY DEF DecodesSubmit, SubmitsTexts
<1> HIDE DEF params
<1>6. (\A n \in 3..5 : IsHex(params[n].text)) <=> \A n \in 3..5 : IsDump(params[n].text)
  BY <1>3
<1> QED BY <1>4, <1>5, <1>6 DEF params

\* Fields are bytes.
LEMMA InvTypes == CodecInv => CodecTypeOK
<1> SUFFICES ASSUME CodecInv PROVE CodecTypeOK
  OBVIOUS
<1>1. message \in Messages \cup {Nothing} /\ status \in {"Ok", "JsonError", "FormatError"}
  BY DEF CodecInv, StatusOf
<1>2. ASSUME submit # Nothing
      PROVE  /\ submit.time \in Number(WordBytes) /\ submit.nonce \in Number(NonceBytes)
             /\ submit.equihashSolution \in Seq(Byte)
             /\ message.params[4].text \in Seq(Digit)
             /\ \A c \in 1..Len(message.params[4].text) :
                  c <= 2 * NonceBytes =>
                    message.params[4].text[c] = stratumDumpHex(submit.nonce)[c]
  <2>1. message \in Messages /\ DecodesSubmit(message)
    BY <1>2 DEF CodecInv
  <2>2. PICK memory \in Leftovers : submit = Submit(message, memory)
    BY <1>2 DEF CodecInv
  <2> QED BY <2>1, <2>2, Fields
<1>3. header # Nothing => header.nNonce \in Number(HashBytes)
  <2> SUFFICES ASSUME header # Nothing PROVE header.nNonce \in Number(HashBytes)
    OBVIOUS
  <2>1. submit # Nothing /\ header = Judged(job, submit)
    BY DEF CodecInv
  <2>2. header.nNonce = [n \in 1..ZeroBytes |-> 0] \o submit.nonce
    BY <2>1 DEF Judged
  <2> QED BY <1>2, <2>1, <2>2, ZerosThenNonce
<1>4. ASSUME stage = "decoded", message.json, Decodes(message, "mining.submit", 5)
      PROVE  status = "Ok" <=> /\ \A n \in 1..5 : IsText(message.params[n])
                               /\ \A n \in 3..5 : IsDump(message.params[n].text)
  <2>1. message \in Messages /\ status = StatusOf(message)
    BY <1>4 DEF CodecInv
  <2> QED BY <1>4, <2>1, AcceptedExactly
<1>5. stage = "decoded" =>
        (submit # Nothing <=> status = "Ok" /\ message.method = "mining.submit")
  BY DEF CodecInv
<1>6. /\ stage \in {"idle", "notified", "decoded", "checked", "offered", "undefined"}
      /\ job \in Jobs
  BY DEF CodecInv
<1> QED BY <1>1, <1>2, <1>3, <1>4, <1>5, <1>6 DEF CodecTypeOK

\* The header of the pool is the one in the texts.
LEMMA InvAgree == CodecInv => MinerAndPoolAgree
<1> SUFFICES ASSUME CodecInv, header # Nothing
             PROVE  /\ stratumDumpHex(header.nVersion) = notice.version
                    /\ stratumDumpHex(header.hashPrevBlock) = notice.prevHash
                    /\ stratumDumpHex(header.hashMerkleRoot) = notice.merkleroot
                    /\ stratumDumpHex(header.hashReserved) = notice.reserved
                    /\ stratumDumpHex(header.nBits) = notice.bits
                    /\ Agree(message.params[3].text, stratumDumpHex(header.nTime))
                    /\ Agree([d \in 1..(2 * ZeroBytes) |-> 0] \o message.params[4].text,
                             stratumDumpHex(header.nNonce))
                    /\ stratumDumpHex(header.solution)
                         = SubSeq(message.params[5].text, 2 * SkipBytes + 1,
                                  Len(message.params[5].text))
  BY DEF MinerAndPoolAgree
<1>1. /\ submit # Nothing /\ ~ShortSolution /\ header = Judged(job, submit)
      /\ message \in Messages /\ DecodesSubmit(message)
      /\ notice = NoticeOf(job) /\ job \in Jobs
  BY DEF CodecInv
<1>2. PICK memory \in Leftovers : submit = Submit(message, memory)
  BY <1>1 DEF CodecInv
<1>3. /\ header.nVersion = CURRENT_VERSION
      /\ header.hashPrevBlock = SetHex(GetHex(job.hash))
      /\ header.hashMerkleRoot = SetHex(GetHex(job.merkle))
      /\ header.hashReserved = SetHex(GetHex(job.reserved))
      /\ header.nTime = submit.time /\ header.nBits = job.bits
      /\ header.nNonce = [n \in 1..ZeroBytes |-> 0] \o submit.nonce
      /\ header.solution = SubSeq(submit.equihashSolution, SkipBytes + 1,
                                  Len(submit.equihashSolution))
  BY <1>1 DEF Judged
<1>4. /\ notice.prevHash = stratumLittleEndianHex(GetHex(job.hash))
      /\ notice.merkleroot = stratumLittleEndianHex(GetHex(job.merkle))
      /\ notice.reserved = stratumLittleEndianHex(GetHex(job.reserved))
      /\ notice.bits = stratumDumpHex(job.bits) /\ notice.version = VersionText
  BY <1>1 DEF NoticeOf
<1>5. job.hash \in Number(HashBytes) /\ job.merkle \in Number(HashBytes)
      /\ job.reserved \in Number(HashBytes) /\ HashBytes \in Nat
  BY <1>1, JobsAssumption, WidthsAssumption
<1>6. /\ stratumDumpHex(header.hashPrevBlock) = notice.prevHash
      /\ stratumDumpHex(header.hashMerkleRoot) = notice.merkleroot
      /\ stratumDumpHex(header.hashReserved) = notice.reserved
      /\ stratumDumpHex(header.nBits) = notice.bits
      /\ stratumDumpHex(header.nVersion) = notice.version
  BY <1>3, <1>4, <1>5, WrittenAndRead, NoticeIsMemory, SameVersion
<1>7. /\ Agree(message.params[3].text, stratumDumpHex(submit.time))
      /\ submit.nonce \in Number(NonceBytes) /\ message.params[4].text \in Seq(Digit)
      /\ \A c \in 1..Len(message.params[4].text) :
           c <= 2 * NonceBytes =>
             message.params[4].text[c] = stratumDumpHex(submit.nonce)[c]
      /\ submit.equihashSolution = BytesOf(message.params[5].text)
      /\ submit.equihashSolution \in Seq(Byte)
  BY <1>1, <1>2, Fields
<1>8. Len(submit.equihashSolution) >= SkipBytes + 1
  <2>1. Len(submit.equihashSolution) \in Nat /\ SkipBytes \in Nat
    BY <1>7, WidthsAssumption
  <2> QED BY <1>1, <2>1 DEF ShortSolution
<1>9. message.params[5].text \in Text /\ IsHex(message.params[5].text)
  BY <1>1, SubmittedTexts
<1>10. stratumDumpHex(header.solution)
         = SubSeq(message.params[5].text, 2 * SkipBytes + 1,
                  Len(message.params[5].text))
  BY <1>3, <1>7, <1>8, <1>9, RestOfText
<1>11. Agree([d \in 1..(2 * ZeroBytes) |-> 0] \o message.params[4].text,
             stratumDumpHex(header.nNonce))
  BY <1>3, <1>7, ZerosThenNonce
<1> QED BY <1>3, <1>6, <1>7, <1>10, <1>11

\* What is claimed reads as the nonce of the header.
LEMMA InvNonce == CodecInv => WalletGetsNonce
<1> SUFFICES ASSUME CodecInv, stage = "offered" PROVE SetHex(claim) = header.nNonce
  BY DEF WalletGetsNonce
<1>1. claim = GetHex(header.nNonce) /\ header = Judged(job, submit)
      /\ submit # Nothing /\ message \in Messages /\ DecodesSubmit(message)
  BY DEF CodecInv
<1>2. PICK memory \in Leftovers : submit = Submit(message, memory)
  BY <1>1 DEF CodecInv
<1>3. header.nNonce \in Number(HashBytes)
  <2>1. header.nNonce = [n \in 1..ZeroBytes |-> 0] \o submit.nonce
    BY <1>1 DEF Judged
  <2>2. /\ submit.nonce \in Number(NonceBytes) /\ message.params[4].text \in Seq(Digit)
        /\ \A c \in 1..Len(message.params[4].text) :
             c <= 2 * NonceBytes =>
               message.params[4].text[c] = stratumDumpHex(submit.nonce)[c]
    BY <1>1, <1>2, Fields
  <2> QED BY <2>1, <2>2, ZerosThenNonce
<1> QED BY <1>1, <1>3, WrittenAndRead

-----------------------------------------------------------------------------
\* For every base, width and line, and however long its texts: a submission is
\* accepted exactly if they are whole bytes, and what its fields hold is bytes,
\* unless readHex wrote past the array.  stratum.cpp:43-71, 156-159.
THEOREM FieldsAreBytes == Spec => []CodecTypeOK
BY CodecInit, CodecStep, InvTypes, PTL DEF Spec

\* For every job, line and memory the fields are read into, the header a miner
\* reads out of the texts is the one the pool hashes, in each of its fields.
THEOREM SameHeader == Spec => []MinerAndPoolAgree
BY CodecInit, CodecStep, InvAgree, PTL DEF Spec

\* The wallet is offered the nonce the share was judged with.
THEOREM SameNonce == Spec => []WalletGetsNonce
BY CodecInit, CodecStep, InvNonce, PTL DEF Spec
=============================================================================
