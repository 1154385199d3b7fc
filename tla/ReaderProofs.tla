---------------------------- MODULE ReaderProofs ----------------------------
(***************************************************************************)
(* The line reader for every buffer size, number and size of lines.        *)
(*                                                                         *)
(* The invariant that is inductive says what the buffer holds: the bytes   *)
(* received since the line that is being handled, or read, began.          *)
(***************************************************************************)
EXTENDS ReaderProperties, SequenceTheorems, WellFoundedInduction, TLAPS

\* The line that is handled, or the next one.
Current == IF phase = "handle" THEN Len(handled) ELSE Len(handled) + 1

\* Lines follow each other in the stream.
LinesFollow ==
  /\ \A i \in DOMAIN sent : 0 < sent[i].end
  /\ \A i, j \in DOMAIN sent : i < j => sent[i].end < sent[j].end

\* The buffer holds what was received since the current line began.
BufferIsCurrent ==
  /\ received <= Written
  /\ Len(buffer) = received - Start(Current)
  /\ \A k \in 1..Len(buffer) : buffer[k] = Start(Current) + k

\* A handler runs for the line that begins the buffer.
HandlesFirst ==
  phase = "handle" =>
    /\ handled # <<>>
    /\ message = Size(Len(handled)) /\ message \in 1..Len(buffer)

\* A buffer that is full holds no complete line.
FullHoldsNoLine ==
  phase = "read" /\ Space = 0 =>
    \A k \in 1..Len(buffer) : ~IsNewline(buffer[k])

ReaderInv ==
  /\ ReaderTypeOK /\ LinesFollow /\ LinesArriveIntact
  /\ BufferIsCurrent /\ HandlesFirst /\ FullHoldsNoLine
  /\ DroppedForAReason

-----------------------------------------------------------------------------
\* A set of positions has a first one.
LEMMA FirstPosition ==
  ASSUME NEW S \in SUBSET Nat, S # {}
  PROVE  \E p \in S : \A q \in S : p <= q
<1> DEFINE Less == OpToRel(<, Nat)
<1>1. PICK p \in S : \A q \in S : ~(<<q, p>> \in Less)
  <2>1. IsWellFoundedOn(Less, Nat)
    BY NatLessThanWellFounded
  <2> HIDE DEF Less
  <2> QED BY <2>1, WFMin
<1>2. ASSUME NEW q \in S PROVE p <= q
  <2>1. p \in Nat /\ q \in Nat
    OBVIOUS
  <2>2. ~(q < p)
    BY <1>1, <2>1 DEF OpToRel
  <2> QED BY <2>1, <2>2
<1> QED BY <1>2

\* Where a line starts is a number, before its end.
LEMMA StartIsBefore ==
  ASSUME ReaderTypeOK, LinesFollow
  PROVE  /\ \A i \in 1..(Len(sent) + 1) : Start(i) \in Nat
         /\ \A i \in DOMAIN sent : Start(i) < sent[i].end
         /\ \A i \in DOMAIN sent : sent[i].end \in Nat
         /\ \A i \in DOMAIN sent : Start(i + 1) = sent[i].end
         /\ \A i \in DOMAIN sent : sent[i].end <= Written
         /\ Written \in Nat
<1>1. \A i \in DOMAIN sent : sent[i].end \in Nat
  <2>1. sent \in Seq([kind : Kinds, end : Nat])
    BY DEF ReaderTypeOK
  <2>2. \A i \in 1..Len(sent) : sent[i] \in [kind : Kinds, end : Nat]
    BY <2>1, ElementOfSeq
  <2>3. DOMAIN sent = 1..Len(sent)
    BY <2>1
  <2> QED BY <2>2, <2>3
<1>2. DOMAIN sent = 1..Len(sent) /\ Len(sent) \in Nat
  BY DEF ReaderTypeOK
<1>3. \A i \in DOMAIN sent : Start(i + 1) = sent[i].end
  BY <1>2 DEF Start
<1>4. \A i \in 1..(Len(sent) + 1) : i = 1 \/ i - 1 \in DOMAIN sent
  BY <1>2
<1>5. \A i \in 1..(Len(sent) + 1) : Start(i) \in Nat
  BY <1>1, <1>4 DEF Start
<1>6. \A i \in DOMAIN sent : Start(i) < sent[i].end
  BY <1>2, <1>4 DEF Start, LinesFollow
<1>7. Written \in Nat
  BY <1>2, <1>5 DEF Written
<1>8. \A i \in DOMAIN sent : sent[i].end <= Written
  <2> SUFFICES ASSUME NEW i \in DOMAIN sent PROVE sent[i].end <= Written
    OBVIOUS
  <2>1. Len(sent) \in DOMAIN sent /\ Written = sent[Len(sent)].end
    BY <1>2 DEF Written, Start
  <2>2. i = Len(sent) \/ i < Len(sent)
    BY <1>2
  <2> QED BY <2>1, <2>2, <1>1 DEF LinesFollow
<1> QED BY <1>1, <1>3, <1>5, <1>6, <1>7, <1>8

\* Initially nothing was sent.
LEMMA ReaderInit == Init => ReaderInv
<1> SUFFICES ASSUME Init PROVE ReaderInv
  OBVIOUS
<1> USE DEF Init
<1>1. ReaderTypeOK
  BY BufferAssumption DEF ReaderTypeOK
<1>2. LinesFollow /\ LinesArriveIntact
  BY DEF LinesFollow, LinesArriveIntact
<1>3. BufferIsCurrent
  BY DEF BufferIsCurrent, Written, Start, Current
<1>4. HandlesFirst /\ FullHoldsNoLine /\ DroppedForAReason
  BY DEF HandlesFirst, FullHoldsNoLine, DroppedForAReason
<1> QED BY <1>1, <1>2, <1>3, <1>4 DEF ReaderInv

\* A line written goes behind the others, and beyond what was received.
LEMMA WritePreserves ==
  ASSUME ReaderInv, NEW kind \in Kinds, NEW size \in LineSizes,
         ClientWrites(kind, size)
  PROVE  ReaderInv'
<1> DEFINE n == Len(sent) + 1
<1>1. /\ n \in Nat /\ DOMAIN sent = 1..(n - 1) /\ Written \in Nat
      /\ \A i \in DOMAIN sent : sent[i].end <= Written /\ sent[i].end \in Nat
  BY StartIsBefore DEF ReaderInv, ReaderTypeOK
<1>2. size \in Nat /\ 0 < size
  BY LinesAssumption
<1>3. sent' = Append(sent, [kind |-> kind, end |-> Written + size])
  BY DEF ClientWrites
<1>4. /\ Len(sent') = n /\ DOMAIN sent' = 1..n
      /\ sent'[n] = [kind |-> kind, end |-> Written + size]
      /\ \A i \in DOMAIN sent : sent'[i] = sent[i]
  BY <1>1, <1>3 DEF ReaderInv, ReaderTypeOK
<1>5. UNCHANGED <<open, received, buffer, message, phase, handled>>
  BY DEF ClientWrites, readerVars
<1>6. ReaderTypeOK'
  <2>1. sent' \in Seq([kind : Kinds, end : Nat])
    BY <1>1, <1>2, <1>3 DEF ReaderInv, ReaderTypeOK
  <2> QED BY <2>1, <1>5 DEF ReaderInv, ReaderTypeOK
<1>7. LinesFollow'
  BY <1>1, <1>2, <1>4 DEF ReaderInv, LinesFollow
<1>8. \A i \in 1..n : Start(i)' = Start(i)
  BY <1>1, <1>4 DEF Start
<1>9. \A i \in DOMAIN sent : Size(i)' = Size(i) /\ Body(i)' = Body(i)
  <2> SUFFICES ASSUME NEW i \in DOMAIN sent
               PROVE  Size(i)' = Size(i) /\ Body(i)' = Body(i)
    OBVIOUS
  <2>1. Size(i)' = Size(i)
    BY <1>1, <1>4, <1>8 DEF Size
  <2> QED BY <2>1, <1>1, <1>8 DEF Body
<1>10. Len(handled) \in Nat /\ Len(handled) <= Len(sent)
       /\ DOMAIN handled = 1..Len(handled)
  BY DEF ReaderInv, ReaderTypeOK, LinesArriveIntact
<1>11. LinesArriveIntact'
  <2>1. \A i \in DOMAIN handled : i \in DOMAIN sent
    BY <1>1, <1>10
  <2> QED BY <2>1, <1>1, <1>4, <1>5, <1>9, <1>10
             DEF ReaderInv, LinesArriveIntact
<1>12. Current' = Current /\ Current \in 1..n
  BY <1>1, <1>5, <1>10 DEF Current, ReaderInv, HandlesFirst
<1>13. Written' = Written + size
  BY <1>1, <1>4 DEF Written, Start
<1>14. BufferIsCurrent'
  <2>1. received \in Nat
    BY DEF ReaderInv, ReaderTypeOK
  <2> QED BY <2>1, <1>1, <1>2, <1>5, <1>8, <1>12, <1>13
             DEF ReaderInv, BufferIsCurrent
<1>15. HandlesFirst'
  <2>1. phase = "handle" => Len(handled) \in DOMAIN sent
    BY <1>1, <1>10 DEF ReaderInv, HandlesFirst
  <2> QED BY <2>1, <1>5, <1>9 DEF ReaderInv, HandlesFirst
<1>16. FullHoldsNoLine'
  <2> SUFFICES ASSUME phase = "read", Space = 0, NEW k \in 1..Len(buffer),
                      NEW i \in 1..n, sent'[i].end = buffer[k]
               PROVE  FALSE
    BY <1>4, <1>5 DEF FullHoldsNoLine, Space, IsNewline
  <2>1. buffer[k] <= received /\ received <= Written /\ received \in Nat
        /\ buffer[k] \in Nat
    <3> DEFINE c == Start(Current)
    <3>1. /\ c \in Nat /\ received \in Nat /\ received <= Written
          /\ Len(buffer) = received - c /\ buffer[k] = c + k
      BY StartIsBefore, <1>12
         DEF ReaderInv, BufferIsCurrent, ReaderTypeOK
    <3> HIDE DEF c
    <3> QED BY <3>1
  <2>2. i # n
    BY <2>1, <1>1, <1>2, <1>4
  <2>3. i \in DOMAIN sent /\ sent[i].end = buffer[k]
    BY <2>2, <1>1, <1>4
  <2> QED BY <2>3 DEF ReaderInv, FullHoldsNoLine, IsNewline
<1>17. DroppedForAReason'
  <2>1. handled # <<>> => Len(handled) \in DOMAIN sent
    BY <1>1, <1>10
  <2>2. Len(handled) < Len(sent) => Len(handled) + 1 \in DOMAIN sent
    BY <1>1, <1>10
  <2> QED BY <2>1, <2>2, <1>1, <1>4, <1>5, <1>9, <1>10
             DEF ReaderInv, DroppedForAReason
<1> QED BY <1>6, <1>7, <1>11, <1>14, <1>15, <1>16, <1>17 DEF ReaderInv

\* What holds while the lines written do not change.
LEMMA SameLines ==
  ASSUME UNCHANGED sent
  PROVE  /\ \A i : Start(i)' = Start(i) /\ Size(i)' = Size(i)
                   /\ Body(i)' = Body(i)
         /\ Written' = Written
         /\ LinesFollow => LinesFollow'
<1>1. \A i : Start(i)' = Start(i)
  BY DEF Start
<1>2. \A i : Size(i)' = Size(i)
  BY <1>1 DEF Size
<1> QED BY <1>1, <1>2 DEF Body, Written, Start, LinesFollow

\* A closed connection changes nothing of the reader.
LEMMA LeavePreserves ==
  ASSUME ReaderInv, ClientLeaves
  PROVE  ReaderInv'
<1>1. /\ open' = FALSE
      /\ UNCHANGED <<sent, received, buffer, message, phase, handled>>
  BY DEF ClientLeaves, readerVars
<1>2. ReaderTypeOK' /\ DroppedForAReason'
  BY <1>1 DEF ReaderInv, ReaderTypeOK, DroppedForAReason
<1>3. LinesFollow' /\ LinesArriveIntact'
  BY <1>1, SameLines DEF ReaderInv, LinesArriveIntact
<1>4. Current' = Current /\ Space' = Space
  BY <1>1 DEF Current, Space
<1>5. BufferIsCurrent' /\ HandlesFirst'
  BY <1>1, <1>4, SameLines DEF ReaderInv, BufferIsCurrent, HandlesFirst
<1>6. FullHoldsNoLine'
  BY <1>1, <1>4 DEF ReaderInv, FullHoldsNoLine, IsNewline
<1> QED BY <1>2, <1>3, <1>5, <1>6 DEF ReaderInv

\* The bytes read extend the current line and what follows it.
LEMMA ReadExtends ==
  ASSUME ReaderInv, NEW size \in 1..(BufferSize - 1), Read(size)
  PROVE  /\ received' = received + size /\ received' <= Written
         /\ received' \in Nat
         /\ Len(buffer') = Len(buffer) + size /\ buffer' \in Seq(Nat)
         /\ Len(buffer') = received' - Start(Current)
         /\ \A k \in 1..Len(buffer') : buffer'[k] = Start(Current) + k
         /\ Len(buffer') < BufferSize
         /\ Current = Len(handled) + 1 /\ Current \in 1..(Len(sent) + 1)
         /\ Start(Current) \in Nat
<1>1. /\ received' = received + size /\ received' <= Written
      /\ buffer' = buffer \o [k \in 1..size |-> received + k]
      /\ size <= BufferSize - Len(buffer) - 1
  BY DEF Read, Space
<1>2. /\ received \in Nat /\ buffer \in Seq(Nat) /\ size \in Nat
      /\ BufferSize \in Nat /\ Len(handled) \in Nat /\ Len(sent) \in Nat
  BY BufferAssumption DEF ReaderInv, ReaderTypeOK
<1>3. Current = Len(handled) + 1 /\ Current \in 1..(Len(sent) + 1)
  BY <1>2 DEF Read, Current, ReaderInv, LinesArriveIntact
<1>4. Start(Current) \in Nat
  BY <1>3, StartIsBefore DEF ReaderInv
<1>5. [k \in 1..size |-> received + k] \in Seq(Nat)
      /\ Len([k \in 1..size |-> received + k]) = size
  BY <1>2
<1>6. Len(buffer') = Len(buffer) + size /\ buffer' \in Seq(Nat)
  BY <1>1, <1>2, <1>5
<1>7. Len(buffer) = received - Start(Current)
  BY DEF ReaderInv, BufferIsCurrent
<1>8. \A k \in 1..Len(buffer') : buffer'[k] = Start(Current) + k
  <2> SUFFICES ASSUME NEW k \in 1..Len(buffer')
               PROVE  buffer'[k] = Start(Current) + k
    OBVIOUS
  <2>1. CASE k \in 1..Len(buffer)
    BY <2>1, <1>1, <1>2, <1>5 DEF ReaderInv, BufferIsCurrent
  <2>2. CASE k > Len(buffer)
    <3>1. k - Len(buffer) \in 1..size
      BY <2>2, <1>2, <1>6
    <3>2. buffer'[k] = received + (k - Len(buffer))
      BY <3>1, <2>2, <1>1, <1>2, <1>5, <1>6
    <3> QED BY <3>2, <1>2, <1>4, <1>7
  <2> QED BY <2>1, <2>2, <1>2, <1>6
<1>9. Len(buffer) \in Nat
  BY <1>2
<1>10. Len(buffer') = received' - Start(Current)
  BY <1>1, <1>2, <1>4, <1>6, <1>7, <1>9
<1>11. Len(buffer') < BufferSize
  BY <1>1, <1>2, <1>6, <1>9
<1>12. received' \in Nat
  BY <1>1, <1>2
<1> QED BY <1>1, <1>3, <1>4, <1>6, <1>8, <1>10, <1>11, <1>12

\* The first newline found is the end of the current line.
LEMMA FirstNewlineEndsCurrent ==
  ASSUME ReaderInv, NEW size \in 1..(BufferSize - 1), Read(size),
         NEW p \in DOMAIN buffer', FirstNewline(buffer', p)
  PROVE  /\ Current \in DOMAIN sent
         /\ p = Size(Current) /\ p \in 1..Len(buffer')
         /\ SubSeq(buffer', 1, p - 1) = Body(Current)
<1>1. /\ buffer' \in Seq(Nat) /\ DOMAIN buffer' = 1..Len(buffer')
      /\ \A k \in 1..Len(buffer') : buffer'[k] = Start(Current) + k
      /\ Current \in 1..(Len(sent) + 1) /\ Start(Current) \in Nat
  BY ReadExtends
<1>0. p \in Nat /\ 0 < p
  <2>1. Len(buffer') \in Nat
    BY <1>1
  <2> QED BY <2>1, <1>1
<1>2. PICK i \in DOMAIN sent : sent[i].end = Start(Current) + p
  BY <1>1 DEF FirstNewline, IsNewline
<1>3. \A q \in 1..(p - 1) : \A j \in DOMAIN sent :
        sent[j].end # Start(Current) + q
  BY <1>1 DEF FirstNewline, IsNewline
<1>4. DOMAIN sent = 1..Len(sent) /\ Len(sent) \in Nat
      /\ \A j \in DOMAIN sent : sent[j].end \in Nat
      /\ i \in Nat /\ Current \in Nat
  <2>1. sent \in Seq([kind : Kinds, end : Nat])
    BY DEF ReaderInv, ReaderTypeOK
  <2>2. DOMAIN sent = 1..Len(sent) /\ Len(sent) \in Nat
    BY <2>1
  <2>3. i \in Nat /\ Current \in Nat
    BY <2>2, <1>1
  <2> QED BY <2>2, <2>3, StartIsBefore DEF ReaderInv
<1>5. i >= Current
  <2> SUFFICES ASSUME i < Current PROVE FALSE
    BY <1>1, <1>4
  <2>1. Current - 1 \in DOMAIN sent /\ Current # 1
    BY <1>1, <1>4
  <2>2. Start(Current) = sent[Current - 1].end
    BY <2>1 DEF Start
  <2> DEFINE c == Current
  <2>3. i = c - 1 \/ i < c - 1
    <3>1. i \in Nat /\ c \in Nat /\ i < c
      BY <1>4
    <3> HIDE DEF c
    <3> QED BY <3>1
  <2>4. sent[i].end <= sent[Current - 1].end
    BY <2>1, <2>3, <1>4 DEF ReaderInv, LinesFollow
  <2> QED BY <2>2, <2>4, <1>1, <1>2
<1>6. Current \in DOMAIN sent
  BY <1>1, <1>4, <1>5
<1>7. i = Current
  <2> SUFFICES ASSUME Current < i PROVE FALSE
    BY <1>1, <1>4, <1>5
  <2>1. sent[Current].end < sent[i].end
    BY <1>6 DEF ReaderInv, LinesFollow
  <2>2. Start(Current) < sent[Current].end
    BY <1>6, StartIsBefore DEF ReaderInv
  <2> DEFINE s == Start(Current)
             e == sent[Current].end
  <2>3. e - s \in 1..(p - 1)
    <3>1. s \in Nat /\ e \in Nat /\ p \in Nat /\ s < e /\ e < s + p
      BY <2>1, <2>2, <1>0, <1>1, <1>2, <1>4, <1>6
    <3> HIDE DEF s, e
    <3> QED BY <3>1
  <2>4. sent[Current].end
          = Start(Current) + (sent[Current].end - Start(Current))
    BY <1>1, <1>4, <1>6
  <2> QED BY <2>3, <2>4, <1>3, <1>6
<1>8. p = Size(Current)
  BY <1>1, <1>2, <1>4, <1>7 DEF Size
<1>9. SubSeq(buffer', 1, p - 1) = [k \in 1..(p - 1) |-> Start(Current) + k]
  BY <1>1
<1> QED BY <1>1, <1>6, <1>8, <1>9 DEF Body

\* A read that completes no line.
LEMMA ReadWithoutLine ==
  ASSUME ReaderInv, NEW size \in 1..(BufferSize - 1), Read(size),
         \A p \in DOMAIN buffer' : ~FirstNewline(buffer', p),
         UNCHANGED <<message, phase, handled>>
  PROVE  ReaderInv'
<1>1. phase = "read" /\ UNCHANGED <<sent, open>>
  BY DEF Read, clientVars
<1>2. ReaderTypeOK'
  <2>1. received' \in Nat
    BY ReadExtends
  <2> QED BY <1>1, <2>1, ReadExtends DEF ReaderInv, ReaderTypeOK
<1>3. LinesFollow' /\ LinesArriveIntact'
  BY <1>1, SameLines DEF ReaderInv, LinesArriveIntact
<1>4. Current' = Current
  BY DEF Current
<1>5. BufferIsCurrent'
  BY <1>1, <1>4, ReadExtends, SameLines DEF BufferIsCurrent
<1>6. HandlesFirst' /\ DroppedForAReason'
  BY <1>1 DEF HandlesFirst, DroppedForAReason
<1>7. FullHoldsNoLine'
  <2> SUFFICES ASSUME NEW k \in 1..Len(buffer'), IsNewline(buffer'[k])
               PROVE  FALSE
    BY <1>1 DEF FullHoldsNoLine, IsNewline
  <2>1. DOMAIN buffer' = 1..Len(buffer') /\ Len(buffer') \in Nat
    BY ReadExtends
  <2> DEFINE N == {q \in Nat : q \in 1..Len(buffer') /\ IsNewline(buffer'[q])}
  <2>2. N # {} /\ N \subseteq Nat
    BY <2>1
  <2>3. PICK p \in N : \A q \in N : p <= q
    <3> HIDE DEF N
    <3> QED BY <2>2, FirstPosition
  <2>4. FirstNewline(buffer', p)
    BY <2>1, <2>3 DEF FirstNewline
  <2> QED BY <2>1, <2>3, <2>4
<1> QED BY <1>2, <1>3, <1>5, <1>6, <1>7 DEF ReaderInv

\* A read that completes a line: it is the current one.
LEMMA ReadWithLine ==
  ASSUME ReaderInv, NEW size \in 1..(BufferSize - 1), Read(size),
         NEW p \in DOMAIN buffer', FirstNewline(buffer', p),
         message' = p, phase' = "handle",
         handled' = Append(handled, SubSeq(buffer', 1, p - 1))
  PROVE  ReaderInv'
<1>1. phase = "read" /\ UNCHANGED <<sent, open>>
  BY DEF Read, clientVars
<1>2. /\ Current \in DOMAIN sent
      /\ p = Size(Current) /\ p \in 1..Len(buffer')
      /\ SubSeq(buffer', 1, p - 1) = Body(Current)
  BY FirstNewlineEndsCurrent
<1>3. Len(handled) \in Nat /\ handled \in Seq(Seq(Nat))
  BY DEF ReaderInv, ReaderTypeOK
<1>4. buffer' \in Seq(Nat) /\ Len(buffer') \in Nat /\ p \in Nat
  <2>1. buffer' \in Seq(Nat)
    BY ReadExtends
  <2>2. Len(buffer') \in Nat
    BY <2>1
  <2> QED BY <1>2, <2>1, <2>2
<1>5. SubSeq(buffer', 1, p - 1) \in Seq(Nat)
  BY <1>2, <1>4
<1>6. /\ handled' \in Seq(Seq(Nat)) /\ Len(handled') = Len(handled) + 1
      /\ handled'[Len(handled) + 1] = SubSeq(buffer', 1, p - 1)
      /\ \A i \in 1..Len(handled) : handled'[i] = handled[i]
      /\ DOMAIN handled' = 1..(Len(handled) + 1)
  BY <1>3, <1>5
<1>7. ReaderTypeOK'
  <2>1. received' \in Nat
    BY ReadExtends
  <2> QED BY <1>1, <1>4, <1>6, <2>1, ReadExtends DEF ReaderInv, ReaderTypeOK
<1>8. Current = Len(handled) + 1 /\ Current' = Current
  BY <1>1, <1>6, ReadExtends DEF Current
<1>9. LinesFollow' /\ LinesArriveIntact'
  <2>1. Len(handled') <= Len(sent')
    <3>1. sent \in Seq([kind : Kinds, end : Nat])
      BY DEF ReaderInv, ReaderTypeOK
    <3>2. DOMAIN sent = 1..Len(sent)
      BY <3>1
    <3> QED BY <1>1, <1>2, <1>6, <1>8, <3>2
  <2>2. \A i \in DOMAIN handled' : handled'[i] = Body(i)
    <3>1. \A i \in DOMAIN handled' : i \in 1..Len(handled) \/ i = Current
      BY <1>3, <1>6, <1>8
    <3>2. DOMAIN handled = 1..Len(handled)
      BY <1>3
    <3> QED BY <1>2, <1>6, <1>8, <3>1, <3>2 DEF ReaderInv, LinesArriveIntact
  <2> QED BY <1>1, <2>1, <2>2, SameLines DEF ReaderInv, LinesArriveIntact
<1>10. BufferIsCurrent'
  BY <1>1, <1>8, ReadExtends, SameLines DEF BufferIsCurrent
<1>11. HandlesFirst'
  <2>1. handled' # <<>>
    BY <1>3, <1>6
  <2> QED BY <1>1, <1>2, <1>6, <1>8, <2>1, SameLines DEF HandlesFirst
<1>12. FullHoldsNoLine' /\ DroppedForAReason'
  BY DEF FullHoldsNoLine, DroppedForAReason
<1> QED BY <1>7, <1>9, <1>10, <1>11, <1>12 DEF ReaderInv

\* The rest moves to the begin of the buffer: the next line is current.
LEMMA HandlerPreserves ==
  ASSUME MemcpyForward, ReaderInv, HandlerReturns
  PROVE  ReaderInv'
<1> DEFINE n == Len(handled)
<1>1. /\ phase = "handle" /\ phase' \in {"read", "ended"} /\ message' = 0
      /\ UNCHANGED <<sent, open, received, handled>>
      /\ buffer' = [k \in 1..Remaining |-> buffer[message + k]]
  BY DEF HandlerReturns, clientVars, Moved, MovedForward
<1>2. /\ handled # <<>> /\ message = Size(n) /\ message \in 1..Len(buffer)
      /\ Current = n
  BY <1>1 DEF ReaderInv, HandlesFirst, Current
<1>3. /\ received \in Nat /\ buffer \in Seq(Nat) /\ Len(buffer) \in Nat
      /\ message \in Nat /\ Len(buffer) < BufferSize /\ BufferSize \in Nat
      /\ handled \in Seq(Seq(Nat)) /\ n \in Nat
      /\ DOMAIN sent = 1..Len(sent) /\ Len(sent) \in Nat
  <2>1. sent \in Seq([kind : Kinds, end : Nat])
    BY DEF ReaderInv, ReaderTypeOK
  <2>2. DOMAIN sent = 1..Len(sent) /\ Len(sent) \in Nat
    BY <2>1
  <2> QED BY <2>2, BufferAssumption DEF ReaderInv, ReaderTypeOK
<1>4. n \in DOMAIN sent
  BY <1>2, <1>3 DEF ReaderInv, LinesArriveIntact
<1>5. /\ Start(n) \in Nat /\ sent[n].end \in Nat
      /\ Start(n + 1) = sent[n].end /\ sent[n].end = Start(n) + message
  <2>1. Start(n) \in Nat /\ sent[n].end \in Nat /\ Start(n + 1) = sent[n].end
    BY <1>3, <1>4, StartIsBefore DEF ReaderInv
  <2>2. message = sent[n].end - Start(n)
    BY <1>2 DEF Size
  <2> QED BY <2>1, <2>2
<1>6. Remaining \in Nat /\ Remaining = Len(buffer) - message
  BY <1>2, <1>3 DEF Remaining
<1>7. /\ buffer' \in Seq(Nat) /\ Len(buffer') = Remaining
      /\ \A k \in 1..Remaining : buffer'[k] = buffer[message + k]
  <2>1. ASSUME NEW k \in 1..Remaining
        PROVE  message + k \in 1..Len(buffer)
    <3>1. /\ k \in Int /\ 1 <= k /\ k <= Len(buffer) - message
          /\ message \in Nat /\ Len(buffer) \in Nat
      BY <1>3, <1>6
    <3> QED BY <3>1
  <2>2. \A k \in 1..Remaining : buffer[message + k] \in Nat
    BY <2>1, <1>3
  <2> QED BY <1>1, <1>6, <2>2
<1>8. ReaderTypeOK'
  BY <1>1, <1>2, <1>3, <1>6, <1>7 DEF ReaderInv, ReaderTypeOK
<1>9. LinesFollow' /\ LinesArriveIntact'
  BY <1>1, SameLines DEF ReaderInv, LinesArriveIntact
<1>10. Current' = n + 1 /\ Start(Current)' = Start(n) + message
  BY <1>1, <1>5, SameLines DEF Current
<1>11. BufferIsCurrent'
  <2>1. /\ received <= Written /\ Len(buffer) = received - Start(n)
        /\ \A k \in 1..Len(buffer) : buffer[k] = Start(n) + k
    BY <1>2 DEF ReaderInv, BufferIsCurrent
  <2>2. received' <= Written'
    BY <1>1, <2>1, SameLines
  <2>3. Len(buffer') = received' - Start(Current)'
    BY <1>1, <1>3, <1>5, <1>6, <1>7, <1>10, <2>1
  <2>4. ASSUME NEW k \in 1..Len(buffer')
        PROVE  buffer'[k] = Start(Current)' + k
    <3>1. k \in 1..(Len(buffer) - message)
      BY <1>6, <1>7
    <3>2. message + k \in 1..Len(buffer)
      BY <3>1, <1>3
    <3>3. buffer'[k] = Start(n) + (message + k)
      BY <2>1, <3>1, <3>2, <1>6, <1>7
    <3> QED BY <3>1, <3>3, <1>3, <1>5, <1>10
  <2> QED BY <2>2, <2>3, <2>4 DEF BufferIsCurrent
<1>12. HandlesFirst'
  BY <1>1 DEF HandlesFirst
<1>13. FullHoldsNoLine'
  <2>1. Space' # 0
    BY <1>2, <1>3, <1>6, <1>7 DEF Space
  <2> QED BY <2>1 DEF FullHoldsNoLine
<1>14. DroppedForAReason'
  <2>1. PICK kind \in Decoded(handled[n]) :
          phase' = IF kind = "notJson" THEN "ended" ELSE "read"
    BY DEF HandlerReturns
  <2>2. n \in DOMAIN handled
    BY <1>2, <1>3
  <2>3. sent[n].kind = kind
    BY <1>4, <2>1, <2>2 DEF Decoded, ReaderInv, LinesArriveIntact
  <2> QED BY <1>1, <1>2, <2>1, <2>3 DEF DroppedForAReason
<1> QED BY <1>8, <1>9, <1>11, <1>12, <1>13, <1>14 DEF ReaderInv

\* The loop ends without a line: nobody is there, or the buffer is full.
LEMMA FailPreserves ==
  ASSUME ReaderInv, ReadFails
  PROVE  ReaderInv'
<1>1. /\ phase = "read" /\ phase' = "ended" /\ (~open \/ Space = 0)
      /\ UNCHANGED <<sent, open, received, buffer, message, handled>>
  BY DEF ReadFails, clientVars
<1>2. ReaderTypeOK'
  BY <1>1 DEF ReaderInv, ReaderTypeOK
<1>3. LinesFollow' /\ LinesArriveIntact'
  BY <1>1, SameLines DEF ReaderInv, LinesArriveIntact
<1>4. Current' = Current /\ Current = Len(handled) + 1
  BY <1>1 DEF Current
<1>5. BufferIsCurrent'
  BY <1>1, <1>4, SameLines DEF ReaderInv, BufferIsCurrent
<1>6. HandlesFirst' /\ FullHoldsNoLine'
  BY <1>1 DEF HandlesFirst, FullHoldsNoLine
<1>7. DroppedForAReason'
  <2> SUFFICES ASSUME Space = 0
               PROVE  /\ Len(handled) < Len(sent)
                      /\ Size(Len(handled) + 1) >= BufferSize
    BY <1>1, SameLines DEF DroppedForAReason
  <2> DEFINE n == Len(handled) + 1
  <2>1. /\ received \in Nat /\ buffer \in Seq(Nat) /\ Len(buffer) \in Nat
        /\ BufferSize \in Nat \ {0, 1} /\ Len(handled) \in Nat
        /\ DOMAIN sent = 1..Len(sent) /\ Len(sent) \in Nat
    <3>1. sent \in Seq([kind : Kinds, end : Nat])
      BY DEF ReaderInv, ReaderTypeOK
    <3>2. DOMAIN sent = 1..Len(sent) /\ Len(sent) \in Nat
      BY <3>1
    <3> QED BY <3>2, BufferAssumption DEF ReaderInv, ReaderTypeOK
  <2>2. Len(buffer) = BufferSize - 1
    BY <2>1 DEF Space
  <2>3. /\ received <= Written /\ Len(buffer) = received - Start(n)
        /\ \A k \in 1..Len(buffer) : buffer[k] = Start(n) + k
    BY <1>4 DEF ReaderInv, BufferIsCurrent
  <2>4. Len(handled) <= Len(sent)
    BY DEF ReaderInv, LinesArriveIntact
  <2>5. n \in 1..(Len(sent) + 1)
    BY <2>1, <2>4
  <2>6. Start(n) \in Nat /\ Written \in Nat
    BY <2>5, StartIsBefore DEF ReaderInv
  <2>7. Len(handled) < Len(sent)
    <3> SUFFICES ASSUME Len(handled) = Len(sent) PROVE FALSE
      BY <2>1, <2>4
    <3>1. Start(n) = Written
      BY DEF Written
    <3> QED BY <3>1, <2>1, <2>2, <2>3, <2>6
  <2>8. n \in DOMAIN sent
    BY <2>1, <2>7
  <2>9. sent[n].end \in Nat /\ Start(n) < sent[n].end
    BY <2>8, StartIsBefore DEF ReaderInv
  <2>10. ~(sent[n].end - Start(n) \in 1..Len(buffer))
    <3> SUFFICES ASSUME sent[n].end - Start(n) \in 1..Len(buffer) PROVE FALSE
      OBVIOUS
    <3>1. buffer[sent[n].end - Start(n)] = sent[n].end
      BY <2>3, <2>6, <2>9
    <3> QED BY <3>1, <2>8, <1>1 DEF ReaderInv, FullHoldsNoLine, IsNewline
  <2>11. sent[n].end - Start(n) >= BufferSize
    BY <2>1, <2>2, <2>6, <2>9, <2>10
  <2> QED BY <2>7, <2>11 DEF Size
<1> QED BY <1>2, <1>3, <1>5, <1>6, <1>7 DEF ReaderInv

\* Every step keeps the invariant when memcpy copies like memmove.
LEMMA ReaderStep ==
  ASSUME MemcpyForward, ReaderInv, [Next]_vars
  PROVE  ReaderInv'
<1>1. ASSUME NEW kind \in Kinds, NEW size \in LineSizes,
             ClientWrites(kind, size)
      PROVE  ReaderInv'
  BY <1>1, WritePreserves
<1>2. CASE ClientLeaves
  BY <1>2, LeavePreserves
<1>3. ASSUME NEW size \in 1..(BufferSize - 1), Read(size)
      PROVE  ReaderInv'
  <2>1. CASE \A p \in DOMAIN buffer' : ~FirstNewline(buffer', p)
    <3>1. UNCHANGED <<message, phase, handled>>
      BY <1>3, <2>1 DEF Read
    <3> QED BY <1>3, <2>1, <3>1, ReadWithoutLine
  <2>2. CASE \E p \in DOMAIN buffer' :
               /\ FirstNewline(buffer', p)
               /\ message' = p /\ phase' = "handle"
               /\ handled' = Append(handled, SubSeq(buffer', 1, p - 1))
    BY <1>3, <2>2, ReadWithLine
  <2> QED BY <1>3, <2>1, <2>2 DEF Read
<1>4. CASE HandlerReturns
  BY <1>4, HandlerPreserves
<1>5. CASE ReadFails
  BY <1>5, FailPreserves
<1>6. CASE UNCHANGED vars
  <2>1. UNCHANGED <<sent, open, received, buffer, message, phase, handled>>
    BY <1>6 DEF vars
  <2>2. ReaderTypeOK' /\ HandlesFirst' /\ FullHoldsNoLine' /\ DroppedForAReason'
    BY <2>1 DEF ReaderInv, ReaderTypeOK, HandlesFirst, FullHoldsNoLine,
                DroppedForAReason, Space, IsNewline, Size, Start
  <2>3. LinesFollow' /\ LinesArriveIntact'
    BY <2>1, SameLines DEF ReaderInv, LinesArriveIntact
  <2>4. BufferIsCurrent'
    BY <2>1, SameLines DEF ReaderInv, BufferIsCurrent, Current
  <2> QED BY <2>2, <2>3, <2>4 DEF ReaderInv
<1> QED BY <1>1, <1>2, <1>3, <1>4, <1>5, <1>6 DEF Next

-----------------------------------------------------------------------------
\* For every buffer size and every way the stream is cut, the lines handled
\* are the lines written, in order and whole, if memcpy copies overlapping
\* regions from their begin (stratumProc relies on it).
THEOREM LinesAreWhole == MemcpyForward => (Spec => []LinesArriveIntact)
<1> SUFFICES ASSUME MemcpyForward PROVE Spec => []LinesArriveIntact
  OBVIOUS
<1>1. Init => ReaderInv
  BY ReaderInit
<1>2. ReaderInv /\ [Next]_vars => ReaderInv'
  BY ReaderStep
<1>3. ReaderInv => LinesArriveIntact
  BY DEF ReaderInv
<1> QED BY <1>1, <1>2, <1>3, PTL DEF Spec

\* For every buffer size, a connection is dropped only when it is closed from
\* outside, for a line that is not JSON, or for one that does not fit.
THEOREM NoneDroppedWithoutReason ==
  MemcpyForward => (Spec => []DroppedForAReason)
<1> SUFFICES ASSUME MemcpyForward PROVE Spec => []DroppedForAReason
  OBVIOUS
<1>1. Init => ReaderInv
  BY ReaderInit
<1>2. ReaderInv /\ [Next]_vars => ReaderInv'
  BY ReaderStep
<1>3. ReaderInv => DroppedForAReason
  BY DEF ReaderInv
<1> QED BY <1>1, <1>2, <1>3, PTL DEF Spec

-----------------------------------------------------------------------------
\* The size of the buffer holds whatever memcpy does with regions that overlap:
\* it moves bytes of the buffer, and less than there were.
BufferFits ==
  /\ ReaderTypeOK
  /\ phase = "handle" => message \in 1..Len(buffer)

\* A move from the far end still reads inside the buffer.
LEMMA MovedFits ==
  ASSUME NEW length \in Nat, NEW m \in 1..length, NEW k \in 1..(length - m)
  PROVE  /\ m + k \in 1..length
         /\ k + m * (((length - m) - k) \div m + 1) \in 1..length
<1> DEFINE r == (length - m) - k
           q == r \div m
           x == m * q
<1>1. r \in Nat /\ m \in Nat \ {0}
  OBVIOUS
<1>2. q \in Nat /\ x \in Nat /\ x <= r /\ r < x + m /\ m * (q + 1) = x + m
  <2> HIDE DEF r
  <2>1. q \in Nat /\ r % m \in 0..(m - 1) /\ r = m * q + (r % m)
    BY <1>1
  <2> QED BY <1>1, <2>1
<1>3. k + m * (q + 1) \in 1..length
  <2> HIDE DEF q, x
  <2>1. k + (x + m) \in 1..length
    BY <1>2 DEF r
  <2> QED BY <1>2, <2>1
<1> QED BY <1>3

\* The regions stay in the buffer.
LEMMA HandlerFits ==
  ASSUME BufferFits, HandlerReturns
  PROVE  BufferFits'
<1>1. /\ phase = "handle" /\ phase' \in {"read", "ended"} /\ message' = 0
      /\ buffer' \in {MovedForward, MovedBackward}
      /\ UNCHANGED <<sent, open, received, handled>>
  BY DEF HandlerReturns, Moved, clientVars
<1>2. /\ buffer \in Seq(Nat) /\ Len(buffer) \in Nat /\ Len(buffer) < BufferSize
      /\ message \in 1..Len(buffer) /\ BufferSize \in Nat
  BY <1>1, BufferAssumption DEF BufferFits, ReaderTypeOK
<1>3. Remaining = Len(buffer) - message /\ Remaining \in Nat
      /\ Remaining < Len(buffer)
  BY <1>2 DEF Remaining
<1>4. buffer' \in [1..Remaining -> Nat]
  <2>1. \A n \in 1..Len(buffer) : buffer[n] \in Nat
    BY <1>2
  <2>2. ASSUME NEW k \in 1..Remaining
        PROVE  /\ buffer[message + k] \in Nat
               /\ buffer[k + message * ((Remaining - k) \div message + 1)] \in Nat
    BY <1>2, <1>3, <2>1, MovedFits
  <2> QED BY <1>1, <2>2 DEF MovedForward, MovedBackward
<1>5. buffer' \in Seq(Nat) /\ Len(buffer') = Remaining
  BY <1>3, <1>4
<1>6. Len(buffer') < BufferSize
  BY <1>2, <1>3, <1>5
<1>7. ReaderTypeOK'
  BY <1>1, <1>5, <1>6 DEF BufferFits, ReaderTypeOK
<1> QED BY <1>1, <1>7 DEF BufferFits

\* A read takes no more than there is space for, and a line it completes ends
\* in the buffer.
LEMMA ReadFits ==
  ASSUME BufferFits, NEW size \in 1..(BufferSize - 1), Read(size)
  PROVE  BufferFits'
<1>1. /\ received' = received + size /\ UNCHANGED <<sent, open>>
      /\ buffer' = buffer \o [k \in 1..size |-> received + k]
      /\ size <= BufferSize - Len(buffer) - 1 /\ phase = "read"
  BY DEF Read, Space, clientVars
<1>2. /\ received \in Nat /\ buffer \in Seq(Nat) /\ Len(buffer) \in Nat
      /\ size \in Nat /\ BufferSize \in Nat /\ handled \in Seq(Seq(Nat))
      /\ message \in Nat
  BY BufferAssumption DEF BufferFits, ReaderTypeOK
<1>3. [k \in 1..size |-> received + k] \in Seq(Nat)
      /\ Len([k \in 1..size |-> received + k]) = size
  BY <1>2
<1>4. buffer' \in Seq(Nat) /\ Len(buffer') = Len(buffer) + size
      /\ Len(buffer') < BufferSize /\ received' \in Nat
  BY <1>1, <1>2, <1>3
<1>5. CASE UNCHANGED <<message, phase, handled>>
  BY <1>1, <1>2, <1>4, <1>5 DEF BufferFits, ReaderTypeOK
<1>6. ASSUME NEW p \in DOMAIN buffer', message' = p, phase' = "handle",
             handled' = Append(handled, SubSeq(buffer', 1, p - 1))
      PROVE  BufferFits'
  <2>1. p \in 1..Len(buffer') /\ p \in Nat
    BY <1>4
  <2> DEFINE line == SubSeq(buffer', 1, p - 1)
  <2>2. line \in Seq(Nat)
    BY <1>4, <2>1
  <2> HIDE DEF line
  <2>3. handled' \in Seq(Seq(Nat))
    BY <1>2, <1>6, <2>2, AppendProperties DEF line
  <2> QED BY <1>1, <1>4, <1>6, <2>1, <2>3 DEF BufferFits, ReaderTypeOK
<1> QED BY <1>5, <1>6 DEF Read

\* Every step keeps the size.
LEMMA StepFits == BufferFits /\ [Next]_vars => BufferFits'
<1> SUFFICES ASSUME BufferFits, [Next]_vars PROVE BufferFits'
  OBVIOUS
<1>1. ASSUME NEW kind \in Kinds, NEW size \in LineSizes, ClientWrites(kind, size)
      PROVE  BufferFits'
  <2>1. /\ sent' = Append(sent, [kind |-> kind, end |-> Written + size])
        /\ UNCHANGED <<open, received, buffer, message, phase, handled>>
    BY <1>1 DEF ClientWrites, readerVars
  <2>2. sent \in Seq([kind : Kinds, end : Nat]) /\ size \in Nat
    BY LinesAssumption DEF BufferFits, ReaderTypeOK
  <2>3. Written \in Nat
    <3>1. Len(sent) \in Nat /\ Len(sent) # 0 => Len(sent) \in 1..Len(sent)
      BY <2>2
    <3>2. \A i \in 1..Len(sent) : sent[i] \in [kind : Kinds, end : Nat]
      BY <2>2, ElementOfSeq
    <3> QED BY <3>1, <3>2 DEF Written, Start
  <2>4. [kind |-> kind, end |-> Written + size] \in [kind : Kinds, end : Nat]
    BY <2>2, <2>3
  <2>5. sent' \in Seq([kind : Kinds, end : Nat])
    BY <2>1, <2>2, <2>4, AppendProperties
  <2> QED BY <2>1, <2>5 DEF BufferFits, ReaderTypeOK
<1>2. CASE ClientLeaves
  BY <1>2 DEF ClientLeaves, readerVars, BufferFits, ReaderTypeOK
<1>3. ASSUME NEW size \in 1..(BufferSize - 1), Read(size) PROVE BufferFits'
  BY <1>3, ReadFits
<1>4. CASE HandlerReturns
  BY <1>4, HandlerFits
<1>5. CASE ReadFails
  BY <1>5 DEF ReadFails, clientVars, BufferFits, ReaderTypeOK
<1>6. CASE UNCHANGED vars
  BY <1>6 DEF vars, BufferFits, ReaderTypeOK
<1> QED BY <1>1, <1>2, <1>3, <1>4, <1>5, <1>6 DEF Next

\* For every buffer size, every way the stream is cut and every memcpy, what
\* was read stays below the size of the buffer: the zero that ends the text
\* strchr looks at always has its place.
THEOREM BufferHolds == Spec => []ReaderTypeOK
<1>1. Init => BufferFits
  BY BufferAssumption DEF Init, BufferFits, ReaderTypeOK
<1>2. BufferFits => ReaderTypeOK
  BY DEF BufferFits
<1> QED BY <1>1, <1>2, StepFits, PTL DEF Spec
=============================================================================
