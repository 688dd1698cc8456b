-------------------------- MODULE RingBufferProofs --------------------------
(***************************************************************************)
(* RingBuffer implements BoundedStream for every size of the buffer and of *)
(* the chunks, as long as no flush meets a put under way.                  *)
(***************************************************************************)
EXTENDS RingBuffer, ProofLemmas, TLAPS

\* Flushes happen while the writer is stopped.
QuietFlush == ~FlushWhileWriting

USE BufferSizeAssumption, MaxChunkAssumption, MaxItemsAssumption,
    FlushAssumption

\* The masks of the code, without remainders.
Low(x)  == IF x < BufferSize THEN x
           ELSE IF x < 2 * BufferSize THEN x - BufferSize
           ELSE x - 2 * BufferSize
Wide(x) == IF x < 0 THEN x + 2 * BufferSize
           ELSE IF x < 2 * BufferSize THEN x ELSE x - 2 * BufferSize

LEMMA LowIs ==
  ASSUME NEW x \in Nat, x < 3 * BufferSize
  PROVE  x % BufferSize = Low(x)
<1>1. BufferSize \in Nat \ {0} /\ -BufferSize <= x /\ x \in Int /\ ~(x < 0)
  OBVIOUS
<1>2. x % BufferSize = IF x < 0 THEN x + BufferSize
                       ELSE IF x < BufferSize THEN x
                       ELSE IF x < 2 * BufferSize THEN x - BufferSize
                       ELSE x - 2 * BufferSize
  BY <1>1, Turns, Zenon
<1>. QED BY <1>1, <1>2, Zenon DEF Low

LEMMA WideIs ==
  ASSUME NEW x \in Int, -(2 * BufferSize) <= x, x < 4 * BufferSize
  PROVE  x % (2 * BufferSize) = Wide(x)
<1>1. PICK n \in Nat \ {0} : n = 2 * BufferSize
  OBVIOUS
<1>2. -n <= x /\ x < 3 * n /\ x < 2 * n
  BY <1>1
<1>3. x % n = IF x < 0 THEN x + n
              ELSE IF x < n THEN x
              ELSE IF x < 2 * n THEN x - n ELSE x - 2 * n
  BY <1>2, Turns, Zenon
<1>4. x % n = IF x < 0 THEN x + n ELSE IF x < n THEN x ELSE x - n
  BY <1>2, <1>3, Zenon
<1>. QED BY <1>1, <1>4, Zenon DEF Wide

----------------------------------------------------------------------------
\* The invariant with the masks written out.
Linear ==
  /\ TypeOK /\ delivered <= accepted
  /\ rpc = "flush" => wpc = "idle" /\ writeIndex = 0
  /\ rpc # "flush" => /\ Wide(writeIndex - readIndex) = accepted - delivered
                      /\ accepted - delivered <= BufferSize
  /\ wpc # "idle" => wN <= BufferSize - (accepted - delivered)
  /\ wpc = "store" => wNext = Wide(writeIndex + wN)
  /\ rpc \in {"copy", "advance"} => rN <= accepted - delivered
  /\ rpc = "advance" => rData = [i \in 0 .. rN - 1 |-> delivered + i]
  /\ rpc # "flush" => \A i \in 0 .. Filled - 1 :
                        buffer[Low(readIndex + i)] = delivered + i

LEMMA FilledFits ==
  ASSUME TypeOK, delivered <= accepted, rpc # "flush",
         accepted - delivered <= BufferSize,
         wpc # "idle" => wN <= BufferSize - (accepted - delivered)
  PROVE  Filled \in 0 .. BufferSize
BY DEF TypeOK, Filled

LEMMA LinearIsIInv == Linear <=> IInv
<1>. USE DEF TypeOK, Indices
<1>1. TypeOK => (writeIndex - readIndex) % (2 * BufferSize)
                  = Wide(writeIndex - readIndex)
  BY WideIs
<1>2. TypeOK /\ delivered <= accepted /\ wpc = "store"
        /\ wN <= BufferSize - (accepted - delivered)
        => (writeIndex + wN) % (2 * BufferSize) = Wide(writeIndex + wN)
  BY WideIs
<1>3. ASSUME TypeOK, delivered <= accepted, rpc # "flush",
             accepted - delivered <= BufferSize,
             wpc # "idle" => wN <= BufferSize - (accepted - delivered),
             NEW i \in 0 .. Filled - 1
      PROVE  (readIndex + i) % BufferSize = Low(readIndex + i)
  BY <1>3, FilledFits, LowIs
<1>4. ASSUME Linear PROVE IInv
  <2>1. IndicesCount /\ ViewsHold
    BY <1>1, <1>2, <1>4
       DEF Linear, IndicesCount, ViewsHold, GetRingBufferReadAvailable
  <2>2. Contents
    BY <1>3, <1>4 DEF Linear, Contents
  <2>. QED BY <1>4, <2>1, <2>2 DEF IInv, Linear
<1>5. ASSUME IInv PROVE Linear
  <2>1. /\ TypeOK /\ delivered <= accepted
        /\ wpc # "idle" => wN <= BufferSize - (accepted - delivered)
        /\ rpc # "flush" => accepted - delivered <= BufferSize
    BY <1>5 DEF IInv, ViewsHold, IndicesCount
  <2>2. rpc # "flush" => \A i \in 0 .. Filled - 1 :
                           buffer[Low(readIndex + i)] = delivered + i
    BY <1>3, <1>5, <2>1 DEF IInv, Contents
  <2>3. /\ rpc # "flush" => Wide(writeIndex - readIndex) = accepted - delivered
        /\ wpc = "store" => wNext = Wide(writeIndex + wN)
    BY <1>1, <1>2, <1>5, <2>1
       DEF IInv, ViewsHold, IndicesCount, GetRingBufferReadAvailable
  <2>. QED BY <1>5, <2>1, <2>2, <2>3 DEF Linear, IInv, ViewsHold
<1>. QED BY <1>4, <1>5

----------------------------------------------------------------------------
LEMMA LinearInit == Init => Linear
<1>. SUFFICES ASSUME Init PROVE Linear
  OBVIOUS
<1>1. buffer \in [Slots -> Int]
  BY DEF Init
<1>2. TypeOK
  BY <1>1 DEF Init, TypeOK, Indices
<1>. QED BY <1>2 DEF Init, Linear, Wide, Filled

\* The slots a put writes are those behind what is filled, and no others.
LEMMA PutFillsBehind ==
  ASSUME Linear, EndPutCopy
  PROVE  /\ buffer' \in [Slots -> Int]
         /\ \A i \in 0 .. accepted - delivered + wN - 1 :
              buffer'[Low(readIndex + i)] = delivered + i
<1>. USE DEF Slots, Indices
<1>0. TypeOK /\ wpc = "copy" /\ rpc # "flush"
  BY DEF Linear, EndPutCopy
<1>1. writeIndex % BufferSize = Low(writeIndex)
  <2>1. writeIndex \in Nat /\ writeIndex < 3 * BufferSize
    BY <1>0 DEF TypeOK
  <2>. QED BY <2>1, LowIs
<1>. DEFINE index == Low(writeIndex)
            size1 == Lesser(wN, BufferSize - index)
<1>2. index \in Slots
  BY <1>0 DEF Low, TypeOK
<1>3. buffer' = [s \in Slots |->
          IF index <= s /\ s < index + size1 THEN accepted + s - index
          ELSE IF s < wN - size1 THEN accepted + size1 + s ELSE buffer[s]]
  BY <1>1 DEF EndPutCopy, FirstHalf
<1>4. size1 \in Nat /\ size1 <= wN /\ index + size1 <= BufferSize
  BY <1>0, <1>2 DEF TypeOK, Lesser
<1>. HIDE DEF index, size1
<1>5. \A s \in Slots :
        buffer'[s] = IF index <= s /\ s < index + size1 THEN accepted + s - index
                     ELSE IF s < wN - size1 THEN accepted + size1 + s
                     ELSE buffer[s]
  BY <1>3
<1>6. buffer' \in [Slots -> Int]
  <2>1. \A s \in Slots : buffer'[s] \in Int
    BY <1>0, <1>2, <1>4, <1>5 DEF TypeOK
  <2>. QED BY <1>3, <2>1
<1>7. /\ Wide(writeIndex - readIndex) = accepted - delivered
      /\ wN <= BufferSize - (accepted - delivered)
  BY <1>0 DEF Linear
<1>8. ASSUME NEW i \in 0 .. accepted - delivered + wN - 1
      PROVE  buffer'[Low(readIndex + i)] = delivered + i
  <2>. DEFINE s == Low(readIndex + i)
  <2>1. s \in Slots
    BY <1>0, <1>7 DEF Low, TypeOK, Linear
  <2>2. CASE i < accepted - delivered
    <3>1. ~(index <= s /\ s < index + size1) /\ ~(s < wN - size1)
      BY <1>0, <1>7, <2>2 DEF index, size1, Low, Wide, TypeOK, Lesser, Linear
    <3>2. buffer[s] = delivered + i
      BY <1>0, <2>2 DEF Linear, Filled, TypeOK
    <3>. QED BY <1>5, <2>1, <3>1, <3>2
  <2>3. CASE ~(i < accepted - delivered)
    <3>. DEFINE j == i - (accepted - delivered)
    <3>1. j \in 0 .. wN - 1 /\ delivered + i = accepted + j
      BY <1>0, <2>3 DEF TypeOK, Linear
    <3>2. s = Low(writeIndex + j)
      BY <1>0, <1>7, <2>3 DEF Low, Wide, TypeOK, Linear
    <3>3. IF j < BufferSize - index THEN s = index + j
                                    ELSE s = j - (BufferSize - index)
      BY <1>0, <1>7, <3>1, <3>2 DEF index, Low, TypeOK, Linear
    <3>. HIDE DEF s, j
    <3>4. CASE j < BufferSize - index
      <4>1. index <= s /\ s < index + size1
        BY <1>0, <1>2, <3>1, <3>3, <3>4 DEF size1, Lesser, TypeOK
      <4>2. buffer'[s] = accepted + s - index
        BY <1>5, <2>1, <4>1 DEF s
      <4>3. accepted + s - index = accepted + j
        BY <1>0, <1>2, <3>1, <3>3, <3>4 DEF TypeOK
      <4>. QED BY <3>1, <4>2, <4>3 DEF s
    <3>5. CASE ~(j < BufferSize - index)
      <4>1. size1 = BufferSize - index
        BY <1>0, <1>2, <3>1, <3>5 DEF size1, Lesser, TypeOK
      <4>2. s < wN - size1 /\ ~(index <= s /\ s < index + size1)
        BY <1>0, <1>2, <1>7, <3>1, <3>3, <3>5, <4>1 DEF TypeOK, Linear
      <4>3. accepted + size1 + s = accepted + j
        BY <1>0, <1>2, <3>1, <3>3, <3>5, <4>1 DEF TypeOK
      <4>. QED BY <1>5, <2>1, <3>1, <4>2, <4>3 DEF s
    <3>. QED BY <3>4, <3>5
  <2>. QED BY <2>2, <2>3
<1>. QED BY <1>6, <1>8

\* A get copies out the oldest elements, in order.
LEMMA GetCopiesOldest ==
  ASSUME Linear, EndGetCopy
  PROVE  rData' = [i \in 0 .. rN - 1 |-> delivered + i]
<1>. USE DEF Slots, Indices
<1>0. TypeOK /\ rpc = "copy" /\ rN <= Filled /\ rN <= BufferSize /\ rN \in Nat
  BY DEF Linear, EndGetCopy, Filled, TypeOK
<1>1. readIndex % BufferSize = Low(readIndex)
  <2>1. readIndex \in Nat /\ readIndex < 3 * BufferSize
    BY <1>0 DEF TypeOK
  <2>. QED BY <2>1, LowIs
<1>. DEFINE index == Low(readIndex)
            size1 == Lesser(rN, BufferSize - index)
<1>2. rData' = [i \in 0 .. rN - 1 |->
                  IF i < size1 THEN buffer[index + i] ELSE buffer[i - size1]]
  BY <1>1 DEF EndGetCopy, FirstHalf
<1>3. ASSUME NEW i \in 0 .. rN - 1
      PROVE  (IF i < size1 THEN buffer[index + i] ELSE buffer[i - size1])
               = delivered + i
  <2>1. buffer[Low(readIndex + i)] = delivered + i
    BY <1>0 DEF Linear, Filled, TypeOK
  <2>2. Low(readIndex + i) = IF i < size1 THEN index + i ELSE i - size1
    BY <1>0 DEF Low, Lesser, TypeOK
  <2>. QED BY <2>1, <2>2
<1>. QED BY <1>2, <1>3

----------------------------------------------------------------------------
LEMMA WideShift ==
  ASSUME NEW w \in Indices, NEW r \in Indices, NEW n \in Nat, n <= Wide(w - r)
  PROVE  Wide(w - Wide(r + n)) = Wide(w - r) - n
BY DEF Indices, Wide

LEMMA LinearStep == QuietFlush /\ Linear /\ [Next]_vars => Linear'
<1>. SUFFICES ASSUME QuietFlush, Linear, [Next]_vars PROVE Linear'
  OBVIOUS
<1>. USE DEF QuietFlush, Linear, TypeOK, Filled
<1>1. CASE BeginPut
  <2>1. writeIndex \in Indices /\ readIndex \in Indices /\ rpc # "flush"
    BY <1>1 DEF BeginPut
  <2>2. GetRingBufferReadAvailable = accepted - delivered
    BY <2>1, WideIs DEF GetRingBufferReadAvailable, Indices
  <2>. QED BY <1>1, <2>2
         DEF BeginPut, Lesser, GetRingBufferWriteAvailable, sharedVars,
             readerVars
<1>2. CASE EndPutCopy
  <2>1. /\ buffer' \in [Slots -> Int]
        /\ \A i \in 0 .. accepted - delivered + wN - 1 :
             buffer'[Low(readIndex + i)] = delivered + i
    BY <1>2, PutFillsBehind
  <2>2. /\ UNCHANGED <<writeIndex, readIndex, readerVars, wN, wNext, accepted>>
        /\ wpc = "copy" /\ wpc' = "advance"
    BY <1>2 DEF EndPutCopy
  <2>. QED BY <2>1, <2>2 DEF readerVars, Low, Wide
<1>3. CASE ComputeWriteIndex
  <2>1. writeIndex + wN \in Nat /\ writeIndex + wN < 4 * BufferSize
    BY <1>3 DEF ComputeWriteIndex, Indices
  <2>2. wNext' = Wide(writeIndex + wN)
    BY <1>3, <2>1, WideIs DEF ComputeWriteIndex
  <2>3. wNext' \in Indices
    BY <2>1, <2>2, <1>3 DEF Wide, Indices, ComputeWriteIndex
  <2>. QED BY <1>3, <2>2, <2>3
         DEF ComputeWriteIndex, sharedVars, readerVars, Low, Wide
<1>4. CASE StoreWriteIndex
  <2>1. Wide(writeIndex' - readIndex') = accepted' - delivered'
    BY <1>4 DEF StoreWriteIndex, readerVars, Wide, Indices
  <2>. QED BY <1>4, <2>1 DEF StoreWriteIndex, readerVars, Low
<1>5. CASE BeginGet
  <2>1. writeIndex \in Indices /\ readIndex \in Indices /\ rpc # "flush"
    BY <1>5 DEF BeginGet
  <2>2. GetRingBufferReadAvailable = accepted - delivered
    BY <2>1, WideIs DEF GetRingBufferReadAvailable, Indices
  <2>. QED BY <1>5, <2>2 DEF BeginGet, Lesser, sharedVars, writerVars, Low, Wide
<1>6. CASE EndGetCopy
  <2>1. rData' = [i \in 0 .. rN - 1 |-> delivered + i]
    BY <1>6, GetCopiesOldest
  <2>. QED BY <1>6, <2>1 DEF EndGetCopy, sharedVars, writerVars, Low, Wide
<1>7. CASE AdvanceReadIndex
  <2>1. readIndex + rN \in Nat /\ readIndex + rN < 4 * BufferSize
    BY <1>7 DEF AdvanceReadIndex, Indices
  <2>2. readIndex' = Wide(readIndex + rN)
    BY <1>7, <2>1, WideIs DEF AdvanceReadIndex
  <2>3. readIndex' \in Indices
    BY <2>1, <2>2, <1>7 DEF Wide, Indices, AdvanceReadIndex
  <2>4. Wide(writeIndex - readIndex') = accepted - (delivered + rN)
    <3>1. /\ rN <= Wide(writeIndex - readIndex)
          /\ Wide(writeIndex - readIndex) = accepted - delivered
      BY <1>7 DEF AdvanceReadIndex
    <3>2. Wide(writeIndex - readIndex') = Wide(writeIndex - readIndex) - rN
      BY <2>2, <3>1, WideShift
    <3>. QED BY <3>1, <3>2
  <2>5. \A i \in 0 .. Filled - rN - 1 :
          buffer[Low(readIndex' + i)] = delivered + rN + i
    <3>. SUFFICES ASSUME NEW i \in 0 .. Filled - rN - 1
                  PROVE  buffer[Low(readIndex' + i)] = delivered + rN + i
      OBVIOUS
    <3>1. rpc = "advance" /\ Filled \in 0 .. BufferSize /\ rN \in 0 .. Filled
      BY <1>7, FilledFits DEF AdvanceReadIndex
    <3>. HIDE DEF Filled
    <3>2. buffer[Low(readIndex + (rN + i))] = delivered + (rN + i)
      BY <3>1
    <3>3. Low(readIndex' + i) = Low(readIndex + (rN + i))
      BY <3>1, <2>2 DEF Low, Wide, Indices
    <3>. QED BY <3>2, <3>3
  <2>. QED BY <1>7, <2>3, <2>4, <2>5 DEF AdvanceReadIndex, writerVars
<1>8. CASE FlushWriteIndex
  BY <1>8 DEF FlushWriteIndex, writerVars, Indices
<1>9. CASE FlushReadIndex
  BY <1>9 DEF FlushReadIndex, writerVars, Indices, Wide
<1>10. CASE UNCHANGED vars
  BY <1>10 DEF vars, sharedVars, writerVars, readerVars, Low, Wide
<1>. QED BY <1>1, <1>2, <1>3, <1>4, <1>5, <1>6, <1>7, <1>8, <1>9, <1>10
       DEF Next, putDataIntoBuffer, getDataFromBuffer, FlushRingBuffer

----------------------------------------------------------------------------
\* Indices, slots and what the two threads believe about them stay
\* consistent in every state, for buffers and chunks of every size.
THEOREM InvariantHolds ==
  ASSUME QuietFlush
  PROVE  Spec => []IInv
<1>1. Linear /\ [Next]_vars => Linear'
  BY LinearStep
<1>. QED BY <1>1, LinearInit, LinearIsIInv, PTL DEF Spec

\* The reader's count is exact: nothing is lost, nothing is counted twice.
THEOREM CountsExact ==
  ASSUME QuietFlush
  PROVE  Spec => []IndicesCount
<1>1. IInv => IndicesCount
  BY DEF IInv
<1>. QED BY <1>1, InvariantHolds, PTL

\* The two threads never copy into and out of the same slot at once.
THEOREM NeverTorn ==
  ASSUME QuietFlush
  PROVE  Spec => []NoTearing
<1>1. Linear => NoTearing
  <2>. SUFFICES ASSUME Linear, wpc = "copy", rpc = "copy", NEW s \in Slots,
                       s \in Busy(writeIndex, wN), s \in Busy(readIndex, rN)
                PROVE  FALSE
    BY DEF NoTearing, Busy
  <2>. DEFINE w == Low(writeIndex)
              r == Low(readIndex)
  <2>1. /\ writeIndex \in Nat /\ writeIndex < 2 * BufferSize
        /\ readIndex \in Nat /\ readIndex < 2 * BufferSize
        /\ wN \in Nat /\ rN \in Nat
    BY DEF Linear, TypeOK, Indices
  <2>2. writeIndex % BufferSize = w /\ readIndex % BufferSize = r
    BY <2>1, LowIs
  <2>3. w \in Slots /\ r \in Slots
    BY <2>1 DEF Low, Slots
  <2>4. (s - w) % BufferSize < wN /\ (s - r) % BufferSize < rN
    BY <2>2 DEF Busy
  <2>5. /\ (s - w) % BufferSize = IF s < w THEN s - w + BufferSize ELSE s - w
        /\ (s - r) % BufferSize = IF s < r THEN s - r + BufferSize ELSE s - r
    <3>. HIDE DEF w, r
    <3>1. \A x \in Slots : (s - x) % BufferSize =
                             IF s < x THEN s - x + BufferSize ELSE s - x
      <4>. SUFFICES ASSUME NEW x \in Slots
                    PROVE  (s - x) % BufferSize =
                             IF s < x THEN s - x + BufferSize ELSE s - x
        OBVIOUS
      <4>1. CASE s < x
        BY <4>1, RemainderIs, BufferSize * (-1) = -BufferSize DEF Slots
      <4>2. CASE ~(s < x)
        BY <4>2, RemainderIs, BufferSize * 0 = 0 DEF Slots
      <4>. QED BY <4>1, <4>2
    <3>. QED BY <2>3, <3>1
  <2>6. /\ wN <= BufferSize - (accepted - delivered)
        /\ rN <= accepted - delivered
        /\ Wide(writeIndex - readIndex) = accepted - delivered
        /\ accepted \in Nat /\ delivered \in Nat
    BY DEF Linear, TypeOK
  <2>. QED BY <2>1, <2>3, <2>4, <2>5, <2>6 DEF Low, Wide, Slots
<1>. QED BY <1>1, InvariantHolds, LinearIsIInv, PTL

\* The ring buffer implements the bounded stream: what comes out is what
\* went in, in order and without gaps, at most BufferSize elements behind.
THEOREM ImplementsStream ==
  ASSUME QuietFlush
  PROVE  Spec => StreamSpec
<1>1. Init => Stream!Init
  BY DEF Init, Stream!Init, Nothing, Stream!Nothing
<1>2. Linear /\ [Next]_vars => [Stream!Next]_(Stream!vars)
  <2>. SUFFICES ASSUME Linear, [Next]_vars
                PROVE  [Stream!Next]_(Stream!vars)
    OBVIOUS
  <2>. USE DEF Linear, TypeOK
  <2>1. CASE StoreWriteIndex
    <3>1. wN \in 0 .. BufferSize /\ Stream!Accept(wN)
      BY <2>1 DEF StoreWriteIndex, Stream!Accept, readerVars
    <3>. QED BY <3>1 DEF Stream!Next
  <2>2. CASE AdvanceReadIndex
    <3>1. rN \in 0 .. BufferSize /\ Stream!Deliver(rN)
      BY <2>2 DEF AdvanceReadIndex, Stream!Deliver, writerVars
    <3>. QED BY <3>1 DEF Stream!Next
  <2>3. CASE FlushReadIndex
    BY <2>3 DEF FlushReadIndex, Stream!Flush, Stream!Next, writerVars
  <2>4. CASE BeginPut \/ EndPutCopy \/ ComputeWriteIndex
    BY <2>4 DEF BeginPut, EndPutCopy, ComputeWriteIndex, Stream!vars, readerVars
  <2>5. CASE BeginGet \/ EndGetCopy \/ FlushWriteIndex
    BY <2>5 DEF BeginGet, EndGetCopy, FlushWriteIndex, Stream!vars, writerVars
  <2>6. CASE UNCHANGED vars
    BY <2>6 DEF vars, Stream!vars, writerVars, readerVars
  <2>. QED BY <2>1, <2>2, <2>3, <2>4, <2>5, <2>6
         DEF Next, putDataIntoBuffer, getDataFromBuffer, FlushRingBuffer
<1>. QED BY <1>1, <1>2, LinearIsIInv, InvariantHolds, PTL
       DEF Spec, StreamSpec, Stream!Spec
=============================================================================
