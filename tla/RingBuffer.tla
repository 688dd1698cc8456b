----------------------------- MODULE RingBuffer -----------------------------
(***************************************************************************)
(* The lock-free ring buffer of includes/support/ringbuffer.h, with one    *)
(* thread that puts and one that gets and flushes, as the device handlers  *)
(* use it: the callback of the device's library puts, the dabProcessor     *)
(* thread gets.  The two indices run modulo twice the size of the buffer   *)
(* and are all the threads share besides the elements.                     *)
(*                                                                         *)
(* An element's content is its number in the stream of elements that were  *)
(* accepted.  Copying elements in or out takes two steps; storing an index *)
(* is a step of its own, because writeIndex = (writeIndex + n) & bigMask   *)
(* reads and writes the index separately.                                  *)
(***************************************************************************)
EXTENDS Integers

CONSTANTS
  BufferSize,        \* elements the buffer can hold
  MaxChunk,          \* bound: elements asked for in one call
  MaxItems,          \* bound: elements the writer puts in all
  FlushWhileWriting  \* whether a flush may meet a put that is under way

ASSUME BufferSizeAssumption == BufferSize \in Nat \ {0}
ASSUME MaxChunkAssumption   == MaxChunk \in Nat \ {0}
ASSUME MaxItemsAssumption   == MaxItems \in Nat
ASSUME FlushAssumption      == FlushWhileWriting \in BOOLEAN

VARIABLES
  writeIndex, readIndex, buffer,
  wpc, wN, wNext,   \* the writer: where it is in putDataIntoBuffer, how many
                    \* elements it writes, the index it is about to store
  rpc, rN, rData,   \* the reader: where it is, how many it reads, what it read
  accepted, delivered, got   \* history: see BoundedStream

sharedVars == <<writeIndex, readIndex, buffer>>
writerVars == <<wpc, wN, wNext, accepted>>
readerVars == <<rpc, rN, rData, delivered, got>>
vars == <<sharedVars, writerVars, readerVars>>

Slots   == 0 .. BufferSize - 1
Indices == 0 .. 2 * BufferSize - 1
Nothing == [i \in {} |-> 0]

Init ==
  /\ writeIndex = 0 /\ readIndex = 0
  /\ buffer = [s \in Slots |-> -1]
  /\ wpc = "idle" /\ wN = 0 /\ wNext = 0
  /\ rpc = "idle" /\ rN = 0 /\ rData = Nothing
  /\ accepted = 0 /\ delivered = 0 /\ got = Nothing

\* (writeIndex - readIndex) & bigMask
GetRingBufferReadAvailable == (writeIndex - readIndex) % (2 * BufferSize)
\* bufferSize - available; below 0 the unsigned result is huge
GetRingBufferWriteAvailable == BufferSize - GetRingBufferReadAvailable

Lesser(a, b) == IF a < b THEN a ELSE b

\* The first of the two regions of n elements from index (& smallMask) on;
\* the second one starts at slot 0.
FirstHalf(index, n) ==
  Lesser(n, BufferSize - (index % BufferSize))

(***************************************************************************)
(* The writer: putDataIntoBuffer.                                          *)
(***************************************************************************)
\* GetRingBufferWriteRegions: what does not fit is left out.
BeginPut ==
  \E n \in 1 .. MaxChunk :
    /\ wpc = "idle" /\ accepted + n <= MaxItems
    /\ FlushWhileWriting \/ rpc # "flush"
    /\ wN' = IF GetRingBufferWriteAvailable < 0
             THEN n ELSE Lesser(n, GetRingBufferWriteAvailable)
    /\ wpc' = "copy"
    /\ UNCHANGED <<sharedVars, readerVars, wNext, accepted>>

\* The elements that were in the buffer before come after those put now.
EndPutCopySwapped ==
  /\ wpc = "copy"
  /\ LET index == writeIndex % BufferSize
         size1 == FirstHalf(writeIndex, wN)
     IN buffer' = [s \in Slots |->
          IF index <= s /\ s < index + size1
          THEN accepted + wN - size1 + s - index
          ELSE IF s < wN - size1 THEN accepted + s ELSE buffer[s]]
  /\ wpc' = "advance"
  /\ UNCHANGED <<writeIndex, readIndex, readerVars, wN, wNext, accepted>>

\* The memcpys end.
EndPutCopy ==
  /\ wpc = "copy"
  /\ LET index == writeIndex % BufferSize
         size1 == FirstHalf(writeIndex, wN)
     IN buffer' = [s \in Slots |->
          IF index <= s /\ s < index + size1 THEN accepted + s - index
          ELSE IF s < wN - size1 THEN accepted + size1 + s ELSE buffer[s]]
  /\ wpc' = "advance"
  /\ UNCHANGED <<writeIndex, readIndex, readerVars, wN, wNext, accepted>>

\* AdvanceRingBufferWriteIndex: the new index is computed ...
ComputeWriteIndex ==
  /\ wpc = "advance"
  /\ wNext' = (writeIndex + wN) % (2 * BufferSize)
  /\ wpc' = "store"
  /\ UNCHANGED <<sharedVars, readerVars, wN, accepted>>

\* ... and stored, which is what makes the elements visible.
StoreWriteIndex ==
  /\ wpc = "store"
  /\ writeIndex' = wNext
  /\ accepted' = accepted + wN
  /\ wpc' = "idle"
  /\ UNCHANGED <<readIndex, buffer, readerVars, wN, wNext>>

(***************************************************************************)
(* The reader: getDataFromBuffer and FlushRingBuffer.                      *)
(***************************************************************************)
\* GetRingBufferReadRegions
BeginGet ==
  \E n \in 1 .. MaxChunk :
    /\ rpc = "idle"
    /\ rN' = Lesser(n, GetRingBufferReadAvailable)
    /\ rpc' = "copy"
    /\ UNCHANGED <<sharedVars, writerVars, rData, delivered, got>>

\* The memcpys end.
EndGetCopy ==
  /\ rpc = "copy"
  /\ LET index == readIndex % BufferSize
         size1 == FirstHalf(readIndex, rN)
     IN rData' = [i \in 0 .. rN - 1 |->
                    IF i < size1 THEN buffer[index + i]
                                 ELSE buffer[i - size1]]
  /\ rpc' = "advance"
  /\ UNCHANGED <<sharedVars, writerVars, rN, delivered, got>>

\* AdvanceRingBufferReadIndex; only this thread writes readIndex.
AdvanceReadIndex ==
  /\ rpc = "advance"
  /\ readIndex' = (readIndex + rN) % (2 * BufferSize)
  /\ delivered' = delivered + rN
  /\ got' = rData
  /\ rpc' = "idle"
  /\ UNCHANGED <<writeIndex, buffer, writerVars, rN, rData>>

\* FlushRingBuffer, called with the writer stopped (restartReader) or not
\* (resetBuffer at the start of dabProcessor::run, after a reset).
FlushWriteIndex ==
  /\ rpc = "idle" /\ (FlushWhileWriting \/ wpc = "idle")
  /\ writeIndex' = 0
  /\ rpc' = "flush"
  /\ UNCHANGED <<readIndex, buffer, writerVars, rN, rData, delivered, got>>

\* A flush that forgets the second index.
FlushReadIndexForgotten ==
  /\ rpc = "flush"
  /\ delivered' = accepted
  /\ rpc' = "idle"
  /\ UNCHANGED <<sharedVars, writerVars, rN, rData, got>>

FlushReadIndex ==
  /\ rpc = "flush"
  /\ readIndex' = 0
  /\ delivered' = accepted
  /\ rpc' = "idle"
  /\ UNCHANGED <<writeIndex, buffer, writerVars, rN, rData, got>>

putDataIntoBuffer == BeginPut \/ EndPutCopy \/ ComputeWriteIndex \/ StoreWriteIndex
getDataFromBuffer == BeginGet \/ EndGetCopy \/ AdvanceReadIndex
FlushRingBuffer   == FlushWriteIndex \/ FlushReadIndex

Next == putDataIntoBuffer \/ getDataFromBuffer \/ FlushRingBuffer

Spec == Init /\ [][Next]_vars
----------------------------------------------------------------------------
TypeOK ==
  /\ writeIndex \in Indices /\ readIndex \in Indices
  /\ buffer \in [Slots -> Int]
  /\ wpc \in {"idle", "copy", "advance", "store"}
  /\ wN \in Nat /\ wNext \in Indices
  /\ rpc \in {"idle", "copy", "advance", "flush"} /\ rN \in Nat
  /\ rpc = "advance" => rData \in [0 .. rN - 1 -> Int]
  /\ accepted \in Nat /\ delivered \in Nat

Busy(index, n) ==
  {s \in Slots : (s - (index % BufferSize)) % BufferSize < n}

\* The writer and the reader never copy into and out of the same slot at the
\* same time, although nothing but the two indices keeps them apart.
NoTearing ==
  wpc = "copy" /\ rpc = "copy" =>
    Busy(writeIndex, wN) \cap Busy(readIndex, rN) = {}

\* The indices tell exactly what is inside, never more than the buffer holds
\* (a full buffer and an empty one differ because indices run to twice the size).
IndicesCount ==
  rpc # "flush" =>
    /\ GetRingBufferReadAvailable = accepted - delivered
    /\ accepted - delivered <= BufferSize

\* What was copied in and not yet taken out is in its slots, whether the
\* writer has stored its index or not.
Filled == accepted - delivered + (IF wpc \in {"advance", "store"} THEN wN ELSE 0)
Contents ==
  rpc # "flush" =>
    \A i \in 0 .. Filled - 1 :
      buffer[(readIndex + i) % BufferSize] = delivered + i

\* What each thread found when it looked at the indices still holds when it
\* acts on it, although the other thread has moved its index since.
ViewsHold ==
  /\ delivered <= accepted
  /\ rpc = "flush" => wpc = "idle" /\ writeIndex = 0
  /\ wpc # "idle" => wN <= BufferSize - (accepted - delivered)
  /\ wpc = "store" => wNext = (writeIndex + wN) % (2 * BufferSize)
  /\ rpc \in {"copy", "advance"} => rN <= accepted - delivered
  /\ rpc = "advance" => rData = [i \in 0 .. rN - 1 |-> delivered + i]

\* The inductive invariant behind NoTearing and the refinement.
IInv == TypeOK /\ IndicesCount /\ ViewsHold /\ Contents

\* The buffer is the bounded stream it promises to be.
Stream == INSTANCE BoundedStream WITH Capacity <- BufferSize
StreamSpec == Stream!Spec
============================================================================
