------------------------- MODULE InputBufferProofs -------------------------
(***************************************************************************)
(* Proofs about InputBuffer, for every number and size of lines and every  *)
(* set of messages without a zero word.                                    *)
(***************************************************************************)
EXTENDS InputBuffer, SequenceTheorems, TLAPS

-----------------------------------------------------------------------------
(* Arithmetic of the ring *)

\* The place k lines after a line is a line, and two places less than one
\* turn apart are different lines.
LEMMA SlotFacts ==
  ASSUME NEW b \in Lines
  PROVE  /\ \A k \in 0..INPB_COUNT : Slot(b, k) \in Lines
         /\ \A i, j \in 0..INPB_COUNT - 1 : Slot(b, i) = Slot(b, j) => i = j
         /\ Slot(b, 0) = b
BY BufferAssumption DEF Slot, Lines

\* Advancing to the next line is advancing one place.
LEMMA NextSlot ==
  ASSUME NEW b \in Lines, NEW k \in 0..INPB_COUNT - 1
  PROVE  /\ NextLine(b) \in Lines
         /\ NextLine(Slot(b, k)) = Slot(b, k + 1)
         /\ Slot(NextLine(b), k) = Slot(b, k + 1)
BY BufferAssumption DEF Slot, Lines, NextLine

\* The line inpb_flush stores: the batch, with a terminator when it is short.
LEMMA LineFacts ==
  ASSUME local_data \in Seq(Nat), Len(local_data) <= INPB_SIZE, local_data # <<>>
  PROVE  /\ Line \in Seq(Nat)
         /\ Len(Line) \in 1..INPB_SIZE
         /\ Len(local_data) \in 1..Len(Line)
         /\ \A i \in 1..Len(local_data) : Line[i] = local_data[i]
         /\ Len(local_data) < INPB_SIZE =>
              /\ Len(Line) = Len(local_data) + 1
              /\ Line[Len(local_data) + 1] = 0
BY BufferAssumption DEF Line

-----------------------------------------------------------------------------
(* The inductive invariant *)

LEMMA InitIInv == Init => IInv
BY BufferAssumption
DEF Init, IInv, TypeOK, RingHoldsQueue, ReaderHoldsPrefix, WriterStoredPrefix,
    Reading, Slot, Lines, Slots, Words

\* Calls only change what is private to the client.
LEMMA CallIInv == ASSUME NonZeroWords, IInv, Call PROVE IInv'
<1> USE DEF IInv
<1>1. CASE inpb_flush
  BY <1>1 DEF inpb_flush, svars, TypeOK, RingHoldsQueue, ReaderHoldsPrefix,
              WriterStoredPrefix, Reading, Holds
<1>2. CASE \E m \in Messages : inpb_write(m)
  <2>1. PICK m \in Messages : inpb_write(m)
    BY <1>2
  <2>2. m \in Seq(Nat) /\ Len(m) \in 1..INPB_SIZE /\ m \in Seq(Words)
    BY MessagesFit DEF NonZeroWords, Words
  <2>a. local_data \o m \in Seq(Nat) /\ Len(local_data \o m) = Len(local_data) + Len(m)
    BY <2>2, ConcatProperties DEF TypeOK
  <2>b. local_data \o m \in Seq(Words)
    BY <2>2, ConcatProperties DEF WriterStoredPrefix
  <2>c. \/ local_data' = local_data /\ local_data # <<>> /\ wpc' = "spin" /\ wmsg' = m
        \/ /\ local_data' = local_data \o m /\ wpc' = "idle" /\ wmsg' = wmsg
           /\ Len(local_data \o m) <= INPB_SIZE
    <3>1. CASE Len(local_data) + Len(m) > INPB_SIZE
      <4>1. local_data # <<>>
        BY <3>1, <2>2, BufferAssumption
      <4> QED
        BY <3>1, <4>1, <2>1 DEF inpb_write
    <3>2. CASE ~(Len(local_data) + Len(m) > INPB_SIZE)
      <4>1. Len(local_data \o m) <= INPB_SIZE
        BY <3>2, <2>a, <2>2, BufferAssumption DEF TypeOK
      <4> QED
        BY <3>2, <4>1, <2>1 DEF inpb_write
    <3> QED
      BY <3>1, <3>2
  <2>3. TypeOK'
    <3>1. local_data' \in Seq(Nat) /\ Len(local_data') <= INPB_SIZE
      BY <2>c, <2>a DEF TypeOK
    <3> QED
      BY <2>1, <3>1 DEF inpb_write, svars, TypeOK
  <2>4. RingHoldsQueue' /\ ReaderHoldsPrefix'
    BY <2>1 DEF inpb_write, svars, RingHoldsQueue, ReaderHoldsPrefix, Reading, Holds
  <2>5. WriterStoredPrefix'
    <3>1. local_data' \in Seq(Words)
      BY <2>1, <2>b DEF inpb_write, WriterStoredPrefix
    <3>2. wpc' # "idle" => local_data' # <<>>
      BY <2>c
    <3>3. wpc' # "store"
      BY <2>1 DEF inpb_write
    <3> QED
      BY <3>1, <3>2, <3>3 DEF WriterStoredPrefix
  <2> QED
    BY <2>3, <2>4, <2>5
<1> QED
  BY <1>1, <1>2 DEF Call

\* Leaving the waiting loop: the line is free, so the ring is not full.
LEMMA FlushSpinIInv == ASSUME IInv, FlushSpin PROVE IInv'
<1> USE DEF IInv
<1>1. TypeOK' /\ RingHoldsQueue' /\ ReaderHoldsPrefix'
  BY DEF FlushSpin, svars, TypeOK, RingHoldsQueue, ReaderHoldsPrefix, Reading, Holds
<1>2. Len(queue) < INPB_COUNT
  <2>1. SUFFICES ASSUME Len(queue) = INPB_COUNT PROVE FALSE
    BY BufferAssumption DEF RingHoldsQueue, TypeOK
  <2>2. data_wr = data_rd
    BY <2>1, BufferAssumption DEF RingHoldsQueue, TypeOK, Slot, Lines
  <2>3. Holds(data_rd, queue[1]) /\ queue[1] \in Seq(Words) /\ Len(queue[1]) \in 1..INPB_SIZE
    BY <2>1, BufferAssumption, SlotFacts DEF RingHoldsQueue, TypeOK
  <2>4. data[data_rd][0] # 0
    BY <2>3 DEF Holds, Words
  <2> QED
    BY <2>2, <2>4 DEF FlushSpin
<1>3. WriterStoredPrefix'
  BY <1>2, LineFacts, BufferAssumption DEF FlushSpin, WriterStoredPrefix, Line, TypeOK
<1> QED
  BY <1>1, <1>3

\* The lines of the queue and, when the ring is not full, the client's line
\* are different lines.
LEMMA ClientLineFree ==
  ASSUME IInv, Len(queue) < INPB_COUNT
  PROVE  /\ \A i \in 1..Len(queue) : /\ Slot(data_rd, i - 1) \in Lines
                                     /\ Slot(data_rd, i - 1) # data_wr
         /\ \A k \in Len(queue)..INPB_COUNT - 1 :
              /\ Slot(data_rd, k) \in Lines
              /\ k # Len(queue) => Slot(data_rd, k) # data_wr
<1>1. data_rd \in Lines /\ Len(queue) \in Nat /\ data_wr = Slot(data_rd, Len(queue))
  BY DEF IInv, TypeOK, RingHoldsQueue
<1>2. ASSUME NEW i \in 1..Len(queue)
      PROVE  Slot(data_rd, i - 1) \in Lines /\ Slot(data_rd, i - 1) # data_wr
  <2>1. i - 1 \in 0..INPB_COUNT - 1 /\ Len(queue) \in 0..INPB_COUNT - 1 /\ i - 1 # Len(queue)
    BY <1>1, BufferAssumption
  <2> QED
    BY <1>1, <2>1, SlotFacts, BufferAssumption
<1>3. ASSUME NEW k \in Len(queue)..INPB_COUNT - 1
      PROVE  Slot(data_rd, k) \in Lines /\ (k # Len(queue) => Slot(data_rd, k) # data_wr)
  <2>1. k \in 0..INPB_COUNT - 1 /\ Len(queue) \in 0..INPB_COUNT - 1
    BY <1>1, BufferAssumption
  <2> QED
    BY <1>1, <2>1, SlotFacts, BufferAssumption
<1> QED
  BY <1>2, <1>3

\* A store into a word other than word 0 of the client's line.
LEMMA FlushStoreIInv == ASSUME IInv, FlushStore PROVE IInv'
<1>1. /\ Len(queue) < INPB_COUNT /\ local_data # <<>>
      /\ wi \in 1..Len(Line) - 1
      /\ \A j \in 1..wi - 1 : data[data_wr][j] = Line[j + 1]
      /\ local_data \in Seq(Words)
  BY DEF IInv, FlushStore, WriterStoredPrefix, TypeOK
<1>2. /\ Line \in Seq(Nat) /\ Len(Line) \in 1..INPB_SIZE /\ Line' = Line
  BY <1>1, LineFacts DEF IInv, TypeOK, FlushStore, Line
<1>3. Line[wi + 1] \in Nat /\ wi \in Slots /\ wi # 0 /\ wi + 1 \in 1..Len(Line)
  BY <1>1, <1>2, BufferAssumption DEF Slots
<1>4. data_wr \in Lines /\ data \in [Lines -> [Slots -> Nat]]
  BY DEF IInv, TypeOK
<1>5. /\ data' \in [Lines -> [Slots -> Nat]]
      /\ \A l \in Lines : l # data_wr => data'[l] = data[l]
      /\ \A l \in Lines : data'[l][0] = data[l][0]
      /\ \A j \in Slots : j # wi => data'[data_wr][j] = data[data_wr][j]
      /\ data'[data_wr][wi] = Line[wi + 1]
  BY <1>3, <1>4 DEF FlushStore
<1>6. TypeOK'
  BY <1>1, <1>3, <1>5 DEF IInv, TypeOK, FlushStore, svars
<1>7. RingHoldsQueue'
  <2>1. ASSUME NEW i \in 1..Len(queue) PROVE Holds(Slot(data_rd, i - 1), queue[i])'
    <3>1. data'[Slot(data_rd, i - 1)] = data[Slot(data_rd, i - 1)]
      BY <1>1, <1>5, ClientLineFree
    <3>2. Holds(Slot(data_rd, i - 1), queue[i])
      BY DEF IInv, RingHoldsQueue
    <3> QED
      BY <3>1, <3>2 DEF Holds, FlushStore, svars, Slot
  <2>2. ASSUME NEW k \in Len(queue)..INPB_COUNT - 1 PROVE data'[Slot(data_rd, k)][0] = 0
    BY <1>1, <1>5, ClientLineFree DEF IInv, RingHoldsQueue
  <2> QED
    BY <2>1, <2>2 DEF IInv, RingHoldsQueue, FlushStore, svars, Slot
<1>8. ReaderHoldsPrefix'
  BY DEF IInv, ReaderHoldsPrefix, Reading, FlushStore, svars
<1>9. WriterStoredPrefix'
  <2>1. ASSUME NEW j \in 1..wi PROVE data'[data_wr][j] = Line[j + 1]
    <3>1. CASE j = wi
      BY <3>1, <1>5
    <3>2. CASE j # wi
      <4>1. j \in 1..wi - 1 /\ j \in Slots
        BY <3>2, <1>1, <1>2, BufferAssumption DEF Slots
      <4>2. data[data_wr][j] = Line[j + 1]
        BY <4>1, <1>1
      <4> QED
        BY <3>2, <4>1, <4>2, <1>5
    <3> QED
      BY <3>1, <3>2
  <2> QED
    BY <1>1, <1>2, <2>1 DEF IInv, WriterStoredPrefix, FlushStore
<1> QED
  BY <1>6, <1>7, <1>8, <1>9 DEF IInv

\* The store of word 0 hands over a complete line.
LEMMA FlushPublishIInv == ASSUME NonZeroWords, IInv, FlushPublish PROVE IInv'
<1>1. /\ Len(queue) < INPB_COUNT /\ local_data # <<>> /\ wi = Len(Line)
      /\ \A j \in 1..wi - 1 : data[data_wr][j] = Line[j + 1]
      /\ local_data \in Seq(Words) /\ Len(local_data) \in 1..INPB_SIZE
      /\ queue \in Seq(Seq(Nat)) /\ local_data \in Seq(Nat)
      /\ data_rd \in Lines /\ data_wr = Slot(data_rd, Len(queue))
  BY LineFacts DEF IInv, FlushPublish, WriterStoredPrefix, TypeOK, RingHoldsQueue
<1>2. data_wr \in Lines /\ data \in [Lines -> [Slots -> Nat]] /\ 0 \in Slots
  BY BufferAssumption DEF IInv, TypeOK, Slots
<1>3. local_data[1] \in Words /\ local_data[1] \in Nat
  BY <1>1 DEF Words
<1>4. /\ data' \in [Lines -> [Slots -> Nat]]
      /\ \A l \in Lines : l # data_wr => data'[l] = data[l]
      /\ \A j \in Slots : j # 0 => data'[data_wr][j] = data[data_wr][j]
      /\ data'[data_wr][0] = local_data[1]
  BY <1>2, <1>3 DEF FlushPublish
<1>5. /\ queue' \in Seq(Seq(Nat)) /\ Len(queue') = Len(queue) + 1
      /\ \A i \in 1..Len(queue) : queue'[i] = queue[i]
      /\ queue'[Len(queue) + 1] = local_data
  BY <1>1 DEF FlushPublish
<1>6. local_data' \in Seq(Words) /\ local_data' \in Seq(Nat) /\ Len(local_data') <= INPB_SIZE
  <2>1. CASE wmsg = <<>>
    BY <2>1, BufferAssumption DEF FlushPublish
  <2>2. CASE wmsg \in Messages
    <3>1. wmsg \in Seq(Nat) /\ Len(wmsg) \in 1..INPB_SIZE
      BY <2>2, MessagesFit
    <3>2. wmsg \in Seq(Words)
      BY <2>2, <3>1 DEF NonZeroWords, Words
    <3> QED
      BY <3>1, <3>2, BufferAssumption DEF FlushPublish
  <2> QED
    BY <2>1, <2>2 DEF IInv, TypeOK
<1>7. data_wr' = Slot(data_rd, Len(queue) + 1) /\ data_wr' \in Lines /\ data_rd' = data_rd
  <2>1. Len(queue) \in 0..INPB_COUNT - 1 /\ Len(queue) + 1 \in 0..INPB_COUNT
    BY <1>1, BufferAssumption
  <2>2. data_wr' = NextLine(data_wr) /\ data_rd' = data_rd
    BY DEF FlushPublish, svars
  <2>3. NextLine(Slot(data_rd, Len(queue))) = Slot(data_rd, Len(queue) + 1)
    BY <1>1, <2>1, NextSlot
  <2>4. Slot(data_rd, Len(queue) + 1) \in Lines
    BY <1>1, <2>1, SlotFacts
  <2> QED
    BY <1>1, <2>2, <2>3, <2>4
<1>8. TypeOK'
  BY <1>4, <1>5, <1>6, <1>7 DEF IInv, TypeOK, FlushPublish, svars
<1>9. /\ \A w \in 1..Len(local_data) : data'[data_wr][w - 1] = local_data[w]
      /\ Len(local_data) < INPB_SIZE => data'[data_wr][Len(local_data)] = 0
  <2>1. ASSUME NEW w \in 1..Len(local_data) PROVE data'[data_wr][w - 1] = local_data[w]
    <3>1. CASE w = 1
      BY <3>1, <1>4
    <3>2. CASE w # 1
      <4>1. w - 1 \in 1..wi - 1 /\ w - 1 \in Slots /\ w - 1 # 0 /\ (w - 1) + 1 = w
        BY <3>2, <1>1, LineFacts, BufferAssumption DEF Slots
      <4>2. data[data_wr][w - 1] = Line[(w - 1) + 1]
        BY <4>1, <1>1
      <4>3. Line[w] = local_data[w]
        BY <1>1, LineFacts
      <4> QED
        BY <4>1, <4>2, <4>3, <1>4
    <3> QED
      BY <3>1, <3>2
  <2>2. ASSUME Len(local_data) < INPB_SIZE PROVE data'[data_wr][Len(local_data)] = 0
    <3>1. Len(local_data) \in 1..wi - 1 /\ Len(local_data) \in Slots /\ Len(local_data) # 0
      BY <2>2, <1>1, LineFacts, BufferAssumption DEF Slots
    <3>2. data[data_wr][Len(local_data)] = Line[Len(local_data) + 1]
      BY <3>1, <1>1
    <3>3. Line[Len(local_data) + 1] = 0
      BY <2>2, <1>1, LineFacts
    <3> QED
      BY <3>1, <3>2, <3>3, <1>4
  <2> QED
    BY <2>1, <2>2
<1>10. RingHoldsQueue'
  <2>1. ASSUME NEW i \in 1..Len(queue')
        PROVE  /\ queue'[i] \in Seq(Words) /\ Len(queue'[i]) \in 1..INPB_SIZE
               /\ Holds(Slot(data_rd, i - 1), queue[i])'
    <3>1. CASE i = Len(queue) + 1
      <4>1. queue'[i] = local_data /\ Slot(data_rd', i - 1) = data_wr
        BY <3>1, <1>1, <1>5, <1>7
      <4> QED
        BY <4>1, <1>1, <1>9 DEF Holds
    <3>2. CASE i # Len(queue) + 1
      <4>1. i \in 1..Len(queue) /\ queue'[i] = queue[i]
        BY <3>2, <1>1, <1>5
      <4>2. /\ queue[i] \in Seq(Words) /\ Len(queue[i]) \in 1..INPB_SIZE
            /\ Holds(Slot(data_rd, i - 1), queue[i])
        BY <4>1 DEF IInv, RingHoldsQueue
      <4>3. data'[Slot(data_rd, i - 1)] = data[Slot(data_rd, i - 1)]
        BY <4>1, <1>1, <1>4, ClientLineFree
      <4>4. Slot(data_rd', i - 1) = Slot(data_rd, i - 1)
        BY <1>7
      <4> QED
        BY <4>1, <4>2, <4>3, <4>4 DEF Holds
    <3> QED
      BY <3>1, <3>2
  <2>2. ASSUME NEW k \in Len(queue')..INPB_COUNT - 1 PROVE data'[Slot(data_rd, k)][0] = 0
    <3>1. k \in Len(queue)..INPB_COUNT - 1 /\ k # Len(queue)
      BY <1>1, <1>5, BufferAssumption
    <3>2. data[Slot(data_rd, k)][0] = 0
      BY <3>1 DEF IInv, RingHoldsQueue
    <3> QED
      BY <3>1, <3>2, <1>1, <1>4, ClientLineFree
  <2>3. Len(queue') <= INPB_COUNT /\ data_wr' = Slot(data_rd', Len(queue'))
    BY <1>1, <1>5, <1>7, BufferAssumption
  <2> QED
    BY <2>1, <2>2, <2>3, <1>7 DEF RingHoldsQueue
<1>11. ReaderHoldsPrefix'
  <2>1. rpc' = rpc /\ rbuf' = rbuf
    BY DEF FlushPublish, svars
  <2>2. ASSUME Reading PROVE queue # <<>> /\ queue' # <<>> /\ queue'[1] = queue[1]
    BY <2>2, <1>1, <1>5 DEF IInv, ReaderHoldsPrefix
  <2> QED
    BY <2>1, <2>2 DEF IInv, ReaderHoldsPrefix, Reading
<1>12. WriterStoredPrefix'
  BY <1>6 DEF WriterStoredPrefix, FlushPublish
<1> QED
  BY <1>8, <1>10, <1>11, <1>12 DEF IInv

\* What the server finds at the head of a ring that holds batches.
LEMMA HeadLine ==
  ASSUME IInv, queue # <<>>
  PROVE  /\ queue[1] \in Seq(Words) /\ Len(queue[1]) \in 1..INPB_SIZE
         /\ Holds(data_rd, queue[1])
         /\ Len(queue) \in 1..INPB_COUNT
<1>1. queue \in Seq(Seq(Nat)) /\ 1 \in 1..Len(queue) /\ data_rd \in Lines
  BY DEF IInv, TypeOK
<1>2. Slot(data_rd, 1 - 1) = data_rd
  BY <1>1, SlotFacts
<1>3. /\ queue[1] \in Seq(Words) /\ Len(queue[1]) \in 1..INPB_SIZE
      /\ Holds(Slot(data_rd, 1 - 1), queue[1])
  BY <1>1 DEF IInv, RingHoldsQueue
<1> QED
  BY <1>1, <1>2, <1>3 DEF IInv, RingHoldsQueue

\* An empty ring shows the server a free line.
LEMMA EmptyRing == ASSUME IInv, queue = <<>> PROVE data[data_rd][0] = 0
<1>1. 0 \in Len(queue)..INPB_COUNT - 1 /\ Slot(data_rd, 0) = data_rd
  BY BufferAssumption, SlotFacts DEF IInv, TypeOK
<1> QED
  BY <1>1 DEF IInv, RingHoldsQueue

LEMMA ReadTestIInv == ASSUME IInv, ReadTest PROVE IInv'
<1>1. /\ data' = data /\ data_rd' = data_rd /\ rbuf' = rbuf /\ queue' = queue
      /\ data_wr' = data_wr /\ local_data' = local_data /\ wpc' = wpc
      /\ wi' = wi /\ wmsg' = wmsg /\ got' = got
  BY DEF ReadTest, cvars
<1>2. rpc = "test" /\ rpc' \in {"test", "copy", "clear"}
  BY DEF ReadTest
<1>3. rbuf \in Seq(Nat)
  BY DEF IInv, TypeOK
<1>4. TypeOK' /\ RingHoldsQueue' /\ WriterStoredPrefix'
  BY <1>1, <1>2 DEF IInv, TypeOK, RingHoldsQueue, Holds, WriterStoredPrefix, Line
<1>5. ReaderHoldsPrefix'
  <2>1. CASE queue = <<>>
    <3>1. rbuf = <<>> /\ Len(rbuf) = 0
      BY <2>1, <1>3 DEF IInv, ReaderHoldsPrefix, Reading
    <3>2. rpc' = "test"
      BY <2>1, <3>1, EmptyRing DEF ReadTest
    <3> QED
      BY <3>1, <3>2, <1>1 DEF ReaderHoldsPrefix, Reading
  <2>2. CASE queue # <<>>
    <3>1. /\ Len(rbuf) <= Len(queue[1])
          /\ \A i \in 1..Len(rbuf) : rbuf[i] = queue[1][i]
      BY <2>2, <1>3, HeadLine DEF IInv, ReaderHoldsPrefix, Reading
    <3>2. CASE Len(rbuf) < Len(queue[1])
      <4>1. /\ Len(rbuf) < INPB_SIZE
            /\ Len(rbuf) + 1 \in 1..Len(queue[1])
            /\ (Len(rbuf) + 1) - 1 = Len(rbuf)
        BY <3>2, <2>2, <1>3, HeadLine, BufferAssumption
      <4>2. data[data_rd][(Len(rbuf) + 1) - 1] = queue[1][Len(rbuf) + 1]
        BY <4>1, <2>2, HeadLine DEF Holds
      <4>3. queue[1][Len(rbuf) + 1] # 0
        BY <4>1, <2>2, HeadLine DEF Words
      <4>4. rpc' = "copy"
        BY <4>1, <4>2, <4>3 DEF ReadTest
      <4> QED
        BY <4>4, <3>1, <3>2, <2>2, <1>1 DEF ReaderHoldsPrefix, Reading
    <3>3. CASE Len(rbuf) = Len(queue[1])
      <4>1. ~(Len(rbuf) < INPB_SIZE /\ data[data_rd][Len(rbuf)] # 0) /\ rbuf # <<>>
        BY <3>3, <2>2, <1>3, HeadLine DEF Holds
      <4>2. rpc' = "clear"
        BY <4>1 DEF ReadTest
      <4> QED
        BY <4>2, <3>1, <3>3, <2>2, <1>1 DEF ReaderHoldsPrefix, Reading
    <3> QED
      BY <3>1, <3>2, <3>3, <2>2, <1>3, HeadLine
  <2> QED
    BY <2>1, <2>2
<1> QED
  BY <1>4, <1>5 DEF IInv

LEMMA ReadCopyIInv == ASSUME IInv, ReadCopy PROVE IInv'
<1>1. /\ data' = data /\ data_rd' = data_rd /\ queue' = queue /\ rpc' = "test"
      /\ data_wr' = data_wr /\ local_data' = local_data /\ wpc' = wpc
      /\ wi' = wi /\ wmsg' = wmsg /\ got' = got
  BY DEF ReadCopy, cvars
<1>2. /\ rbuf \in Seq(Nat) /\ queue # <<>> /\ Len(rbuf) < Len(queue[1])
      /\ \A i \in 1..Len(rbuf) : rbuf[i] = queue[1][i]
  BY DEF ReadCopy, IInv, TypeOK, ReaderHoldsPrefix, Reading
<1>3. /\ Len(rbuf) + 1 \in 1..Len(queue[1]) /\ (Len(rbuf) + 1) - 1 = Len(rbuf)
      /\ Len(rbuf) + 1 <= INPB_SIZE
  BY <1>2, HeadLine, BufferAssumption
<1>4. data[data_rd][(Len(rbuf) + 1) - 1] = queue[1][Len(rbuf) + 1]
  BY <1>2, <1>3, HeadLine DEF Holds
<1>5. queue[1][Len(rbuf) + 1] \in Nat
  BY <1>2, <1>3, HeadLine DEF Words
<1>6. rbuf' = Append(rbuf, queue[1][Len(rbuf) + 1])
  BY <1>3, <1>4 DEF ReadCopy
<1>7. /\ rbuf' \in Seq(Nat) /\ Len(rbuf') = Len(rbuf) + 1
      /\ \A i \in 1..Len(rbuf') : rbuf'[i] = queue[1][i]
  BY <1>2, <1>5, <1>6
<1>8. TypeOK' /\ RingHoldsQueue' /\ WriterStoredPrefix'
  BY <1>1, <1>3, <1>7 DEF IInv, TypeOK, RingHoldsQueue, Holds, WriterStoredPrefix, Line
<1>9. ReaderHoldsPrefix'
  BY <1>1, <1>2, <1>3, <1>7 DEF ReaderHoldsPrefix, Reading
<1> QED
  BY <1>8, <1>9 DEF IInv

\* Giving the oldest line back makes it the last free one.
LEMMA ReadClearIInv == ASSUME IInv, ReadClear PROVE IInv'
<1>1. /\ rpc = "clear" /\ rpc' = "test" /\ rbuf' = <<>> /\ queue' = Tail(queue)
      /\ data_rd' = NextLine(data_rd) /\ got' = rbuf
      /\ data_wr' = data_wr /\ local_data' = local_data /\ wpc' = wpc
      /\ wi' = wi /\ wmsg' = wmsg
  BY DEF ReadClear, cvars
<1>2. /\ queue # <<>> /\ queue \in Seq(Seq(Nat)) /\ Len(queue) \in 1..INPB_COUNT
      /\ data_rd \in Lines /\ data_wr = Slot(data_rd, Len(queue))
      /\ data \in [Lines -> [Slots -> Nat]] /\ 0 \in Slots
  <2>1. queue # <<>>
    BY <1>1 DEF IInv, ReaderHoldsPrefix, Reading
  <2>2. Len(queue) \in 1..INPB_COUNT
    BY <2>1, HeadLine
  <2>3. 0 \in Slots
    BY BufferAssumption DEF Slots
  <2> QED
    BY <2>1, <2>2, <2>3 DEF IInv, TypeOK, RingHoldsQueue
<1>3. /\ queue' \in Seq(Seq(Nat)) /\ Len(queue') = Len(queue) - 1
      /\ \A i \in 1..Len(queue') : queue'[i] = queue[i + 1]
  BY <1>1, <1>2
<1>4. /\ data' \in [Lines -> [Slots -> Nat]]
      /\ \A l \in Lines : l # data_rd => data'[l] = data[l]
      /\ \A l \in Lines, j \in Slots : j # 0 => data'[l][j] = data[l][j]
      /\ data'[data_rd][0] = 0
  BY <1>2 DEF ReadClear
<1>5. /\ data_rd' \in Lines
      /\ \A k \in 0..INPB_COUNT - 1 : Slot(data_rd', k) = Slot(data_rd, k + 1)
  BY <1>1, <1>2, NextSlot, BufferAssumption
<1>6. \A k \in 1..INPB_COUNT - 1 : Slot(data_rd, k) \in Lines /\ Slot(data_rd, k) # data_rd
  BY <1>2, BufferAssumption DEF Slot, Lines
<1>7. TypeOK'
  BY <1>1, <1>3, <1>4, <1>5, BufferAssumption DEF IInv, TypeOK
<1>8. RingHoldsQueue'
  <2>1. ASSUME NEW i \in 1..Len(queue')
        PROVE  /\ queue'[i] \in Seq(Words) /\ Len(queue'[i]) \in 1..INPB_SIZE
               /\ Holds(Slot(data_rd, i - 1), queue[i])'
    <3>1. i + 1 \in 1..Len(queue) /\ i \in 1..INPB_COUNT - 1 /\ i - 1 \in 0..INPB_COUNT - 1
      BY <1>2, <1>3, BufferAssumption
    <3>2. /\ queue[i + 1] \in Seq(Words) /\ Len(queue[i + 1]) \in 1..INPB_SIZE
          /\ Holds(Slot(data_rd, (i + 1) - 1), queue[i + 1])
      BY <3>1 DEF IInv, RingHoldsQueue
    <3>3. (i + 1) - 1 = i /\ (i - 1) + 1 = i
      OBVIOUS
    <3>4. Slot(data_rd', i - 1) = Slot(data_rd, i)
      BY <3>1, <3>3, <1>5
    <3>5. data'[Slot(data_rd, i)] = data[Slot(data_rd, i)]
      BY <3>1, <1>4, <1>6
    <3> QED
      BY <3>2, <3>3, <3>4, <3>5, <1>3 DEF Holds
  <2>2. ASSUME NEW k \in Len(queue')..INPB_COUNT - 1 PROVE data'[Slot(data_rd', k)][0] = 0
    <3>1. k \in 0..INPB_COUNT - 1 /\ Slot(data_rd', k) = Slot(data_rd, k + 1)
      BY <1>2, <1>3, <1>5, BufferAssumption
    <3>2. CASE k = INPB_COUNT - 1
      <4>1. Slot(data_rd, k + 1) = data_rd
        BY <3>2, <1>2, BufferAssumption DEF Slot, Lines
      <4> QED
        BY <3>1, <4>1, <1>4
    <3>3. CASE k # INPB_COUNT - 1
      <4>1. k + 1 \in Len(queue)..INPB_COUNT - 1 /\ k + 1 \in 1..INPB_COUNT - 1
        BY <3>1, <3>3, <1>2, <1>3, BufferAssumption
      <4>2. data[Slot(data_rd, k + 1)][0] = 0
        BY <4>1 DEF IInv, RingHoldsQueue
      <4> QED
        BY <3>1, <4>1, <4>2, <1>4, <1>6
    <3> QED
      BY <3>2, <3>3
  <2>3. Len(queue') <= INPB_COUNT /\ data_wr' = Slot(data_rd', Len(queue'))
    <3>1. Len(queue') \in 0..INPB_COUNT - 1 /\ Len(queue') + 1 = Len(queue)
      BY <1>2, <1>3, BufferAssumption
    <3> QED
      BY <3>1, <1>1, <1>2, <1>5, BufferAssumption
  <2> QED
    BY <2>1, <2>2, <2>3 DEF RingHoldsQueue
<1>9. ReaderHoldsPrefix'
  BY <1>1 DEF ReaderHoldsPrefix, Reading
<1>10. WriterStoredPrefix'
  <2>1. Line' = Line
    BY <1>1 DEF Line
  <2>2. CASE wpc = "store"
    <3>1. /\ local_data # <<>> /\ wi \in 1..Len(Line) /\ Len(Line) <= INPB_SIZE
          /\ Len(queue) < INPB_COUNT /\ data_wr \in Lines
          /\ \A j \in 1..wi - 1 : data[data_wr][j] = Line[j + 1]
      BY <2>2, LineFacts DEF IInv, TypeOK, WriterStoredPrefix
    <3>2. ASSUME NEW j \in 1..wi - 1 PROVE data'[data_wr][j] = Line[j + 1]
      <4>1. j \in Slots /\ j # 0
        BY <3>1, BufferAssumption DEF Slots
      <4> QED
        BY <4>1, <3>1, <1>4
    <3> QED
      BY <3>1, <3>2, <2>1, <1>1, <1>2, <1>3, BufferAssumption DEF IInv, WriterStoredPrefix
  <2> QED
    BY <2>2, <1>1 DEF IInv, WriterStoredPrefix
<1> QED
  BY <1>7, <1>8, <1>9, <1>10 DEF IInv

LEMMA StepIInv == NonZeroWords /\ IInv /\ [Next]_vars => IInv'
<1> SUFFICES ASSUME NonZeroWords, IInv, [Next]_vars PROVE IInv'
  OBVIOUS
<1>1. CASE UNCHANGED vars
  BY <1>1 DEF vars, cvars, svars, IInv, TypeOK, RingHoldsQueue, Holds,
              ReaderHoldsPrefix, Reading, WriterStoredPrefix, Line
<1> QED
  BY <1>1, CallIInv, FlushSpinIInv, FlushStoreIInv, FlushPublishIInv,
     ReadTestIInv, ReadCopyIInv, ReadClearIInv
  DEF Next, Flush, Read

\* IInv is an inductive invariant of the word protocol of inpb_write,
\* inpb_flush and inpb_read, for every ring of lines and every set of messages
\* whose words are not 0.
THEOREM RingInvariant == ASSUME NonZeroWords PROVE Spec => []IInv
<1>1. IInv /\ [Next]_vars => IInv'
  BY StepIInv
<1> QED
  BY <1>1, InitIInv, PTL DEF Spec

\* Type correctness of the ring and of both threads' indices: no index of
\* mpbuffers.c leaves its array.
THEOREM TypeCorrect == ASSUME NonZeroWords PROVE Spec => []TypeOK
<1>1. IInv => TypeOK
  BY DEF IInv
<1> QED
  BY <1>1, RingInvariant, PTL

\* The ring of lines never overruns.
THEOREM NeverOverrun == ASSUME NonZeroWords PROVE Spec => []NoOverrun
<1>1. IInv => NoOverrun
  BY DEF IInv, NoOverrun, RingHoldsQueue, WriterStoredPrefix
<1> QED
  BY <1>1, RingInvariant, PTL

\* The client's stores and the server's loads never meet in a line.
THEOREM LinesExclusive == ASSUME NonZeroWords PROVE Spec => []LineExclusion
<1>1. IInv => LineExclusion
  <2> SUFFICES ASSUME IInv, wpc = "store", Reading PROVE data_wr # data_rd
    BY DEF LineExclusion
  <2>1. queue # <<>> /\ Len(queue) < INPB_COUNT
    BY DEF IInv, ReaderHoldsPrefix, WriterStoredPrefix
  <2>2. data_wr = Slot(data_rd, Len(queue)) /\ Len(queue) \in 1..INPB_COUNT
    BY <2>1, HeadLine DEF IInv, RingHoldsQueue
  <2> QED
    BY <2>1, <2>2, BufferAssumption DEF Slot, Lines, IInv, TypeOK
<1> QED
  BY <1>1, RingInvariant, PTL

\* What inpb_read returns is the oldest flushed batch, whole.
THEOREM BatchesIntact == ASSUME NonZeroWords PROVE Spec => []BatchIntact
<1>1. IInv => BatchIntact
  <2> SUFFICES ASSUME IInv, rpc = "clear" PROVE queue # <<>> /\ rbuf = Head(queue)
    BY DEF BatchIntact
  <2>1. /\ queue # <<>> /\ Len(rbuf) = Len(queue[1]) /\ rbuf \in Seq(Nat)
        /\ \A i \in 1..Len(rbuf) : rbuf[i] = queue[1][i]
    BY DEF IInv, TypeOK, ReaderHoldsPrefix, Reading
  <2>2. queue[1] \in Seq(Nat) /\ Head(queue) = queue[1]
    BY <2>1 DEF IInv, TypeOK
  <2> QED
    BY <2>1, <2>2, SeqEqual
<1> QED
  BY <1>1, RingInvariant, PTL

\* The word protocol implements the bounded FIFO of batches, for every size:
\* inpb_write is a Write or the first step of a flush, the last store of
\* inpb_flush is the Flush, clearing word 0 is the Take, and every other
\* step leaves the abstract state unchanged.
THEOREM Refinement == ASSUME NonZeroWords PROVE Spec => ImplementsBatchQueue
<1>1. Init => Queue!Init
  BY DEF Init, Queue!Init
<1>2. IInv /\ BatchIntact /\ [Next]_vars => [Queue!Next]_(Queue!vars)
  <2> SUFFICES ASSUME IInv, BatchIntact, [Next]_vars PROVE [Queue!Next]_(Queue!vars)
    OBVIOUS
  <2>1. CASE FlushSpin \/ FlushStore \/ ReadTest \/ ReadCopy \/ inpb_flush \/ UNCHANGED vars
    BY <2>1 DEF FlushSpin, FlushStore, ReadTest, ReadCopy, inpb_flush, vars, svars, cvars, Queue!vars
  <2>2. ASSUME NEW m \in Messages, inpb_write(m) PROVE [Queue!Next]_(Queue!vars)
    <3>1. CASE Len(local_data) + Len(m) > INPB_SIZE
      BY <2>2, <3>1 DEF inpb_write, svars, Queue!vars
    <3>2. CASE ~(Len(local_data) + Len(m) > INPB_SIZE)
      <4>1. Len(local_data) + Len(m) <= INPB_SIZE
        BY <3>2, MessagesFit, BufferAssumption DEF IInv, TypeOK
      <4>2. Queue!Write(m)
        BY <2>2, <3>2, <4>1 DEF inpb_write, svars, Queue!Write
      <4> QED
        BY <4>2 DEF Queue!Next
    <3> QED
      BY <3>1, <3>2
  <2>3. CASE FlushPublish
    <3>1. Queue!Flush(wmsg)
      BY <2>3 DEF FlushPublish, svars, IInv, WriterStoredPrefix, Queue!Flush
    <3> QED
      BY <3>1 DEF IInv, TypeOK, Queue!Next
  <2>4. CASE ReadClear
    <3>1. Queue!Take
      BY <2>4 DEF ReadClear, cvars, BatchIntact, Queue!Take
    <3> QED
      BY <3>1 DEF Queue!Next
  <2> QED
    BY <2>1, <2>2, <2>3, <2>4 DEF Next, Call, Flush, Read
<1> QED
  BY <1>1, <1>2, RingInvariant, BatchesIntact, PTL DEF Spec, ImplementsBatchQueue, Queue!Spec
=============================================================================
