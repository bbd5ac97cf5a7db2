------------------------- MODULE AndersonLockProofs -------------------------
(***************************************************************************)
(* Proofs about AndersonLock, for every number of threads that is at most  *)
(* the number of slots of the lock.                                        *)
(***************************************************************************)
EXTENDS AndersonLock, FiniteSetTheorems, TLAPS

(***************************************************************************)
(* What the users of alock.c must provide: as many slots as threads that   *)
(* take the lock, and memory in which the flags that anderson_init does    *)
(* not write are clear.                                                    *)
(***************************************************************************)
EnoughSlots ==
  /\ IsFiniteSet(Threads) /\ Cardinality(Threads) <= nthread
  /\ Garbage \subseteq {0}

-----------------------------------------------------------------------------
(* The inductive invariant *)

\* The slot k places after slot b.
Slot(b, k) == IF b + k < nthread THEN b + k ELSE b + k - nthread

\* The threads that have drawn a slot stand in one queue.
Queue ==
  /\ ahead \in [Threads -> SUBSET Active]
  /\ \A t \in Threads : t \notin ahead[t]
  /\ \A t, u \in Active : t # u => t \in ahead[u] \/ u \in ahead[t]
  /\ \A t \in Active : \A u \in ahead[t] : ahead[u] \subseteq ahead[t]
  /\ FirstComeFirstServed

\* The queue occupies consecutive slots from slot b on, the next thread draws
\* the slot after them, and the only flag set is that of slot b, until the
\* thread that has slot b clears it.
QueueFrom(b) ==
  /\ \A t \in Active : me[t] = Slot(b, Cardinality(ahead[t]))
  /\ next_slot % nthread = Slot(b, Cardinality(Active))
  /\ \A s \in Slots :
       has_lock[s] = IF s = b /\ \A t \in Threads : pc[t] # "in" THEN 1 ELSE 0

\* Only the thread that has slot 0 sets the counter back, and until it does
\* the counter is one round too high.
CounterBounded ==
  /\ \A t \in Threads : pc[t] = "reset" => me[t] = 0
  /\ IF \E t \in Threads : pc[t] = "reset"
       THEN next_slot \in nthread + 1..2 * nthread
       ELSE next_slot \in 0..nthread

LockInv == TypeOK /\ Queue /\ CounterBounded /\ \E b \in Slots : QueueFrom(b)

-----------------------------------------------------------------------------
(* Lemmas *)

\* Places on the ring of slots: advancing one place is what anderson_release
\* computes, a whole round leads back, and places less than one round apart are
\* different slots.
LEMMA SlotFacts ==
  ASSUME NEW b \in Slots
  PROVE  /\ \A k \in 0..nthread : Slot(b, k) \in Slots
         /\ \A i, j \in 0..nthread - 1 : Slot(b, i) = Slot(b, j) => i = j
         /\ Slot(b, 0) = b
         /\ \A k \in 0..nthread - 1 : Slot(Slot(b, 1), k) = Slot(b, k + 1)
         /\ (b + 1) % nthread = Slot(b, 1)
BY LockAssumption DEF Slot, Slots

\* The counter modulo the number of slots, within two rounds.
LEMMA CounterFacts ==
  ASSUME NEW n \in 0..2 * nthread
  PROVE  /\ n % nthread \in Slots
         /\ n < 2 * nthread => (n + 1) % nthread = Slot(n % nthread, 1)
         /\ n >= nthread => (n - nthread) % nthread = n % nthread
BY LockAssumption DEF Slot, Slots

\* A proper subset of a finite set has fewer elements.
LEMMA FewerElements ==
  ASSUME NEW S, IsFiniteSet(S), NEW T \in SUBSET S
  PROVE  /\ IsFiniteSet(T)
         /\ Cardinality(T) \in Nat /\ Cardinality(S) \in Nat
         /\ Cardinality(T) <= Cardinality(S)
         /\ T # S => Cardinality(T) < Cardinality(S)
<1>1. /\ IsFiniteSet(T) /\ Cardinality(T) <= Cardinality(S)
      /\ Cardinality(S) = Cardinality(T) => S = T
  BY FS_Subset
<1>2. Cardinality(T) \in Nat /\ Cardinality(S) \in Nat
  BY <1>1, FS_CardinalityType
<1> QED
  BY <1>1, <1>2

\* A thread has fewer threads ahead of it than there are in the queue, and no
\* two have the same number ahead.
LEMMA QueueLengths ==
  ASSUME EnoughSlots, TypeOK, Queue
  PROVE  /\ IsFiniteSet(Active)
         /\ Cardinality(Active) \in 0..nthread
         /\ \A t \in Threads \ Active : Cardinality(Active) < nthread
         /\ \A t \in Active : Cardinality(ahead[t]) \in 0..Cardinality(Active) - 1
         /\ \A t, u \in Active : t # u => Cardinality(ahead[t]) # Cardinality(ahead[u])
<1>1. Active \subseteq Threads /\ IsFiniteSet(Threads)
  BY DEF Active, EnoughSlots
<1>2. /\ IsFiniteSet(Active) /\ Cardinality(Active) \in Nat /\ Cardinality(Threads) \in Nat
      /\ Cardinality(Active) <= Cardinality(Threads)
      /\ Active # Threads => Cardinality(Active) < Cardinality(Threads)
  BY <1>1, FewerElements
<1>3. \A t \in Active : ahead[t] \subseteq Active /\ t \notin ahead[t]
  BY DEF Queue, Active
<1>4. \A t \in Active : Cardinality(ahead[t]) \in 0..Cardinality(Active) - 1
  <2> SUFFICES ASSUME NEW t \in Active PROVE Cardinality(ahead[t]) \in 0..Cardinality(Active) - 1
    OBVIOUS
  <2>1. ahead[t] \subseteq Active /\ ahead[t] # Active
    BY <1>3
  <2>2. Cardinality(ahead[t]) < Cardinality(Active) /\ Cardinality(ahead[t]) \in Nat
    BY <2>1, <1>2, FewerElements
  <2> QED
    BY <2>2, <1>2
<1>5. ASSUME NEW t \in Active, NEW u \in Active, u \in ahead[t]
      PROVE  Cardinality(ahead[u]) < Cardinality(ahead[t])
  <2>1. ahead[u] \subseteq ahead[t] /\ ahead[u] # ahead[t]
    BY <1>5, <1>3 DEF Queue
  <2>2. IsFiniteSet(ahead[t])
    BY <1>2, <1>3, FS_Subset
  <2> QED
    BY <2>1, <2>2, FewerElements
<1>6. \A t, u \in Active : t # u => Cardinality(ahead[t]) # Cardinality(ahead[u])
  <2> SUFFICES ASSUME NEW t \in Active, NEW u \in Active, t # u
               PROVE  Cardinality(ahead[t]) # Cardinality(ahead[u])
    OBVIOUS
  <2>1. u \in ahead[t] \/ t \in ahead[u]
    BY DEF Queue
  <2> QED
    BY <2>1, <1>4, <1>5, <1>2
<1> QED
  BY <1>1, <1>2, <1>4, <1>6, LockAssumption DEF EnoughSlots

\* Threads in the queue have different slots, and only the first one has the
\* slot where the queue starts.
LEMMA DistinctSlots ==
  ASSUME EnoughSlots, TypeOK, Queue, NEW b \in Slots, QueueFrom(b)
  PROVE  /\ \A t, u \in Active : me[t] = me[u] => t = u
         /\ \A t \in Active : me[t] = b <=> ahead[t] = {}
<1>1. \A t \in Active : Cardinality(ahead[t]) \in 0..nthread - 1
  BY QueueLengths, LockAssumption
<1>2. \A t, u \in Active : me[t] = me[u] => t = u
  BY <1>1, SlotFacts, QueueLengths DEF QueueFrom
<1>3. \A t \in Active : me[t] = b <=> Cardinality(ahead[t]) = 0
  <2>1. 0 \in 0..nthread - 1 /\ Slot(b, 0) = b
    BY LockAssumption, SlotFacts
  <2> QED
    BY <1>1, <2>1, SlotFacts DEF QueueFrom
<1>4. \A t \in Active : IsFiniteSet(ahead[t])
  BY QueueLengths, FS_Subset DEF Queue, Active
<1> QED
  BY <1>2, <1>3, <1>4, FS_EmptySet

-----------------------------------------------------------------------------
(* Every step keeps the invariant *)

LEMMA InitLockInv == EnoughSlots /\ Init => LockInv
<1> SUFFICES ASSUME EnoughSlots, Init PROVE LockInv
  OBVIOUS
<1>1. Active = {} /\ Cardinality(Active) = 0
  BY FS_EmptySet DEF Init, Active
<1>2. 0 \in Slots /\ next_slot % nthread = 0 /\ Slot(0, 0) = 0
  BY LockAssumption DEF Init, Slots, Slot
<1>3. \A s \in Slots : has_lock[s] = IF s = 0 THEN 1 ELSE 0
  BY DEF Init, EnoughSlots, Slots
<1>4. TypeOK
  <2>1. has_lock \in [Slots -> {0, 1}]
    BY LockAssumption DEF Init
  <2> QED
    BY <2>1, <1>2, LockAssumption DEF Init, TypeOK
<1>5. Queue
  BY <1>1 DEF Init, Queue, FirstComeFirstServed
<1>6. CounterBounded
  BY LockAssumption DEF Init, CounterBounded
<1>7. QueueFrom(0)
  BY <1>1, <1>2, <1>3 DEF Init, QueueFrom
<1> QED
  BY <1>2, <1>4, <1>5, <1>6, <1>7 DEF LockInv

\* A thread that draws a slot joins the queue at its end.
LEMMA DrawLockInv ==
  ASSUME EnoughSlots, LockInv, NEW t \in Threads, Draw(t) PROVE LockInv'
<1>1. TypeOK /\ Queue /\ CounterBounded
  BY DEF LockInv
<1>2. PICK b \in Slots : QueueFrom(b)
  BY DEF LockInv
<1> DEFINE slot == next_slot % nthread
<1>3. /\ t \in Threads \ Active
      /\ Cardinality(Active) \in 0..nthread - 1
      /\ IsFiniteSet(Active)
  <2>1. t \in Threads \ Active
    BY DEF Draw, Active
  <2> QED
    BY <2>1, <1>1, QueueLengths, LockAssumption
<1>4. slot \in Slots /\ slot = Slot(b, Cardinality(Active))
  BY <1>1, <1>2, CounterFacts DEF TypeOK, QueueFrom
<1>5. /\ pc' \in [Threads -> {"out", "reset", "spin", "clear", "in"}]
      /\ pc'[t] = (IF next_slot > 0 /\ slot = 0 THEN "reset" ELSE "spin")
      /\ \A u \in Threads : u # t => pc'[u] = pc[u]
  BY <1>1 DEF Draw, Goto, TypeOK
<1>6. me' \in [Threads -> Slots] /\ me'[t] = slot /\ \A u \in Threads : u # t => me'[u] = me[u]
  BY <1>1, <1>4 DEF Draw, TypeOK
<1>7. /\ ahead'[t] = Active /\ \A u \in Threads : u # t => ahead'[u] = ahead[u]
      /\ ahead' \in [Threads -> SUBSET Threads]
  BY <1>1 DEF Draw, Queue, Active
<1>8. Active' = Active \cup {t}
  BY <1>3, <1>5 DEF Active
<1>9. \A u \in Active : me[u] # slot
  <2>1. \A u \in Active : Cardinality(ahead[u]) \in 0..nthread - 1
                        /\ Cardinality(ahead[u]) # Cardinality(Active)
    BY <1>1, <1>3, QueueLengths, LockAssumption
  <2>2. \A i, j \in 0..nthread - 1 : Slot(b, i) = Slot(b, j) => i = j
    BY SlotFacts
  <2> QED
    BY <1>2, <1>3, <1>4, <2>1, <2>2 DEF QueueFrom
<1>10. CounterBounded' /\ next_slot' \in 0..2 * nthread
  <2>1. CASE \E u \in Threads : pc[u] = "reset"
    <3>1. PICK u \in Threads : pc[u] = "reset"
      BY <2>1
    <3>2. u \in Active /\ me[u] = 0 /\ u # t
      BY <3>1, <1>1 DEF CounterBounded, Active, Draw
    <3>3. slot # 0 /\ next_slot \in nthread + 1..2 * nthread
      BY <3>2, <1>9, <2>1, <1>1 DEF CounterBounded
    <3>4. next_slot # 2 * nthread
      BY <3>3, LockAssumption
    <3>5. pc'[t] = "spin" /\ pc'[u] = "reset" /\ next_slot' \in nthread + 1..2 * nthread
      BY <3>1, <3>2, <3>3, <3>4, <1>5, LockAssumption DEF Draw
    <3> QED
      BY <3>5, <1>1, <1>5, <1>6, LockAssumption DEF CounterBounded
  <2>2. CASE ~ \E u \in Threads : pc[u] = "reset"
    <3>1. next_slot \in 0..nthread
      BY <2>2, <1>1 DEF CounterBounded
    <3>2. slot = 0 <=> next_slot = 0 \/ next_slot = nthread
      BY <3>1, LockAssumption
    <3>3. CASE next_slot = nthread
      <4>1. pc'[t] = "reset" /\ me'[t] = 0 /\ next_slot' \in nthread + 1..2 * nthread
        BY <3>2, <3>3, <1>5, <1>6, LockAssumption DEF Draw
      <4> QED
        BY <4>1, <2>2, <1>5, LockAssumption DEF CounterBounded
    <3>4. CASE next_slot # nthread
      <4>1. pc'[t] = "spin" /\ next_slot' \in 0..nthread
        BY <3>1, <3>2, <3>4, <1>5, LockAssumption DEF Draw
      <4> QED
        BY <4>1, <2>2, <1>5, LockAssumption DEF CounterBounded
    <3> QED
      BY <3>3, <3>4
  <2> QED
    BY <2>1, <2>2
<1>11. TypeOK'
  BY <1>1, <1>5, <1>6, <1>10 DEF Draw, TypeOK
<1>12. Queue'
  <2>1. ahead' \in [Threads -> SUBSET Active'] /\ \A u \in Threads : u \notin ahead'[u]
    BY <1>1, <1>3, <1>7, <1>8 DEF Queue
  <2>2. \A u, v \in Active' : u # v => u \in ahead'[v] \/ v \in ahead'[u]
    BY <1>1, <1>3, <1>7, <1>8 DEF Queue, Active
  <2>3. \A u \in Active' : \A v \in ahead'[u] : ahead'[v] \subseteq ahead'[u]
    <3>1. ASSUME NEW u \in Active', NEW v \in ahead'[u] PROVE ahead'[v] \subseteq ahead'[u]
      <4>1. v \in Active /\ v # t /\ v \in Threads /\ ahead'[v] = ahead[v] /\ ahead[v] \subseteq Active
        BY <1>1, <1>3, <1>7, <1>8, <3>1 DEF Queue, Active
      <4>2. CASE u = t
        BY <4>1, <4>2, <1>7
      <4>3. CASE u # t
        BY <4>1, <4>3, <1>1, <1>7, <1>8, <3>1 DEF Queue, Active
      <4> QED
        BY <4>2, <4>3
    <3> QED
      BY <3>1
  <2>4. FirstComeFirstServed'
    BY <1>1, <1>5, <1>7 DEF Queue, FirstComeFirstServed
  <2> QED
    BY <2>1, <2>2, <2>3, <2>4 DEF Queue
<1>13. QueueFrom(b)'
  <2>1. Cardinality(Active') = Cardinality(Active) + 1
    BY <1>3, <1>8, FS_AddElement
  <2>2. next_slot' % nthread = Slot(b, Cardinality(Active'))
    <3>1. next_slot \in 0..2 * nthread /\ next_slot < 2 * nthread /\ next_slot' = next_slot + 1
      BY <1>1, <1>10, LockAssumption DEF Draw, TypeOK
    <3>2. next_slot' % nthread = Slot(slot, 1)
      BY <3>1, CounterFacts
    <3>3. \A k \in 0..nthread - 1 : Slot(Slot(b, k), 1) = Slot(b, k + 1)
      BY LockAssumption DEF Slot, Slots
    <3> QED
      BY <3>2, <3>3, <1>3, <1>4, <2>1
  <2>3. \A u \in Active' : me'[u] = Slot(b, Cardinality(ahead'[u]))
    BY <1>2, <1>3, <1>4, <1>6, <1>7, <1>8 DEF QueueFrom, Active
  <2>4. (\A u \in Threads : pc'[u] # "in") <=> (\A u \in Threads : pc[u] # "in")
    BY <1>5 DEF Draw
  <2> QED
    BY <1>2, <2>2, <2>3, <2>4 DEF QueueFrom, Draw
<1> QED
  BY <1>10, <1>11, <1>12, <1>13 DEF LockInv

\* The thread that sets the counter back is the only one to do so in its round.
LEMMA ResetLockInv ==
  ASSUME EnoughSlots, LockInv, NEW t \in Threads, Reset(t) PROVE LockInv'
<1>1. TypeOK /\ Queue /\ CounterBounded
  BY DEF LockInv
<1>2. PICK b \in Slots : QueueFrom(b)
  BY DEF LockInv
<1>3. /\ pc' \in [Threads -> {"out", "reset", "spin", "clear", "in"}]
      /\ pc[t] = "reset" /\ pc'[t] = "spin"
      /\ \A u \in Threads : u # t => pc'[u] = pc[u]
  BY <1>1 DEF Reset, Goto, TypeOK
<1>4. next_slot \in nthread + 1..2 * nthread /\ next_slot' = next_slot - nthread
  BY <1>1, <1>3 DEF CounterBounded, Reset
<1>5. Active' = Active /\ UNCHANGED <<has_lock, me, ahead>>
  BY <1>3 DEF Active, Reset
<1>6. \A u \in Threads : pc'[u] # "reset"
  <2> SUFFICES ASSUME NEW u \in Threads, u # t PROVE pc[u] # "reset"
    BY <1>3
  <2>1. ASSUME pc[u] = "reset" PROVE FALSE
    <3>1. t \in Active /\ u \in Active /\ me[t] = 0 /\ me[u] = 0
      BY <2>1, <1>1, <1>3 DEF CounterBounded, Active
    <3> QED
      BY <3>1, <1>1, <1>2, DistinctSlots
  <2> QED
    BY <2>1
<1>7. CounterBounded' /\ TypeOK'
  BY <1>1, <1>3, <1>4, <1>5, <1>6, LockAssumption DEF CounterBounded, TypeOK
<1>8. Queue'
  BY <1>1, <1>3, <1>5 DEF Queue, FirstComeFirstServed
<1>9. QueueFrom(b)'
  <2>1. next_slot' % nthread = next_slot % nthread
    <3>1. next_slot \in 0..2 * nthread /\ next_slot >= nthread
      BY <1>4, LockAssumption
    <3> QED
      BY <3>1, <1>4, CounterFacts
  <2>2. (\A u \in Threads : pc'[u] # "in") <=> (\A u \in Threads : pc[u] # "in")
    BY <1>3
  <2> QED
    BY <1>2, <1>5, <2>1, <2>2 DEF QueueFrom
<1> QED
  BY <1>7, <1>8, <1>9 DEF LockInv

\* The flag a thread finds set is that of the first slot of the queue.
LEMMA SpinLockInv ==
  ASSUME EnoughSlots, LockInv, NEW t \in Threads, Spin(t) PROVE LockInv'
<1>1. TypeOK /\ Queue /\ CounterBounded
  BY DEF LockInv
<1>2. PICK b \in Slots : QueueFrom(b)
  BY DEF LockInv
<1>3. /\ pc' \in [Threads -> {"out", "reset", "spin", "clear", "in"}]
      /\ pc[t] = "spin" /\ pc'[t] = "clear"
      /\ \A u \in Threads : u # t => pc'[u] = pc[u]
  BY <1>1 DEF Spin, Goto, TypeOK
<1>4. Active' = Active /\ UNCHANGED <<has_lock, next_slot, me, ahead>>
  BY <1>3 DEF Active, Spin
<1>5. ahead[t] = {}
  <2>1. me[t] \in Slots /\ has_lock[me[t]] # 0
    BY <1>1 DEF Spin, TypeOK
  <2>2. me[t] = b /\ t \in Active
    BY <2>1, <1>2, <1>3 DEF QueueFrom, Active
  <2> QED
    BY <2>2, <1>1, <1>2, DistinctSlots
<1>6. CounterBounded' /\ TypeOK'
  BY <1>1, <1>3, <1>4 DEF CounterBounded, TypeOK
<1>7. Queue'
  BY <1>1, <1>3, <1>4, <1>5 DEF Queue, FirstComeFirstServed
<1>8. QueueFrom(b)'
  <2>1. (\A u \in Threads : pc'[u] # "in") <=> (\A u \in Threads : pc[u] # "in")
    BY <1>3
  <2> QED
    BY <1>2, <1>4, <2>1 DEF QueueFrom
<1> QED
  BY <1>6, <1>7, <1>8 DEF LockInv

\* A thread that has or is about to have the lock is the first of the queue.
LEMMA HolderFirst ==
  ASSUME EnoughSlots, TypeOK, Queue, NEW b \in Slots, QueueFrom(b),
         NEW t \in Threads, pc[t] \in {"clear", "in"}
  PROVE  /\ ahead[t] = {} /\ me[t] = b /\ t \in Active
         /\ \A u \in Active : u # t => t \in ahead[u] /\ pc[u] \notin {"clear", "in"}
<1>1. ahead[t] = {} /\ t \in Active
  BY DEF Queue, FirstComeFirstServed, Active
<1>2. me[t] = b
  BY <1>1, DistinctSlots
<1>3. \A u \in Active : u # t => t \in ahead[u] /\ pc[u] \notin {"clear", "in"}
  BY <1>1 DEF Queue, FirstComeFirstServed, Active
<1> QED
  BY <1>1, <1>2, <1>3

\* A thread takes the lock by clearing the one flag that is set.
LEMMA ClearLockInv ==
  ASSUME EnoughSlots, LockInv, NEW t \in Threads, Clear(t) PROVE LockInv'
<1>1. TypeOK /\ Queue /\ CounterBounded
  BY DEF LockInv
<1>2. PICK b \in Slots : QueueFrom(b)
  BY DEF LockInv
<1>3. /\ pc' \in [Threads -> {"out", "reset", "spin", "clear", "in"}]
      /\ pc[t] = "clear" /\ pc'[t] = "in"
      /\ \A u \in Threads : u # t => pc'[u] = pc[u]
  BY <1>1 DEF Clear, Goto, TypeOK
<1>4. Active' = Active /\ UNCHANGED <<next_slot, me, ahead>>
  BY <1>3 DEF Active, Clear
<1>5. ahead[t] = {} /\ me[t] = b
  BY <1>1, <1>2, <1>3, HolderFirst
<1>6. has_lock' \in [Slots -> {0, 1}] /\ \A s \in Slots : has_lock'[s] = 0
  BY <1>1, <1>2, <1>5 DEF Clear, TypeOK, QueueFrom
<1>7. CounterBounded' /\ TypeOK'
  BY <1>1, <1>3, <1>4, <1>6 DEF CounterBounded, TypeOK
<1>8. Queue'
  BY <1>1, <1>3, <1>4, <1>5 DEF Queue, FirstComeFirstServed
<1>9. QueueFrom(b)'
  BY <1>2, <1>3, <1>4, <1>6 DEF QueueFrom
<1> QED
  BY <1>7, <1>8, <1>9 DEF LockInv

\* The first thread leaves, and the queue starts at the next slot.
LEMMA ReleaseLockInv ==
  ASSUME EnoughSlots, LockInv, NEW t \in Threads, anderson_release(t) PROVE LockInv'
<1>1. TypeOK /\ Queue /\ CounterBounded
  BY DEF LockInv
<1>2. PICK b \in Slots : QueueFrom(b)
  BY DEF LockInv
<1> DEFINE c == Slot(b, 1)
<1>3. /\ pc' \in [Threads -> {"out", "reset", "spin", "clear", "in"}]
      /\ pc[t] = "in" /\ pc'[t] = "out"
      /\ \A u \in Threads : u # t => pc'[u] = pc[u]
  BY <1>1 DEF anderson_release, Goto, TypeOK
<1>4. /\ ahead[t] = {} /\ me[t] = b /\ t \in Active
      /\ \A u \in Active : u # t => t \in ahead[u] /\ pc[u] \notin {"clear", "in"}
  BY <1>1, <1>2, <1>3, HolderFirst
<1>5. /\ Active' = Active \ {t} /\ UNCHANGED <<next_slot, me>>
      /\ ahead' = [u \in Threads |-> ahead[u] \ {t}]
  BY <1>3 DEF Active, anderson_release
<1>6. c \in Slots /\ 1 \in 0..nthread
  BY SlotFacts, LockAssumption
<1>7. has_lock' \in [Slots -> {0, 1}] /\ \A s \in Slots : has_lock'[s] = IF s = c THEN 1 ELSE 0
  <2>1. has_lock' = [has_lock EXCEPT ![c] = 1]
    BY <1>4, SlotFacts DEF anderson_release
  <2>2. \A s \in Slots : has_lock[s] = 0
    BY <1>2, <1>3 DEF QueueFrom
  <2> QED
    BY <2>1, <2>2, <1>1, <1>6 DEF TypeOK
<1>8. CounterBounded' /\ TypeOK'
  BY <1>1, <1>3, <1>5, <1>7 DEF CounterBounded, TypeOK
<1>9. Queue'
  BY <1>1, <1>3, <1>5 DEF Queue, FirstComeFirstServed, Active
<1>10. \A k \in 1..nthread : Slot(b, k) = Slot(c, k - 1)
  BY LockAssumption DEF Slot, Slots
<1>11. IsFiniteSet(Active) /\ Cardinality(Active) \in 0..nthread
  BY <1>1, QueueLengths
<1>12. Cardinality(Active') = Cardinality(Active) - 1 /\ Cardinality(Active) \in 1..nthread
  <2>1. Cardinality(Active') = Cardinality(Active) - 1 /\ Cardinality(Active) \in Nat
    BY <1>4, <1>5, <1>11, FS_RemoveElement, FS_CardinalityType
  <2>2. Cardinality(Active) # 0
    BY <1>4, <1>11, FS_EmptySet
  <2> QED
    BY <2>1, <2>2, <1>11, LockAssumption
<1>13. ASSUME NEW u \in Active'
       PROVE  me'[u] = Slot(c, Cardinality(ahead'[u]))
  <2>1. u \in Active /\ u # t /\ t \in ahead[u] /\ u \in Threads
    BY <1>4, <1>5, <1>13 DEF Active
  <2>2. Cardinality(ahead[u]) \in 0..nthread - 1 /\ IsFiniteSet(ahead[u])
    BY <2>1, <1>1, <1>11, QueueLengths, FS_Subset, LockAssumption DEF Queue
  <2>3. Cardinality(ahead[u]) # 0
    BY <2>1, <2>2, FS_EmptySet
  <2>4. Cardinality(ahead'[u]) = Cardinality(ahead[u]) - 1
    BY <2>1, <2>2, <1>5, FS_RemoveElement
  <2>5. Cardinality(ahead[u]) \in 1..nthread
    BY <2>2, <2>3, LockAssumption
  <2> QED
    BY <2>1, <2>4, <2>5, <1>2, <1>5, <1>10 DEF QueueFrom
<1>14. QueueFrom(c)'
  <2>1. \A u \in Threads : pc'[u] # "in"
    BY <1>3, <1>4 DEF Active
  <2>2. next_slot' % nthread = Slot(c, Cardinality(Active'))
    BY <1>2, <1>5, <1>10, <1>12 DEF QueueFrom
  <2> QED
    BY <2>1, <2>2, <1>7, <1>13 DEF QueueFrom
<1> QED
  BY <1>6, <1>8, <1>9, <1>14 DEF LockInv

-----------------------------------------------------------------------------
(* Theorems *)

LEMMA NextLockInv == EnoughSlots /\ LockInv /\ [Next]_vars => LockInv'
<1> SUFFICES ASSUME EnoughSlots, LockInv, [Next]_vars PROVE LockInv'
  OBVIOUS
<1>1. ASSUME NEW t \in Threads, Draw(t) \/ Step(t) PROVE LockInv'
  BY <1>1, DrawLockInv, ResetLockInv, SpinLockInv, ClearLockInv, ReleaseLockInv DEF Step
<1>2. CASE UNCHANGED vars
  <2>1. UNCHANGED <<has_lock, next_slot, me, pc, ahead, Active>>
    BY <1>2 DEF vars, Active
  <2>2. TypeOK' /\ Queue' /\ CounterBounded'
    BY <2>1 DEF LockInv, TypeOK, Queue, FirstComeFirstServed, CounterBounded
  <2>3. ASSUME NEW b \in Slots, QueueFrom(b) PROVE QueueFrom(b)'
    BY <2>1, <2>3 DEF QueueFrom
  <2> QED
    BY <2>2, <2>3 DEF LockInv
<1> QED
  BY <1>1, <1>2 DEF Next

\* The queue of the lock: with enough slots the invariant holds in every
\* reachable state.
THEOREM LockInvariant ==
  ASSUME EnoughSlots PROVE Spec => []LockInv
<1>1. Init => LockInv
  BY InitLockInv
<1>2. LockInv /\ [Next]_vars => LockInv'
  BY NextLockInv
<1> QED
  BY <1>1, <1>2, PTL DEF Spec

\* next_slot, which every anderson_acquire increments, stays within two rounds
\* of the slots: it is set back often enough never to overflow.
THEOREM LockTypes ==
  ASSUME EnoughSlots PROVE Spec => []TypeOK
<1>1. LockInv => TypeOK
  BY DEF LockInv
<1> QED
  BY <1>1, LockInvariant, PTL

\* At most one thread is between anderson_acquire and anderson_release.
THEOREM LockExcludes ==
  ASSUME EnoughSlots PROVE Spec => []MutualExclusion
<1>1. LockInv => MutualExclusion
  <2> SUFFICES ASSUME LockInv, NEW t \in Threads, NEW u \in Threads,
                      pc[t] = "in", pc[u] = "in"
               PROVE  t = u
    BY DEF MutualExclusion
  <2>1. PICK b \in Slots : QueueFrom(b)
    BY DEF LockInv
  <2>2. u \in Active
    BY DEF Active
  <2> QED
    BY <2>1, <2>2, HolderFirst DEF LockInv
<1> QED
  BY <1>1, LockInvariant, PTL

\* anderson_acquire returns in the order in which the threads incremented
\* next_slot, the counter being set back in between or not.
THEOREM LockIsFair ==
  ASSUME EnoughSlots PROVE Spec => []FirstComeFirstServed
<1>1. LockInv => FirstComeFirstServed
  BY DEF LockInv, Queue
<1> QED
  BY <1>1, LockInvariant, PTL
=============================================================================
