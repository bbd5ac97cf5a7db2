---------------------------- MODULE AndersonLock ----------------------------
(***************************************************************************)
(* The array lock of alock.c, which protects a partition in the locking    *)
(* hash table.  A thread draws a slot and spins on that slot's flag; the   *)
(* holder passes the lock on by setting the flag of the next slot.  One    *)
(* step is one access to shared memory.                                    *)
(***************************************************************************)
EXTENDS Integers, FiniteSets

CONSTANTS
  Threads,
  nthread,   \* slots the lock was created with
  Garbage    \* what has_lock[1..] may hold when anderson_init is called

ASSUME LockAssumption == nthread \in Nat \ {0} /\ Garbage \subseteq {0, 1}

VARIABLES
  has_lock, next_slot,
  me,      \* the thread's slot; *extra between acquire and release
  pc,      \* "out", "reset", "spin", "clear", "in" (holds the lock)
  ahead    \* history: the threads before a thread in the order of drawing slots

vars == <<has_lock, next_slot, me, pc, ahead>>

Slots == 0..nthread - 1

\* anderson_init writes only has_lock[0].
Init ==
  /\ has_lock \in {f \in [Slots -> Garbage \cup {1}] :
                     f[0] = 1 /\ \A i \in Slots \ {0} : f[i] \in Garbage}
  /\ next_slot = 0
  /\ me = [t \in Threads |-> 0]
  /\ pc = [t \in Threads |-> "out"]
  /\ ahead = [t \in Threads |-> {}]

Goto(t, l) == pc' = [pc EXCEPT ![t] = l]

\* Threads that have drawn a slot and not released the lock yet.
Active == {t \in Threads : pc[t] # "out"}

\* anderson_acquire: the first __sync_fetch_and_add.
Draw(t) ==
  /\ pc[t] = "out"
  /\ next_slot' = next_slot + 1
  /\ me' = [me EXCEPT ![t] = next_slot % nthread]
  /\ Goto(t, IF next_slot > 0 /\ next_slot % nthread = 0 THEN "reset" ELSE "spin")
  /\ ahead' = [ahead EXCEPT ![t] = Active]
  /\ UNCHANGED has_lock

\* Mutant: the counter is set back by assignment.
ResetAssign(t) ==
  /\ pc[t] = "reset"
  /\ next_slot' = 1
  /\ Goto(t, "spin")
  /\ UNCHANGED <<has_lock, me, ahead>>

\* Mutant: the counter is never set back.
ResetSkip(t) ==
  /\ pc[t] = "reset" /\ next_slot < 5 * nthread
  /\ Goto(t, "spin")
  /\ UNCHANGED <<has_lock, next_slot, me, ahead>>

\* The counter is kept small by the thread that drew a multiple of nthread.
Reset(t) ==
  /\ pc[t] = "reset"
  /\ next_slot' = next_slot - nthread
  /\ Goto(t, "spin")
  /\ UNCHANGED <<has_lock, me, ahead>>

Spin(t) ==
  /\ pc[t] = "spin" /\ has_lock[me[t]] # 0
  /\ Goto(t, "clear")
  /\ UNCHANGED <<has_lock, next_slot, me, ahead>>

\* Mutant: the flag is left set.
ClearNot(t) ==
  /\ pc[t] = "clear"
  /\ Goto(t, "in")
  /\ UNCHANGED <<has_lock, next_slot, me, ahead>>

Clear(t) ==
  /\ pc[t] = "clear"
  /\ has_lock' = [has_lock EXCEPT ![me[t]] = 0]
  /\ Goto(t, "in")
  /\ UNCHANGED <<next_slot, me, ahead>>

\* Mutant: the slot after the last one is not the first.
anderson_release_end(t) ==
  /\ pc[t] = "in"
  /\ has_lock' = [s \in Slots |-> IF s = me[t] + 1 THEN 1 ELSE has_lock[s]]
  /\ Goto(t, "out")
  /\ ahead' = [u \in Threads |-> ahead[u] \ {t}]
  /\ UNCHANGED <<next_slot, me>>

anderson_release(t) ==
  /\ pc[t] = "in"
  /\ has_lock' = [has_lock EXCEPT ![(me[t] + 1) % nthread] = 1]
  /\ Goto(t, "out")
  /\ ahead' = [u \in Threads |-> ahead[u] \ {t}]
  /\ UNCHANGED <<next_slot, me>>

Step(t) == Reset(t) \/ Spin(t) \/ Clear(t) \/ anderson_release(t)
Next == \E t \in Threads : Draw(t) \/ Step(t)

Spec == Init /\ [][Next]_vars

\* Threads keep running and never keep the lock; they need not ask for it.
FairSpec == Spec /\ \A t \in Threads : WF_vars(Step(t))

-----------------------------------------------------------------------------
\* next_slot stays small however often the lock is taken: it cannot overflow.
TypeOK ==
  /\ has_lock \in [Slots -> {0, 1}]
  /\ next_slot \in 0..2 * nthread
  /\ me \in [Threads -> Slots]
  /\ pc \in [Threads -> {"out", "reset", "spin", "clear", "in"}]

\* At most one thread holds the lock.
MutualExclusion == \A t, u \in Threads : pc[t] = "in" /\ pc[u] = "in" => t = u

\* Threads get the lock in the order in which they drew their slots.
FirstComeFirstServed == \A t \in Threads : pc[t] \in {"clear", "in"} => ahead[t] = {}

\* A thread that asks for the lock gets it.
EveryoneEnters == \A t \in Threads : pc[t] \in {"reset", "spin"} ~> pc[t] = "in"
=============================================================================
