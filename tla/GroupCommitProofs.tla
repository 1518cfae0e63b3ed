-------------------------- MODULE GroupCommitProofs --------------------------
(***************************************************************************)
(* Proofs about GroupCommit, for any set of threads, any record threshold  *)
(* and any number of calls: type correctness, one leader at a time, no     *)
(* parked waiter without a waker, and, where no batch fails half-way, Ok   *)
(* only for durable records.                                               *)
(***************************************************************************)
EXTENDS GroupCommit, TLAPS

\* A registered waiter whose generation has passed without an error newer than
\* its ticket has its records on disk: what ReturnDone, LeaderAlreadyDone and
\* StepDown rely on when they answer Ok.
DoneMeansDurable ==
    \A t \in Threads :
        Registered(t) /\ AlreadyDone(t) /\ FlushResult(t) = "ok"
            => target[t] <= durable

\* A closure is taken only by the thread that has just flushed, and a leader
\* whose flush succeeded is done.
SpentHasFlushed ==
    \A t \in Threads :
        /\ Registered(t) /\ t \in spent => pc[t] \in {"flushed", "failed"}
        /\ pc[t] = "flushed" => AlreadyDone(t)

\* The inductive invariant: types, control, and data.
ControlInv == OneLeader /\ ParkedHasWaker /\ SpentHasFlushed

DataInv == DirtyIsCounted /\ OkMeansDurable /\ DoneMeansDurable

IInv == TypeOK /\ ControlInv /\ DataInv

-----------------------------------------------------------------------------
\* Waking the parked threads changes only their program counters.
LEMMA NotifyAllWakes ==
    ASSUME NEW p \in [Threads -> PCs]
    PROVE  /\ NotifyAll(p) \in [Threads -> PCs]
           /\ \A t \in Threads :
                 /\ p[t] = "blocked"  => NotifyAll(p)[t] = "enter"
                 /\ p[t] = "leadwait" => NotifyAll(p)[t] = "lead"
                 /\ p[t] \notin {"blocked", "leadwait"}
                      => NotifyAll(p)[t] = p[t]
BY DEF NotifyAll, PCs

\* The initial state satisfies the invariant.
LEMMA InitIInv == Init => IInv
<1> SUFFICES ASSUME Init PROVE IInv
  OBVIOUS
<1>1. TypeOK
  <2>1. has_leader \in BOOLEAN /\ spent \subseteq Threads
    BY DEF Init
  <2>2. /\ pc \in [Threads -> PCs]
        /\ ticket \in [Threads -> 0..flush_gen]
        /\ target \in [Threads -> 0..leo]
        /\ result \in [Threads -> {"none", "ok", "err"}]
    BY DEF Init, PCs
  <2>3. /\ durable \in 0..leo
        /\ last_error \in 0..flush_gen
        /\ calls \in 0..MaxCalls
        /\ logLock \in Threads \cup {NoThread}
    BY GroupCommitAssumption DEF GroupCommitAssumption, Init
  <2> QED
    BY <2>1, <2>2, <2>3 DEF Init, TypeOK
<1>2. \A t \in Threads : ~Registered(t) /\ ~Leading(t)
  BY DEF Init, Registered, Leading
<1>3. DirtyIsCounted /\ OneLeader /\ ParkedHasWaker
  BY <1>2 DEF Init, DirtyIsCounted, OneLeader, ParkedHasWaker
<1>4. OkMeansDurable /\ DoneMeansDurable /\ SpentHasFlushed
  BY <1>2 DEF Init, OkMeansDurable, DoneMeansDurable, SpentHasFlushed
<1> QED
  BY <1>1, <1>3, <1>4 DEF IInv, ControlInv, DataInv

\* Every step keeps the types.
LEMMA TypeStep == TypeOK /\ [Next]_vars => TypeOK'
<1> SUFFICES ASSUME TypeOK, [Next]_vars PROVE TypeOK'
  OBVIOUS
<1> USE GroupCommitAssumption DEF GroupCommitAssumption
<1>n. \A p \in [Threads -> PCs] : NotifyAll(p) \in [Threads -> PCs]
  BY NotifyAllWakes
<1>m. \A t \in Threads, v \in PCs :
         /\ [pc EXCEPT ![t] = v] \in [Threads -> PCs]
         /\ NotifyAll([pc EXCEPT ![t] = v]) \in [Threads -> PCs]
  <2>1. \A t \in Threads, v \in PCs : [pc EXCEPT ![t] = v] \in [Threads -> PCs]
    BY DEF TypeOK
  <2> QED
    BY <2>1, <1>n
<1>1. ASSUME NEW t \in Threads, NEW roll \in BOOLEAN, Produce(t, roll)
      PROVE TypeOK'
  <2>1. pc' \in [Threads -> PCs]
    BY <1>1, <1>n, <1>m DEF Produce, StartCall, AppendRecords, TypeOK, PCs
  <2>2. /\ flush_gen' \in Nat
        /\ last_error' \in 0..flush_gen'
        /\ ticket' \in [Threads -> 0..flush_gen']
    BY <1>1 DEF Produce, StartCall, AppendRecords, TypeOK
  <2>3. /\ leo' \in Nat
        /\ durable' \in 0..leo'
        /\ target' \in [Threads -> 0..leo']
    BY <1>1 DEF Produce, StartCall, AppendRecords, TypeOK
  <2>4. /\ spent' \subseteq Threads
        /\ result' \in [Threads -> {"none", "ok", "err"}]
    BY <1>1 DEF Produce, StartCall, AppendRecords, TypeOK
  <2>5. /\ logLock' \in Threads \cup {NoThread}
        /\ has_leader' \in BOOLEAN
        /\ window' \in {"none", "open", "elapsed"}
    BY <1>1 DEF Produce, StartCall, AppendRecords, TypeOK
  <2>6. /\ uncommitted' \in Nat
        /\ pending_records' \in Nat
        /\ pending_waiters' \in Nat
        /\ calls' \in 0..MaxCalls
    BY <1>1 DEF Produce, StartCall, AppendRecords, TypeOK
  <2> QED
    BY <2>1, <2>2, <2>3, <2>4, <2>5, <2>6 DEF TypeOK
<1>2. ASSUME NEW t \in Threads, NEW roll \in BOOLEAN, AppendNoWait(t, roll)
      PROVE TypeOK'
  <2>1. pc' \in [Threads -> PCs]
    BY <1>2, <1>n, <1>m DEF AppendNoWait, StartCall, AppendRecords, TypeOK, PCs
  <2>2. /\ flush_gen' \in Nat
        /\ last_error' \in 0..flush_gen'
        /\ ticket' \in [Threads -> 0..flush_gen']
    BY <1>2 DEF AppendNoWait, StartCall, AppendRecords, TypeOK
  <2>3. /\ leo' \in Nat
        /\ durable' \in 0..leo'
        /\ target' \in [Threads -> 0..leo']
    BY <1>2 DEF AppendNoWait, StartCall, AppendRecords, TypeOK
  <2>4. /\ spent' \subseteq Threads
        /\ result' \in [Threads -> {"none", "ok", "err"}]
    BY <1>2 DEF AppendNoWait, StartCall, AppendRecords, TypeOK
  <2>5. /\ logLock' \in Threads \cup {NoThread}
        /\ has_leader' \in BOOLEAN
        /\ window' \in {"none", "open", "elapsed"}
    BY <1>2 DEF AppendNoWait, StartCall, AppendRecords, TypeOK
  <2>6. /\ uncommitted' \in Nat
        /\ pending_records' \in Nat
        /\ pending_waiters' \in Nat
        /\ calls' \in 0..MaxCalls
    BY <1>2 DEF AppendNoWait, StartCall, AppendRecords, TypeOK
  <2> QED
    BY <2>1, <2>2, <2>3, <2>4, <2>5, <2>6 DEF TypeOK
<1>3. ASSUME NEW t \in Threads, NEW roll \in BOOLEAN, SharedAppend(t, roll)
      PROVE TypeOK'
  <2>1. pc' \in [Threads -> PCs]
    BY <1>3, <1>n, <1>m DEF SharedAppend, StartCall, AppendRecords,
       RegisterWaiter, TypeOK, PCs
  <2>2. /\ flush_gen' \in Nat
        /\ last_error' \in 0..flush_gen'
        /\ ticket' \in [Threads -> 0..flush_gen']
    BY <1>3 DEF SharedAppend, StartCall, AppendRecords, RegisterWaiter, TypeOK
  <2>3. /\ leo' \in Nat
        /\ durable' \in 0..leo'
        /\ target' \in [Threads -> 0..leo']
    BY <1>3 DEF SharedAppend, StartCall, AppendRecords, RegisterWaiter, TypeOK
  <2>4. /\ spent' \subseteq Threads
        /\ result' \in [Threads -> {"none", "ok", "err"}]
    BY <1>3 DEF SharedAppend, StartCall, AppendRecords, RegisterWaiter, TypeOK
  <2>5. /\ logLock' \in Threads \cup {NoThread}
        /\ has_leader' \in BOOLEAN
        /\ window' \in {"none", "open", "elapsed"}
    BY <1>3 DEF SharedAppend, StartCall, AppendRecords, RegisterWaiter, TypeOK
  <2>6. /\ uncommitted' \in Nat
        /\ pending_records' \in Nat
        /\ pending_waiters' \in Nat
        /\ calls' \in 0..MaxCalls
    BY <1>3 DEF SharedAppend, StartCall, AppendRecords, RegisterWaiter, TypeOK
  <2> QED
    BY <2>1, <2>2, <2>3, <2>4, <2>5, <2>6 DEF TypeOK
<1>4. ASSUME NEW t \in Threads, NEW roll \in BOOLEAN, ExclusiveAppend(t, roll)
      PROVE TypeOK'
  <2>1. pc' \in [Threads -> PCs]
    BY <1>4, <1>n, <1>m DEF ExclusiveAppend, StartCall, AppendRecords,
       RegisterWaiter, TypeOK, PCs
  <2>2. /\ flush_gen' \in Nat
        /\ last_error' \in 0..flush_gen'
        /\ ticket' \in [Threads -> 0..flush_gen']
    BY <1>4 DEF ExclusiveAppend, StartCall, AppendRecords, RegisterWaiter,
       TypeOK
  <2>3. /\ leo' \in Nat
        /\ durable' \in 0..leo'
        /\ target' \in [Threads -> 0..leo']
    BY <1>4 DEF ExclusiveAppend, StartCall, AppendRecords, RegisterWaiter,
       TypeOK
  <2>4. /\ spent' \subseteq Threads
        /\ result' \in [Threads -> {"none", "ok", "err"}]
    BY <1>4 DEF ExclusiveAppend, StartCall, AppendRecords, RegisterWaiter,
       TypeOK
  <2>5. /\ logLock' \in Threads \cup {NoThread}
        /\ has_leader' \in BOOLEAN
        /\ window' \in {"none", "open", "elapsed"}
    BY <1>4 DEF ExclusiveAppend, StartCall, AppendRecords, RegisterWaiter,
       TypeOK
  <2>6. /\ uncommitted' \in Nat
        /\ pending_records' \in Nat
        /\ pending_waiters' \in Nat
        /\ calls' \in 0..MaxCalls
    BY <1>4 DEF ExclusiveAppend, StartCall, AppendRecords, RegisterWaiter,
       TypeOK
  <2> QED
    BY <2>1, <2>2, <2>3, <2>4, <2>5, <2>6 DEF TypeOK
<1>5. ASSUME NEW t \in Threads, CallFlush(t) PROVE TypeOK'
  <2>1. pc' \in [Threads -> PCs]
    BY <1>5, <1>m DEF CallFlush, StartCall, logVars, coordVars, PCs
  <2> QED
    BY <1>5, <2>1 DEF CallFlush, StartCall, logVars, coordVars, TypeOK
<1>6. ASSUME NEW t \in Threads, FlushNothingDirty(t) PROVE TypeOK'
  <2>1. pc' \in [Threads -> PCs]
    BY <1>6, <1>m DEF FlushNothingDirty, logVars, coordVars, PCs
  <2> QED
    BY <1>6, <2>1 DEF FlushNothingDirty, logVars, coordVars, TypeOK
<1>7. ASSUME NEW t \in Threads, FlushRegister(t) PROVE TypeOK'
  <2>1. pc' \in [Threads -> PCs]
    BY <1>7, <1>m DEF FlushRegister, logVars, RegisterWaiter, PCs
  <2> QED
    BY <1>7, <2>1 DEF FlushRegister, logVars, RegisterWaiter, TypeOK
<1>8. ASSUME NEW t \in Threads, DirectFlush(t) PROVE TypeOK'
  <2>1. pc' \in [Threads -> PCs]
    BY <1>8, <1>n, <1>m DEF DirectFlush, StartCall, FlushSucceeds, TypeOK, PCs
  <2>2. /\ flush_gen' \in Nat
        /\ last_error' \in 0..flush_gen'
        /\ ticket' \in [Threads -> 0..flush_gen']
    BY <1>8 DEF DirectFlush, StartCall, FlushSucceeds, TypeOK
  <2>3. /\ leo' \in Nat
        /\ durable' \in 0..leo'
        /\ target' \in [Threads -> 0..leo']
    BY <1>8 DEF DirectFlush, StartCall, FlushSucceeds, TypeOK
  <2>4. /\ spent' \subseteq Threads
        /\ result' \in [Threads -> {"none", "ok", "err"}]
    BY <1>8 DEF DirectFlush, StartCall, FlushSucceeds, TypeOK
  <2>5. /\ logLock' \in Threads \cup {NoThread}
        /\ has_leader' \in BOOLEAN
        /\ window' \in {"none", "open", "elapsed"}
    BY <1>8 DEF DirectFlush, StartCall, FlushSucceeds, TypeOK
  <2>6. /\ uncommitted' \in Nat
        /\ pending_records' \in Nat
        /\ pending_waiters' \in Nat
        /\ calls' \in 0..MaxCalls
    BY <1>8 DEF DirectFlush, StartCall, FlushSucceeds, TypeOK
  <2> QED
    BY <2>1, <2>2, <2>3, <2>4, <2>5, <2>6 DEF TypeOK
<1>9. ASSUME NEW t \in Threads, ReturnDone(t) PROVE TypeOK'
  <2>1. pc' \in [Threads -> PCs]
    BY <1>9, <1>n, <1>m DEF ReturnDone, OneWaiterLess, Unlock, FlushResult,
       TypeOK, PCs
  <2>2. /\ flush_gen' \in Nat
        /\ last_error' \in 0..flush_gen'
        /\ ticket' \in [Threads -> 0..flush_gen']
    BY <1>9 DEF ReturnDone, OneWaiterLess, Unlock, FlushResult, TypeOK
  <2>3. /\ leo' \in Nat
        /\ durable' \in 0..leo'
        /\ target' \in [Threads -> 0..leo']
    BY <1>9 DEF ReturnDone, OneWaiterLess, Unlock, FlushResult, TypeOK
  <2>4. /\ spent' \subseteq Threads
        /\ result' \in [Threads -> {"none", "ok", "err"}]
    BY <1>9 DEF ReturnDone, OneWaiterLess, Unlock, FlushResult, TypeOK
  <2>5. /\ logLock' \in Threads \cup {NoThread}
        /\ has_leader' \in BOOLEAN
        /\ window' \in {"none", "open", "elapsed"}
    BY <1>9 DEF ReturnDone, OneWaiterLess, Unlock, FlushResult, TypeOK
  <2>6. /\ uncommitted' \in Nat
        /\ pending_records' \in Nat
        /\ pending_waiters' \in Nat
        /\ calls' \in 0..MaxCalls
    BY <1>9 DEF ReturnDone, OneWaiterLess, Unlock, FlushResult, TypeOK
  <2> QED
    BY <2>1, <2>2, <2>3, <2>4, <2>5, <2>6 DEF TypeOK
<1>10. ASSUME NEW t \in Threads, Block(t) PROVE TypeOK'
  <2>1. pc' \in [Threads -> PCs]
    BY <1>10, <1>m DEF Block, logVars, coordVars, PCs
  <2> QED
    BY <1>10, <2>1 DEF Block, logVars, coordVars, TypeOK
<1>11. ASSUME NEW t \in Threads, BecomeLeader(t) PROVE TypeOK'
  <2>1. pc' \in [Threads -> PCs]
    BY <1>11, <1>m DEF BecomeLeader, logVars, PCs
  <2> QED
    BY <1>11, <2>1 DEF BecomeLeader, logVars, TypeOK
<1>12. ASSUME NEW t \in Threads, LeaderRecheck(t) PROVE TypeOK'
  <2>1. pc' \in [Threads -> PCs]
    BY <1>12, <1>m DEF LeaderRecheck, logVars, coordVars, PCs
  <2> QED
    BY <1>12, <2>1 DEF LeaderRecheck, logVars, coordVars, TypeOK
<1>13. ASSUME NEW t \in Threads, LeaderAlreadyDone(t) PROVE TypeOK'
  <2>1. pc' \in [Threads -> PCs]
    BY <1>13, <1>n, <1>m DEF LeaderAlreadyDone, OneWaiterLess, Unlock,
       FlushResult, TypeOK, PCs
  <2>2. /\ flush_gen' \in Nat
        /\ last_error' \in 0..flush_gen'
        /\ ticket' \in [Threads -> 0..flush_gen']
    BY <1>13 DEF LeaderAlreadyDone, OneWaiterLess, Unlock, FlushResult, TypeOK
  <2>3. /\ leo' \in Nat
        /\ durable' \in 0..leo'
        /\ target' \in [Threads -> 0..leo']
    BY <1>13 DEF LeaderAlreadyDone, OneWaiterLess, Unlock, FlushResult, TypeOK
  <2>4. /\ spent' \subseteq Threads
        /\ result' \in [Threads -> {"none", "ok", "err"}]
    BY <1>13 DEF LeaderAlreadyDone, OneWaiterLess, Unlock, FlushResult, TypeOK
  <2>5. /\ logLock' \in Threads \cup {NoThread}
        /\ has_leader' \in BOOLEAN
        /\ window' \in {"none", "open", "elapsed"}
    BY <1>13 DEF LeaderAlreadyDone, OneWaiterLess, Unlock, FlushResult, TypeOK
  <2>6. /\ uncommitted' \in Nat
        /\ pending_records' \in Nat
        /\ pending_waiters' \in Nat
        /\ calls' \in 0..MaxCalls
    BY <1>13 DEF LeaderAlreadyDone, OneWaiterLess, Unlock, FlushResult, TypeOK
  <2> QED
    BY <2>1, <2>2, <2>3, <2>4, <2>5, <2>6 DEF TypeOK
<1>14. ASSUME NEW t \in Threads, LeaderFlush(t) PROVE TypeOK'
  <2>1. pc' \in [Threads -> PCs]
    BY <1>14, <1>n, <1>m DEF LeaderFlush, FlushSucceeds, TypeOK, PCs
  <2>2. /\ flush_gen' \in Nat
        /\ last_error' \in 0..flush_gen'
        /\ ticket' \in [Threads -> 0..flush_gen']
    BY <1>14 DEF LeaderFlush, FlushSucceeds, TypeOK
  <2>3. /\ leo' \in Nat
        /\ durable' \in 0..leo'
        /\ target' \in [Threads -> 0..leo']
    BY <1>14 DEF LeaderFlush, FlushSucceeds, TypeOK
  <2>4. /\ spent' \subseteq Threads
        /\ result' \in [Threads -> {"none", "ok", "err"}]
    BY <1>14 DEF LeaderFlush, FlushSucceeds, TypeOK
  <2>5. /\ logLock' \in Threads \cup {NoThread}
        /\ has_leader' \in BOOLEAN
        /\ window' \in {"none", "open", "elapsed"}
    BY <1>14 DEF LeaderFlush, FlushSucceeds, TypeOK
  <2>6. /\ uncommitted' \in Nat
        /\ pending_records' \in Nat
        /\ pending_waiters' \in Nat
        /\ calls' \in 0..MaxCalls
    BY <1>14 DEF LeaderFlush, FlushSucceeds, TypeOK
  <2> QED
    BY <2>1, <2>2, <2>3, <2>4, <2>5, <2>6 DEF TypeOK
<1>15. ASSUME NEW t \in Threads, LeaderFlushFails(t) PROVE TypeOK'
  <2>1. pc' \in [Threads -> PCs]
    BY <1>15, <1>m DEF LeaderFlushFails, logVars, coordVars, PCs
  <2> QED
    BY <1>15, <2>1 DEF LeaderFlushFails, logVars, coordVars, TypeOK
<1>16. ASSUME NEW t \in Threads, StepDown(t) PROVE TypeOK'
  <2>1. pc' \in [Threads -> PCs]
    <3>1. CASE AlreadyDone(t)
      <4>1. pc' = NotifyAll([pc EXCEPT ![t] = "idle"])
        BY <1>16, <3>1 DEF StepDown
      <4>2. "idle" \in PCs
        BY DEF PCs
      <4> QED
        BY <4>1, <4>2, <1>m
    <3>2. CASE ~AlreadyDone(t)
      <4>1. NotifyAll(pc) \in [Threads -> PCs]
        BY <1>n DEF TypeOK
      <4> QED
        BY <1>16, <3>2, <4>1 DEF StepDown, PCs
    <3> QED
      BY <3>1, <3>2
  <2>2. /\ flush_gen' \in Nat
        /\ last_error' \in 0..flush_gen'
        /\ ticket' \in [Threads -> 0..flush_gen']
    BY <1>16 DEF StepDown, OneWaiterLess, Unlock, FlushResult, TypeOK
  <2>3. /\ leo' \in Nat
        /\ durable' \in 0..leo'
        /\ target' \in [Threads -> 0..leo']
    BY <1>16 DEF StepDown, OneWaiterLess, Unlock, FlushResult, TypeOK
  <2>4. /\ spent' \subseteq Threads
        /\ result' \in [Threads -> {"none", "ok", "err"}]
    BY <1>16 DEF StepDown, OneWaiterLess, Unlock, FlushResult, TypeOK
  <2>5. /\ logLock' \in Threads \cup {NoThread}
        /\ has_leader' \in BOOLEAN
        /\ window' \in {"none", "open", "elapsed"}
    BY <1>16 DEF StepDown, OneWaiterLess, Unlock, FlushResult, TypeOK
  <2>6. /\ uncommitted' \in Nat
        /\ pending_records' \in Nat
        /\ pending_waiters' \in Nat
        /\ calls' \in 0..MaxCalls
    BY <1>16 DEF StepDown, OneWaiterLess, Unlock, FlushResult, TypeOK
  <2> QED
    BY <2>1, <2>2, <2>3, <2>4, <2>5, <2>6 DEF TypeOK
<1>17. ASSUME NEW t \in Threads, StepDownFailed(t) PROVE TypeOK'
  <2>1. pc' \in [Threads -> PCs]
    BY <1>17, <1>n, <1>m DEF StepDownFailed, OneWaiterLess, Unlock, TypeOK, PCs
  <2>2. /\ flush_gen' \in Nat
        /\ last_error' \in 0..flush_gen'
        /\ ticket' \in [Threads -> 0..flush_gen']
    BY <1>17 DEF StepDownFailed, OneWaiterLess, Unlock, TypeOK
  <2>3. /\ leo' \in Nat
        /\ durable' \in 0..leo'
        /\ target' \in [Threads -> 0..leo']
    BY <1>17 DEF StepDownFailed, OneWaiterLess, Unlock, TypeOK
  <2>4. /\ spent' \subseteq Threads
        /\ result' \in [Threads -> {"none", "ok", "err"}]
    BY <1>17 DEF StepDownFailed, OneWaiterLess, Unlock, TypeOK
  <2>5. /\ logLock' \in Threads \cup {NoThread}
        /\ has_leader' \in BOOLEAN
        /\ window' \in {"none", "open", "elapsed"}
    BY <1>17 DEF StepDownFailed, OneWaiterLess, Unlock, TypeOK
  <2>6. /\ uncommitted' \in Nat
        /\ pending_records' \in Nat
        /\ pending_waiters' \in Nat
        /\ calls' \in 0..MaxCalls
    BY <1>17 DEF StepDownFailed, OneWaiterLess, Unlock, TypeOK
  <2> QED
    BY <2>1, <2>2, <2>3, <2>4, <2>5, <2>6 DEF TypeOK
<1>18. ASSUME NEW t \in Threads, AppendFailsMidBatch(t) PROVE TypeOK'
  <2>1. pc' \in [Threads -> PCs]
    BY <1>18, <1>n, <1>m DEF AppendFailsMidBatch, coordVars, TypeOK, PCs
  <2>2. /\ flush_gen' \in Nat
        /\ last_error' \in 0..flush_gen'
        /\ ticket' \in [Threads -> 0..flush_gen']
    BY <1>18 DEF AppendFailsMidBatch, coordVars, TypeOK
  <2>3. /\ leo' \in Nat
        /\ durable' \in 0..leo'
        /\ target' \in [Threads -> 0..leo']
    BY <1>18 DEF AppendFailsMidBatch, coordVars, TypeOK
  <2>4. /\ spent' \subseteq Threads
        /\ result' \in [Threads -> {"none", "ok", "err"}]
    BY <1>18 DEF AppendFailsMidBatch, coordVars, TypeOK
  <2>5. /\ logLock' \in Threads \cup {NoThread}
        /\ has_leader' \in BOOLEAN
        /\ window' \in {"none", "open", "elapsed"}
    BY <1>18 DEF AppendFailsMidBatch, coordVars, TypeOK
  <2>6. /\ uncommitted' \in Nat
        /\ pending_records' \in Nat
        /\ pending_waiters' \in Nat
        /\ calls' \in 0..MaxCalls
    BY <1>18 DEF AppendFailsMidBatch, coordVars, TypeOK
  <2> QED
    BY <2>1, <2>2, <2>3, <2>4, <2>5, <2>6 DEF TypeOK
<1>19. CASE WindowElapses
  BY <1>19 DEF WindowElapses, logVars, callVars, TypeOK
<1>20. CASE UNCHANGED vars
  BY <1>20 DEF vars, TypeOK
<1> QED
  BY <1>1, <1>2, <1>3, <1>4, <1>5, <1>6, <1>7, <1>8, <1>9, <1>10,
     <1>11, <1>12, <1>13, <1>14, <1>15, <1>16, <1>17, <1>18, <1>19,
     <1>20
     DEF Next, WaitOrLead, Finished

-----------------------------------------------------------------------------
\* Two program counters play the same part in the protocol; a is parked only
\* if b is.
SameRole(a, b) ==
    /\ a = "blocked" => b = "blocked"
    /\ a = "idle" <=> b = "idle"
    /\ a = "flushed" <=> b = "flushed"
    /\ a = "failed" <=> b = "failed"
    /\ a \in {"lead", "leadwait", "flushing", "flushed", "failed"}
         <=> b \in {"lead", "leadwait", "flushing", "flushed", "failed"}
    /\ a \in {"enter", "blocked"} <=> b \in {"enter", "blocked"}

\* Thread t moves to v; the others keep their parts, some of them woken.
Moves(t, v) ==
    \A u \in Threads : IF u = t THEN SameRole(pc'[u], v)
                                ELSE SameRole(pc'[u], pc[u])

\* Nobody is parked after the step.
WakesAll == \A u \in Threads : pc'[u] # "blocked"

\* Waking threads changes nobody's part and leaves nobody parked.
LEMMA NotifyAllKeepsRoles ==
    ASSUME NEW p \in [Threads -> PCs], NEW u \in Threads
    PROVE  SameRole(NotifyAll(p)[u], p[u]) /\ NotifyAll(p)[u] # "blocked"
BY DEF NotifyAll, SameRole, PCs

\* A step of t that moves it to v, without and with a notify_all.
LEMMA MovePlain ==
    ASSUME TypeOK, NEW t \in Threads, NEW v \in PCs,
           pc' = [pc EXCEPT ![t] = v]
    PROVE  Moves(t, v)
BY DEF TypeOK, Moves, SameRole

LEMMA MoveNotify ==
    ASSUME TypeOK, NEW t \in Threads, NEW v \in PCs,
           pc' = NotifyAll([pc EXCEPT ![t] = v])
    PROVE  Moves(t, v) /\ WakesAll
<1>1. [pc EXCEPT ![t] = v] \in [Threads -> PCs]
  BY DEF TypeOK
<1>2. \A u \in Threads : [pc EXCEPT ![t] = v][u] = IF u = t THEN v ELSE pc[u]
  BY DEF TypeOK
<1>3. \A u \in Threads : /\ SameRole(pc'[u], [pc EXCEPT ![t] = v][u])
                         /\ pc'[u] # "blocked"
  BY <1>1, NotifyAllKeepsRoles
<1> QED
  BY <1>2, <1>3 DEF Moves, WakesAll

\* The same when nobody moves.
LEMMA NotifyOnly ==
    ASSUME TypeOK, pc' = NotifyAll(pc)
    PROVE  WakesAll /\ \A u \in Threads : SameRole(pc'[u], pc[u])
BY NotifyAllKeepsRoles DEF TypeOK, WakesAll

\* Every step keeps the rest of the invariant, action by action.
LEMMA InvStep ==
    TypeOK /\ ControlInv /\ [Next]_vars
        => /\ ControlInv'
           /\ DataInv /\ ~MidBatchErrors => DataInv'
<1> SUFFICES ASSUME TypeOK, ControlInv, [Next]_vars
             PROVE  ControlInv' /\ (DataInv /\ ~MidBatchErrors => DataInv')
  OBVIOUS
<1> USE DEF ControlInv, DataInv, OneLeader, ParkedHasWaker,
            SpentHasFlushed, Leading, Registered, AlreadyDone, Moves, WakesAll
<1>t. TypeOK /\ TypeOK'
  BY TypeStep
<1>p. \A v \in {"idle", "appended", "enter", "blocked", "lead", "leadwait",
                "flushing", "flushed", "failed"} : v \in PCs
  BY DEF PCs
<1>1. ASSUME NEW t \in Threads, NEW roll \in BOOLEAN, Produce(t, roll)
      PROVE  ControlInv' /\ (DataInv /\ ~MidBatchErrors => DataInv')
  <2>1. Moves(t, "appended")
    <3>1. \/ pc' = [pc EXCEPT ![t] = "appended"]
          \/ pc' = NotifyAll([pc EXCEPT ![t] = "appended"])
      BY <1>1 DEF Produce, AppendRecords
    <3> QED
      BY <3>1, <1>p, <1>t, MovePlain, MoveNotify
  <2>4. SpentHasFlushed'
    BY <1>1, <2>1, <1>t DEF Produce, StartCall, AppendRecords, SameRole, TypeOK
  <2>2. OneLeader'
    BY <1>1, <2>1, <1>t DEF Produce, StartCall, AppendRecords, SameRole, TypeOK
  <2>3. ParkedHasWaker'
    BY <1>1, <2>1, <1>t DEF Produce, StartCall, AppendRecords, SameRole, TypeOK
  <2>5. ASSUME DataInv PROVE DirtyIsCounted'
    BY <1>1, <2>5, <1>t DEF Produce, StartCall, AppendRecords, DirtyIsCounted,
       TypeOK
  <2>6. ASSUME DataInv PROVE OkMeansDurable'
    BY <1>1, <2>6, <1>t DEF Produce, StartCall, AppendRecords, OkMeansDurable,
       DoneMeansDurable, FlushResult, DirtyIsCounted, TypeOK
  <2>7. ASSUME DataInv PROVE DoneMeansDurable'
    <3>1. /\ flush_gen' = flush_gen
          /\ last_error' = last_error
          /\ durable <= durable'
          /\ ticket'[t] = ticket[t]
      BY <1>1, <1>t DEF Produce, StartCall, AppendRecords, TypeOK
    <3>2. \A u \in Threads \ {t} : /\ ticket'[u] = ticket[u]
                                   /\ target'[u] = target[u]
      BY <1>1, <1>t DEF Produce, StartCall, AppendRecords, TypeOK
    <3>3. ~(Registered(t)' /\ AlreadyDone(t)')
      BY <3>1, <2>1, <1>t DEF SameRole, TypeOK
    <3>4. ASSUME NEW u \in Threads \ {t}, Registered(u)', AlreadyDone(u)',
                 FlushResult(u)' = "ok"
          PROVE  target'[u] <= durable'
      <4>1. Registered(u) /\ AlreadyDone(u) /\ FlushResult(u) = "ok"
        BY <3>4, <3>1, <3>2, <2>1 DEF SameRole, FlushResult
      <4>2. target[u] <= durable
        BY <4>1, <2>7 DEF DoneMeansDurable
      <4> QED
        BY <4>2, <3>1, <3>2, <1>t DEF TypeOK
    <3> QED
      BY <3>3, <3>4 DEF DoneMeansDurable
  <2> QED
    BY <2>2, <2>3, <2>4, <2>5, <2>6, <2>7
<1>2. ASSUME NEW t \in Threads, NEW roll \in BOOLEAN, AppendNoWait(t, roll)
      PROVE  ControlInv' /\ (DataInv /\ ~MidBatchErrors => DataInv')
  <2>1. \A u \in Threads : SameRole(pc'[u], pc[u])
    <3>1. pc' = pc \/ pc' = NotifyAll(pc)
      BY <1>2 DEF AppendNoWait, AppendRecords
    <3> QED
      BY <3>1, <1>t, NotifyOnly DEF SameRole
  <2>4. SpentHasFlushed'
    BY <1>2, <2>1, <1>t DEF AppendNoWait, StartCall, AppendRecords, SameRole,
       TypeOK
  <2>2. OneLeader'
    BY <1>2, <2>1, <1>t DEF AppendNoWait, StartCall, AppendRecords, SameRole,
       TypeOK
  <2>3. ParkedHasWaker'
    BY <1>2, <2>1, <1>t DEF AppendNoWait, StartCall, AppendRecords, SameRole,
       TypeOK
  <2>5. ASSUME DataInv PROVE DirtyIsCounted'
    BY <1>2, <2>5, <1>t DEF AppendNoWait, StartCall, AppendRecords,
       DirtyIsCounted, TypeOK
  <2>6. ASSUME DataInv PROVE OkMeansDurable'
    BY <1>2, <2>6, <1>t DEF AppendNoWait, StartCall, AppendRecords,
       OkMeansDurable, DoneMeansDurable, FlushResult, DirtyIsCounted, TypeOK
  <2>7. ASSUME DataInv PROVE DoneMeansDurable'
    BY <1>2, <2>7, <2>1, <1>t DEF AppendNoWait, StartCall, AppendRecords,
       OkMeansDurable, DoneMeansDurable, FlushResult, SameRole, TypeOK
  <2> QED
    BY <2>2, <2>3, <2>4, <2>5, <2>6, <2>7
<1>3. ASSUME NEW t \in Threads, NEW roll \in BOOLEAN, SharedAppend(t, roll)
      PROVE  ControlInv' /\ (DataInv /\ ~MidBatchErrors => DataInv')
  <2>1. Moves(t, "enter")
    <3>1. \/ pc' = [pc EXCEPT ![t] = "enter"]
          \/ pc' = NotifyAll([pc EXCEPT ![t] = "enter"])
      BY <1>3 DEF SharedAppend, AppendRecords
    <3> QED
      BY <3>1, <1>p, <1>t, MovePlain, MoveNotify
  <2>4. SpentHasFlushed'
    <3>1. /\ spent' = spent \ {t}
          /\ flush_gen' = flush_gen
          /\ \A u \in Threads \ {t} : ticket'[u] = ticket[u]
      BY <1>3, <1>t DEF SharedAppend, StartCall, AppendRecords, RegisterWaiter,
         TypeOK
    <3> QED
      BY <3>1, <2>1 DEF SameRole
  <2>2. OneLeader'
    BY <1>3, <2>1, <1>t DEF SharedAppend, StartCall, AppendRecords,
       RegisterWaiter, SameRole, TypeOK
  <2>3. ParkedHasWaker'
    BY <1>3, <2>1, <1>t DEF SharedAppend, StartCall, AppendRecords,
       RegisterWaiter, SameRole, TypeOK
  <2>5. ASSUME DataInv PROVE DirtyIsCounted'
    BY <1>3, <2>5, <1>t DEF SharedAppend, StartCall, AppendRecords,
       RegisterWaiter, DirtyIsCounted, TypeOK
  <2>6. ASSUME DataInv PROVE OkMeansDurable'
    BY <1>3, <2>6, <1>t DEF SharedAppend, StartCall, AppendRecords,
       RegisterWaiter, OkMeansDurable, DoneMeansDurable, FlushResult,
       DirtyIsCounted, TypeOK
  <2>7. ASSUME DataInv PROVE DoneMeansDurable'
    <3>1. /\ flush_gen' = flush_gen
          /\ last_error' = last_error
          /\ durable <= durable'
          /\ ticket'[t] = flush_gen
      BY <1>3, <1>t DEF SharedAppend, StartCall, AppendRecords, RegisterWaiter,
         TypeOK
    <3>2. \A u \in Threads \ {t} : /\ ticket'[u] = ticket[u]
                                   /\ target'[u] = target[u]
      BY <1>3, <1>t DEF SharedAppend, StartCall, AppendRecords, RegisterWaiter,
         TypeOK
    <3>3. ~(Registered(t)' /\ AlreadyDone(t)')
      BY <3>1, <2>1, <1>t DEF SameRole, TypeOK
    <3>4. ASSUME NEW u \in Threads \ {t}, Registered(u)', AlreadyDone(u)',
                 FlushResult(u)' = "ok"
          PROVE  target'[u] <= durable'
      <4>1. Registered(u) /\ AlreadyDone(u) /\ FlushResult(u) = "ok"
        BY <3>4, <3>1, <3>2, <2>1 DEF SameRole, FlushResult
      <4>2. target[u] <= durable
        BY <4>1, <2>7 DEF DoneMeansDurable
      <4> QED
        BY <4>2, <3>1, <3>2, <1>t DEF TypeOK
    <3> QED
      BY <3>3, <3>4 DEF DoneMeansDurable
  <2> QED
    BY <2>2, <2>3, <2>4, <2>5, <2>6, <2>7
<1>4. ASSUME NEW t \in Threads, NEW roll \in BOOLEAN, ExclusiveAppend(t, roll)
      PROVE  ControlInv' /\ (DataInv /\ ~MidBatchErrors => DataInv')
  <2>1. Moves(t, "enter")
    <3>1. \/ pc' = [pc EXCEPT ![t] = "enter"]
          \/ pc' = NotifyAll([pc EXCEPT ![t] = "enter"])
      BY <1>4 DEF ExclusiveAppend, AppendRecords
    <3> QED
      BY <3>1, <1>p, <1>t, MovePlain, MoveNotify
  <2>4. SpentHasFlushed'
    <3>1. /\ spent' = spent \ {t}
          /\ flush_gen' = flush_gen
          /\ \A u \in Threads \ {t} : ticket'[u] = ticket[u]
      BY <1>4, <1>t DEF ExclusiveAppend, StartCall, AppendRecords,
         RegisterWaiter, TypeOK
    <3> QED
      BY <3>1, <2>1 DEF SameRole
  <2>2. OneLeader'
    BY <1>4, <2>1, <1>t DEF ExclusiveAppend, StartCall, AppendRecords,
       RegisterWaiter, SameRole, TypeOK
  <2>3. ParkedHasWaker'
    BY <1>4, <2>1, <1>t DEF ExclusiveAppend, StartCall, AppendRecords,
       RegisterWaiter, SameRole, TypeOK
  <2>5. ASSUME DataInv PROVE DirtyIsCounted'
    BY <1>4, <2>5, <1>t DEF ExclusiveAppend, StartCall, AppendRecords,
       RegisterWaiter, DirtyIsCounted, TypeOK
  <2>6. ASSUME DataInv PROVE OkMeansDurable'
    BY <1>4, <2>6, <1>t DEF ExclusiveAppend, StartCall, AppendRecords,
       RegisterWaiter, OkMeansDurable, DoneMeansDurable, FlushResult,
       DirtyIsCounted, TypeOK
  <2>7. ASSUME DataInv PROVE DoneMeansDurable'
    <3>1. /\ flush_gen' = flush_gen
          /\ last_error' = last_error
          /\ durable <= durable'
          /\ ticket'[t] = flush_gen
      BY <1>4, <1>t DEF ExclusiveAppend, StartCall, AppendRecords,
         RegisterWaiter, TypeOK
    <3>2. \A u \in Threads \ {t} : /\ ticket'[u] = ticket[u]
                                   /\ target'[u] = target[u]
      BY <1>4, <1>t DEF ExclusiveAppend, StartCall, AppendRecords,
         RegisterWaiter, TypeOK
    <3>3. ~(Registered(t)' /\ AlreadyDone(t)')
      BY <3>1, <2>1, <1>t DEF SameRole, TypeOK
    <3>4. ASSUME NEW u \in Threads \ {t}, Registered(u)', AlreadyDone(u)',
                 FlushResult(u)' = "ok"
          PROVE  target'[u] <= durable'
      <4>1. Registered(u) /\ AlreadyDone(u) /\ FlushResult(u) = "ok"
        BY <3>4, <3>1, <3>2, <2>1 DEF SameRole, FlushResult
      <4>2. target[u] <= durable
        BY <4>1, <2>7 DEF DoneMeansDurable
      <4> QED
        BY <4>2, <3>1, <3>2, <1>t DEF TypeOK
    <3> QED
      BY <3>3, <3>4 DEF DoneMeansDurable
  <2> QED
    BY <2>2, <2>3, <2>4, <2>5, <2>6, <2>7
<1>5. ASSUME NEW t \in Threads, CallFlush(t)
      PROVE  ControlInv' /\ (DataInv /\ ~MidBatchErrors => DataInv')
  <2>1. Moves(t, "appended")
    BY <1>5, <1>p, <1>t, MovePlain DEF CallFlush
  <2>4. SpentHasFlushed'
    BY <1>5, <2>1, <1>t DEF CallFlush, StartCall, logVars, coordVars, SameRole,
       TypeOK
  <2>2. OneLeader'
    BY <1>5, <2>1, <1>t DEF CallFlush, StartCall, logVars, coordVars, SameRole,
       TypeOK
  <2>3. ParkedHasWaker'
    BY <1>5, <2>1, <1>t DEF CallFlush, StartCall, logVars, coordVars, SameRole,
       TypeOK
  <2>5. ASSUME DataInv PROVE DirtyIsCounted'
    BY <1>5, <2>5, <1>t DEF CallFlush, StartCall, logVars, coordVars,
       DirtyIsCounted, TypeOK
  <2>6. ASSUME DataInv PROVE OkMeansDurable'
    BY <1>5, <2>6, <1>t DEF CallFlush, StartCall, logVars, coordVars,
       OkMeansDurable, DoneMeansDurable, FlushResult, DirtyIsCounted, TypeOK
  <2>7. ASSUME DataInv PROVE DoneMeansDurable'
    BY <1>5, <2>7, <2>1, <1>t DEF CallFlush, StartCall, logVars, coordVars,
       OkMeansDurable, DoneMeansDurable, FlushResult, SameRole, TypeOK
  <2> QED
    BY <2>2, <2>3, <2>4, <2>5, <2>6, <2>7
<1>6. ASSUME NEW t \in Threads, FlushNothingDirty(t)
      PROVE  ControlInv' /\ (DataInv /\ ~MidBatchErrors => DataInv')
  <2>1. Moves(t, "idle")
    BY <1>6, <1>p, <1>t, MovePlain DEF FlushNothingDirty
  <2>4. SpentHasFlushed'
    BY <1>6, <2>1, <1>t DEF FlushNothingDirty, logVars, coordVars, SameRole,
       TypeOK
  <2>2. OneLeader'
    BY <1>6, <2>1, <1>t DEF FlushNothingDirty, logVars, coordVars, SameRole,
       TypeOK
  <2>3. ParkedHasWaker'
    BY <1>6, <2>1, <1>t DEF FlushNothingDirty, logVars, coordVars, SameRole,
       TypeOK
  <2>5. ASSUME DataInv PROVE DirtyIsCounted'
    BY <1>6, <2>5, <1>t DEF FlushNothingDirty, logVars, coordVars,
       DirtyIsCounted, TypeOK
  <2>6. ASSUME DataInv PROVE OkMeansDurable'
    BY <1>6, <2>6, <1>t DEF FlushNothingDirty, logVars, coordVars,
       OkMeansDurable, DoneMeansDurable, FlushResult, DirtyIsCounted, TypeOK
  <2>7. ASSUME DataInv PROVE DoneMeansDurable'
    BY <1>6, <2>7, <2>1, <1>t DEF FlushNothingDirty, logVars, coordVars,
       OkMeansDurable, DoneMeansDurable, FlushResult, SameRole, TypeOK
  <2> QED
    BY <2>2, <2>3, <2>4, <2>5, <2>6, <2>7
<1>7. ASSUME NEW t \in Threads, FlushRegister(t)
      PROVE  ControlInv' /\ (DataInv /\ ~MidBatchErrors => DataInv')
  <2>1. Moves(t, "enter")
    BY <1>7, <1>p, <1>t, MovePlain DEF FlushRegister
  <2>4. SpentHasFlushed'
    BY <1>7, <2>1, <1>t DEF FlushRegister, logVars, RegisterWaiter, SameRole,
       TypeOK
  <2>2. OneLeader'
    BY <1>7, <2>1, <1>t DEF FlushRegister, logVars, RegisterWaiter, SameRole,
       TypeOK
  <2>3. ParkedHasWaker'
    BY <1>7, <2>1, <1>t DEF FlushRegister, logVars, RegisterWaiter, SameRole,
       TypeOK
  <2>5. ASSUME DataInv PROVE DirtyIsCounted'
    BY <1>7, <2>5, <1>t DEF FlushRegister, logVars, RegisterWaiter,
       DirtyIsCounted, TypeOK
  <2>6. ASSUME DataInv PROVE OkMeansDurable'
    BY <1>7, <2>6, <1>t DEF FlushRegister, logVars, RegisterWaiter,
       OkMeansDurable, DoneMeansDurable, FlushResult, DirtyIsCounted, TypeOK
  <2>7. ASSUME DataInv PROVE DoneMeansDurable'
    BY <1>7, <2>7, <2>1, <1>t DEF FlushRegister, logVars, RegisterWaiter,
       OkMeansDurable, DoneMeansDurable, FlushResult, SameRole, TypeOK
  <2> QED
    BY <2>2, <2>3, <2>4, <2>5, <2>6, <2>7
<1>8. ASSUME NEW t \in Threads, DirectFlush(t)
      PROVE  ControlInv' /\ (DataInv /\ ~MidBatchErrors => DataInv')
  <2>1. WakesAll /\ \A u \in Threads : SameRole(pc'[u], pc[u])
    BY <1>8, <1>t, NotifyOnly DEF DirectFlush, FlushSucceeds
  <2>4. SpentHasFlushed'
    BY <1>8, <2>1, <1>t DEF DirectFlush, StartCall, FlushSucceeds, SameRole,
       TypeOK
  <2>2. OneLeader'
    BY <1>8, <2>1, <1>t DEF DirectFlush, StartCall, FlushSucceeds, SameRole,
       TypeOK
  <2>3. ParkedHasWaker'
    BY <1>8, <2>1, <1>t DEF DirectFlush, StartCall, FlushSucceeds, SameRole,
       TypeOK
  <2>5. ASSUME DataInv PROVE DirtyIsCounted'
    BY <1>8, <2>5, <1>t DEF DirectFlush, StartCall, FlushSucceeds,
       DirtyIsCounted, TypeOK
  <2>6. ASSUME DataInv PROVE OkMeansDurable'
    BY <1>8, <2>6, <1>t DEF DirectFlush, StartCall, FlushSucceeds,
       OkMeansDurable, DoneMeansDurable, FlushResult, DirtyIsCounted, TypeOK
  <2>7. ASSUME DataInv PROVE DoneMeansDurable'
    BY <1>8, <2>7, <2>1, <1>t DEF DirectFlush, StartCall, FlushSucceeds,
       OkMeansDurable, DoneMeansDurable, FlushResult, SameRole, TypeOK
  <2> QED
    BY <2>2, <2>3, <2>4, <2>5, <2>6, <2>7
<1>9. ASSUME NEW t \in Threads, ReturnDone(t)
      PROVE  ControlInv' /\ (DataInv /\ ~MidBatchErrors => DataInv')
  <2>1. Moves(t, "idle")
    BY <1>9, <1>p, <1>t, MovePlain DEF ReturnDone
  <2>4. SpentHasFlushed'
    BY <1>9, <2>1, <1>t DEF ReturnDone, OneWaiterLess, Unlock, FlushResult,
       SameRole, TypeOK
  <2>2. OneLeader'
    BY <1>9, <2>1, <1>t DEF ReturnDone, OneWaiterLess, Unlock, FlushResult,
       SameRole, TypeOK
  <2>3. ParkedHasWaker'
    BY <1>9, <2>1, <1>t DEF ReturnDone, OneWaiterLess, Unlock, FlushResult,
       SameRole, TypeOK
  <2>5. ASSUME DataInv PROVE DirtyIsCounted'
    BY <1>9, <2>5, <1>t DEF ReturnDone, OneWaiterLess, Unlock, FlushResult,
       DirtyIsCounted, TypeOK
  <2>6. ASSUME DataInv PROVE OkMeansDurable'
    BY <1>9, <2>6, <1>t DEF ReturnDone, OneWaiterLess, Unlock, FlushResult,
       OkMeansDurable, DoneMeansDurable, FlushResult, DirtyIsCounted, TypeOK
  <2>7. ASSUME DataInv PROVE DoneMeansDurable'
    BY <1>9, <2>7, <2>1, <1>t DEF ReturnDone, OneWaiterLess, Unlock,
       FlushResult, OkMeansDurable, DoneMeansDurable, FlushResult, SameRole,
       TypeOK
  <2> QED
    BY <2>2, <2>3, <2>4, <2>5, <2>6, <2>7
<1>10. ASSUME NEW t \in Threads, Block(t)
      PROVE  ControlInv' /\ (DataInv /\ ~MidBatchErrors => DataInv')
  <2>1. Moves(t, "blocked")
    BY <1>10, <1>p, <1>t, MovePlain DEF Block
  <2>4. SpentHasFlushed'
    BY <1>10, <2>1, <1>t DEF Block, logVars, coordVars, SameRole, TypeOK
  <2>2. OneLeader'
    BY <1>10, <2>1, <1>t DEF Block, logVars, coordVars, SameRole, TypeOK
  <2>3. ParkedHasWaker'
    BY <1>10, <2>1, <1>t DEF Block, logVars, coordVars, SameRole, TypeOK
  <2>5. ASSUME DataInv PROVE DirtyIsCounted'
    BY <1>10, <2>5, <1>t DEF Block, logVars, coordVars, DirtyIsCounted, TypeOK
  <2>6. ASSUME DataInv PROVE OkMeansDurable'
    BY <1>10, <2>6, <1>t DEF Block, logVars, coordVars, OkMeansDurable,
       DoneMeansDurable, FlushResult, DirtyIsCounted, TypeOK
  <2>7. ASSUME DataInv PROVE DoneMeansDurable'
    BY <1>10, <2>7, <2>1, <1>t DEF Block, logVars, coordVars, OkMeansDurable,
       DoneMeansDurable, FlushResult, SameRole, TypeOK
  <2> QED
    BY <2>2, <2>3, <2>4, <2>5, <2>6, <2>7
<1>11. ASSUME NEW t \in Threads, BecomeLeader(t)
      PROVE  ControlInv' /\ (DataInv /\ ~MidBatchErrors => DataInv')
  <2>1. Moves(t, "flushing")
    <3>1. \/ pc' = [pc EXCEPT ![t] = "flushing"]
          \/ pc' = [pc EXCEPT ![t] = "leadwait"]
      BY <1>11 DEF BecomeLeader
    <3>2. Moves(t, "flushing") \/ Moves(t, "leadwait")
      BY <3>1, <1>p, <1>t, MovePlain
    <3> QED
      BY <3>2 DEF SameRole
  <2>4. SpentHasFlushed'
    BY <1>11, <2>1, <1>t DEF BecomeLeader, logVars, SameRole, TypeOK
  <2>2. OneLeader'
    BY <1>11, <2>1, <1>t DEF BecomeLeader, logVars, SameRole, TypeOK
  <2>3. ParkedHasWaker'
    BY <1>11, <2>1, <1>t DEF BecomeLeader, logVars, SameRole, TypeOK
  <2>5. ASSUME DataInv PROVE DirtyIsCounted'
    BY <1>11, <2>5, <1>t DEF BecomeLeader, logVars, DirtyIsCounted, TypeOK
  <2>6. ASSUME DataInv PROVE OkMeansDurable'
    BY <1>11, <2>6, <1>t DEF BecomeLeader, logVars, OkMeansDurable,
       DoneMeansDurable, FlushResult, DirtyIsCounted, TypeOK
  <2>7. ASSUME DataInv PROVE DoneMeansDurable'
    BY <1>11, <2>7, <2>1, <1>t DEF BecomeLeader, logVars, OkMeansDurable,
       DoneMeansDurable, FlushResult, SameRole, TypeOK
  <2> QED
    BY <2>2, <2>3, <2>4, <2>5, <2>6, <2>7
<1>12. ASSUME NEW t \in Threads, LeaderRecheck(t)
      PROVE  ControlInv' /\ (DataInv /\ ~MidBatchErrors => DataInv')
  <2>1. Moves(t, "flushing")
    <3>1. \/ pc' = [pc EXCEPT ![t] = "flushing"]
          \/ pc' = [pc EXCEPT ![t] = "leadwait"]
      BY <1>12 DEF LeaderRecheck
    <3>2. Moves(t, "flushing") \/ Moves(t, "leadwait")
      BY <3>1, <1>p, <1>t, MovePlain
    <3> QED
      BY <3>2 DEF SameRole
  <2>4. SpentHasFlushed'
    BY <1>12, <2>1, <1>t DEF LeaderRecheck, logVars, coordVars, SameRole,
       TypeOK
  <2>2. OneLeader'
    BY <1>12, <2>1, <1>t DEF LeaderRecheck, logVars, coordVars, SameRole,
       TypeOK
  <2>3. ParkedHasWaker'
    BY <1>12, <2>1, <1>t DEF LeaderRecheck, logVars, coordVars, SameRole,
       TypeOK
  <2>5. ASSUME DataInv PROVE DirtyIsCounted'
    BY <1>12, <2>5, <1>t DEF LeaderRecheck, logVars, coordVars, DirtyIsCounted,
       TypeOK
  <2>6. ASSUME DataInv PROVE OkMeansDurable'
    BY <1>12, <2>6, <1>t DEF LeaderRecheck, logVars, coordVars, OkMeansDurable,
       DoneMeansDurable, FlushResult, DirtyIsCounted, TypeOK
  <2>7. ASSUME DataInv PROVE DoneMeansDurable'
    BY <1>12, <2>7, <2>1, <1>t DEF LeaderRecheck, logVars, coordVars,
       OkMeansDurable, DoneMeansDurable, FlushResult, SameRole, TypeOK
  <2> QED
    BY <2>2, <2>3, <2>4, <2>5, <2>6, <2>7
<1>13. ASSUME NEW t \in Threads, LeaderAlreadyDone(t)
      PROVE  ControlInv' /\ (DataInv /\ ~MidBatchErrors => DataInv')
  <2>1. Moves(t, "idle") /\ WakesAll
    BY <1>13, <1>p, <1>t, MoveNotify DEF LeaderAlreadyDone
  <2>4. SpentHasFlushed'
    BY <1>13, <2>1, <1>t DEF LeaderAlreadyDone, OneWaiterLess, Unlock,
       FlushResult, SameRole, TypeOK
  <2>2. OneLeader'
    BY <1>13, <2>1, <1>t DEF LeaderAlreadyDone, OneWaiterLess, Unlock,
       FlushResult, SameRole, TypeOK
  <2>3. ParkedHasWaker'
    BY <1>13, <2>1, <1>t DEF LeaderAlreadyDone, OneWaiterLess, Unlock,
       FlushResult, SameRole, TypeOK
  <2>5. ASSUME DataInv PROVE DirtyIsCounted'
    BY <1>13, <2>5, <1>t DEF LeaderAlreadyDone, OneWaiterLess, Unlock,
       FlushResult, DirtyIsCounted, TypeOK
  <2>6. ASSUME DataInv PROVE OkMeansDurable'
    BY <1>13, <2>6, <1>t DEF LeaderAlreadyDone, OneWaiterLess, Unlock,
       FlushResult, OkMeansDurable, DoneMeansDurable, FlushResult,
       DirtyIsCounted, TypeOK
  <2>7. ASSUME DataInv PROVE DoneMeansDurable'
    BY <1>13, <2>7, <2>1, <1>t DEF LeaderAlreadyDone, OneWaiterLess, Unlock,
       FlushResult, OkMeansDurable, DoneMeansDurable, FlushResult, SameRole,
       TypeOK
  <2> QED
    BY <2>2, <2>3, <2>4, <2>5, <2>6, <2>7
<1>14. ASSUME NEW t \in Threads, LeaderFlush(t)
      PROVE  ControlInv' /\ (DataInv /\ ~MidBatchErrors => DataInv')
  <2>1. Moves(t, "flushed") /\ WakesAll
    BY <1>14, <1>p, <1>t, MoveNotify DEF LeaderFlush, FlushSucceeds
  <2>p. /\ pc[t] = "flushing"
        /\ has_leader' = has_leader
        /\ spent' = spent \cup {t}
        /\ flush_gen' = flush_gen + 1
        /\ ticket' = ticket
        /\ flush_gen \in Nat
        /\ \A u \in Threads : ticket[u] \in 0..flush_gen
    BY <1>14, <1>t DEF LeaderFlush, FlushSucceeds, TypeOK
  <2>2. OneLeader'
    BY <2>p, <2>1 DEF SameRole
  <2>4. SpentHasFlushed'
    <3>1. \A u \in Threads : AlreadyDone(u)'
      BY <2>p
    <3> QED
      BY <3>1, <2>p, <2>1 DEF SameRole
  <2>3. ParkedHasWaker'
    BY <1>14, <2>1, <1>t DEF LeaderFlush, FlushSucceeds, SameRole, TypeOK
  <2>5. ASSUME DataInv PROVE DirtyIsCounted'
    BY <1>14, <2>5, <1>t DEF LeaderFlush, FlushSucceeds, DirtyIsCounted, TypeOK
  <2>6. ASSUME DataInv PROVE OkMeansDurable'
    BY <1>14, <2>6, <1>t DEF LeaderFlush, FlushSucceeds, OkMeansDurable,
       DoneMeansDurable, FlushResult, DirtyIsCounted, TypeOK
  <2>7. ASSUME DataInv PROVE DoneMeansDurable'
    BY <1>14, <2>7, <2>1, <1>t DEF LeaderFlush, FlushSucceeds, OkMeansDurable,
       DoneMeansDurable, FlushResult, SameRole, TypeOK
  <2> QED
    BY <2>2, <2>3, <2>4, <2>5, <2>6, <2>7
<1>15. ASSUME NEW t \in Threads, LeaderFlushFails(t)
      PROVE  ControlInv' /\ (DataInv /\ ~MidBatchErrors => DataInv')
  <2>1. Moves(t, "failed")
    BY <1>15, <1>p, <1>t, MovePlain DEF LeaderFlushFails
  <2>4. SpentHasFlushed'
    BY <1>15, <2>1, <1>t DEF LeaderFlushFails, logVars, coordVars, SameRole,
       TypeOK
  <2>2. OneLeader'
    BY <1>15, <2>1, <1>t DEF LeaderFlushFails, logVars, coordVars, SameRole,
       TypeOK
  <2>3. ParkedHasWaker'
    BY <1>15, <2>1, <1>t DEF LeaderFlushFails, logVars, coordVars, SameRole,
       TypeOK
  <2>5. ASSUME DataInv PROVE DirtyIsCounted'
    BY <1>15, <2>5, <1>t DEF LeaderFlushFails, logVars, coordVars,
       DirtyIsCounted, TypeOK
  <2>6. ASSUME DataInv PROVE OkMeansDurable'
    BY <1>15, <2>6, <1>t DEF LeaderFlushFails, logVars, coordVars,
       OkMeansDurable, DoneMeansDurable, FlushResult, DirtyIsCounted, TypeOK
  <2>7. ASSUME DataInv PROVE DoneMeansDurable'
    BY <1>15, <2>7, <2>1, <1>t DEF LeaderFlushFails, logVars, coordVars,
       OkMeansDurable, DoneMeansDurable, FlushResult, SameRole, TypeOK
  <2> QED
    BY <2>2, <2>3, <2>4, <2>5, <2>6, <2>7
<1>16. ASSUME NEW t \in Threads, StepDown(t)
      PROVE  ControlInv' /\ (DataInv /\ ~MidBatchErrors => DataInv')
  <2>0. AlreadyDone(t)
    BY <1>16 DEF StepDown
  <2>1. Moves(t, "idle") /\ WakesAll
    BY <1>16, <2>0, <1>p, <1>t, MoveNotify DEF StepDown
  <2>4. SpentHasFlushed'
    BY <1>16, <2>0, <2>1, <1>t DEF StepDown, OneWaiterLess, Unlock,
       FlushResult, SameRole, TypeOK
  <2>2. OneLeader'
    BY <1>16, <2>0, <2>1, <1>t DEF StepDown, OneWaiterLess, Unlock,
       FlushResult, SameRole, TypeOK
  <2>3. ParkedHasWaker'
    BY <1>16, <2>0, <2>1, <1>t DEF StepDown, OneWaiterLess, Unlock,
       FlushResult, SameRole, TypeOK
  <2>5. ASSUME DataInv PROVE DirtyIsCounted'
    BY <1>16, <2>0, <2>5, <1>t DEF StepDown, OneWaiterLess, Unlock,
       FlushResult, DirtyIsCounted, TypeOK
  <2>6. ASSUME DataInv PROVE OkMeansDurable'
    BY <1>16, <2>0, <2>6, <1>t DEF StepDown, OneWaiterLess, Unlock,
       FlushResult, OkMeansDurable, DoneMeansDurable, FlushResult,
       DirtyIsCounted, TypeOK
  <2>7. ASSUME DataInv PROVE DoneMeansDurable'
    BY <1>16, <2>0, <2>7, <2>1, <1>t DEF StepDown, OneWaiterLess, Unlock,
       FlushResult, OkMeansDurable, DoneMeansDurable, FlushResult, SameRole,
       TypeOK
  <2> QED
    BY <2>2, <2>3, <2>4, <2>5, <2>6, <2>7
<1>17. ASSUME NEW t \in Threads, StepDownFailed(t)
      PROVE  ControlInv' /\ (DataInv /\ ~MidBatchErrors => DataInv')
  <2>1. Moves(t, "idle") /\ WakesAll
    BY <1>17, <1>p, <1>t, MoveNotify DEF StepDownFailed
  <2>4. SpentHasFlushed'
    BY <1>17, <2>1, <1>t DEF StepDownFailed, OneWaiterLess, Unlock, SameRole,
       TypeOK
  <2>2. OneLeader'
    BY <1>17, <2>1, <1>t DEF StepDownFailed, OneWaiterLess, Unlock, SameRole,
       TypeOK
  <2>3. ParkedHasWaker'
    BY <1>17, <2>1, <1>t DEF StepDownFailed, OneWaiterLess, Unlock, SameRole,
       TypeOK
  <2>5. ASSUME DataInv PROVE DirtyIsCounted'
    BY <1>17, <2>5, <1>t DEF StepDownFailed, OneWaiterLess, Unlock,
       DirtyIsCounted, TypeOK
  <2>6. ASSUME DataInv PROVE OkMeansDurable'
    BY <1>17, <2>6, <1>t DEF StepDownFailed, OneWaiterLess, Unlock,
       OkMeansDurable, DoneMeansDurable, FlushResult, DirtyIsCounted, TypeOK
  <2>7. ASSUME DataInv PROVE DoneMeansDurable'
    BY <1>17, <2>7, <2>1, <1>t DEF StepDownFailed, OneWaiterLess, Unlock,
       OkMeansDurable, DoneMeansDurable, FlushResult, SameRole, TypeOK
  <2> QED
    BY <2>2, <2>3, <2>4, <2>5, <2>6, <2>7
<1>18. ASSUME NEW t \in Threads, AppendFailsMidBatch(t)
      PROVE  ControlInv' /\ (DataInv /\ ~MidBatchErrors => DataInv')
  <2>1. MidBatchErrors
    BY <1>18 DEF AppendFailsMidBatch
  <2>2. ControlInv'
    BY <1>18 DEF AppendFailsMidBatch, coordVars
  <2> QED
    BY <2>1, <2>2
<1>19. CASE WindowElapses
  BY <1>19 DEF WindowElapses, logVars, callVars, DirtyIsCounted,
               OkMeansDurable, DoneMeansDurable, FlushResult
<1>20. CASE UNCHANGED vars
  BY <1>20 DEF vars, DirtyIsCounted, OkMeansDurable, DoneMeansDurable,
               FlushResult
<1> QED
  BY <1>1, <1>2, <1>3, <1>4, <1>5, <1>6, <1>7, <1>8, <1>9, <1>10, <1>11,
     <1>12, <1>13, <1>14, <1>15, <1>16, <1>17, <1>18, <1>19, <1>20
     DEF Next, WaitOrLead, Finished

-----------------------------------------------------------------------------
LEMMA ControlAlways == Spec => [](TypeOK /\ ControlInv)
<1>1. Init => TypeOK /\ ControlInv
  BY InitIInv DEF IInv
<1>2. TypeOK /\ ControlInv /\ [Next]_vars => (TypeOK /\ ControlInv)'
  BY TypeStep, InvStep
<1> QED
  BY <1>1, <1>2, PTL DEF Spec

LEMMA DataAlways ==
    ASSUME ~MidBatchErrors
    PROVE  Spec => []IInv
<1>1. IInv /\ [Next]_vars => IInv'
  BY TypeStep, InvStep DEF IInv
<1> QED
  BY <1>1, InitIInv, PTL DEF Spec

\* Every reachable state is well typed: no ticket is ahead of the generation
\* counter and nothing is durable that was not written.
THEOREM TypeCorrect == Spec => []TypeOK
BY ControlAlways, PTL

\* wait_or_lead and Broker::flush answer Ok only for records on stable storage,
\* as long as append_batch_inner never fails half-way.
THEOREM OkIsDurable ==
    ASSUME ~MidBatchErrors
    PROVE  Spec => []OkMeansDurable
<1>1. IInv => OkMeansDurable
  BY DEF IInv, DataInv
<1> QED
  BY <1>1, DataAlways, PTL

\* Under the same condition Broker::flush may skip the fsync when
\* appends_since_flush is zero.
THEOREM SkippedFsyncIsSafe ==
    ASSUME ~MidBatchErrors
    PROVE  Spec => []DirtyIsCounted
<1>1. IInv => DirtyIsCounted
  BY DEF IInv, DataInv
<1> QED
  BY <1>1, DataAlways, PTL

\* Two callers never lead the same group, and has_leader is never left set.
THEOREM LeaderUnique == Spec => []OneLeader
<1>1. ControlInv => OneLeader
  BY DEF ControlInv
<1> QED
  BY <1>1, ControlAlways, PTL

\* No waiter sleeps on the condition variable without a leader to wake it.
THEOREM NoLostWakeup == Spec => []ParkedHasWaker
<1>1. ControlInv => ParkedHasWaker
  BY DEF ControlInv
<1> QED
  BY <1>1, ControlAlways, PTL
=============================================================================
