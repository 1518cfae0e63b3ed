----------------------------- MODULE GroupCommit -----------------------------
(***************************************************************************)
(* Group commit of one partition log: callers append under the log lock,   *)
(* then share one fsync through the generation counter of GroupCommit      *)
(* (volant-storage/src/group_commit.rs), as Broker::flush,                 *)
(* SharedPartitionLog::append and PartitionLog::append drive it.           *)
(*                                                                         *)
(* One action is one critical section of the coordinator's mutex or of the *)
(* log lock (Broker.topics / SharedPartitionLog.inner).  Offsets stand for *)
(* records: `leo` records are written, the first `durable` of them are on  *)
(* stable storage.                                                         *)
(***************************************************************************)
EXTENDS Integers, FiniteSets

CONSTANTS
    Threads,      \* caller threads
    Exclusive,    \* those that call PartitionLog::append under the log lock
    MaxRecords,   \* group_commit_max_records (GroupCommit.max_records)
    MaxLeo,       \* bound: records appended in a behaviour
    MaxCalls,     \* bound: calls made in a behaviour
    MidBatchErrors, \* whether a batch append may fail after its first record
    NoThread      \* the log lock is free

ASSUME GroupCommitAssumption ==
    /\ Exclusive \subseteq Threads
    /\ NoThread \notin Threads
    /\ MaxRecords \in Nat \ {0}
    /\ MaxLeo \in Nat
    /\ MaxCalls \in Nat
    /\ MidBatchErrors \in BOOLEAN

VARIABLES
    \* PartitionLog
    leo,              \* next_offset
    durable,          \* records covered by an fsync (active segment or seal)
    uncommitted,      \* appends_since_flush
    logLock,          \* holder of the log lock across steps, or NoThread
    \* GroupCommit.Inner
    flush_gen,
    pending_records,
    pending_waiters,
    window,           \* window_start: "none", "open", or "elapsed"
    has_leader,
    last_error,       \* generation of the last failed flush, 0 for None
    \* callers
    pc,               \* where the thread is in its call
    ticket,           \* GroupCommitTicket.wait_gen
    spent,            \* threads whose flush_fn has been taken
    target,           \* end offset of what the call must make durable
    result,           \* what the last call returned
    calls             \* calls made so far (bound)

logVars   == <<leo, durable, uncommitted, logLock>>
coordVars == <<flush_gen, pending_records, pending_waiters, window,
               has_leader, last_error>>
callVars  == <<pc, ticket, spent, target, result, calls>>
vars      == <<leo, durable, uncommitted, logLock,
               flush_gen, pending_records, pending_waiters, window,
               has_leader, last_error,
               pc, ticket, spent, target, result, calls>>

PCs == {"idle", "appended", "enter", "blocked", "lead", "leadwait",
        "flushing", "flushed", "failed"}

\* The thread that runs the leader's part of wait_or_lead.
Leading(t) == pc[t] \in {"lead", "leadwait", "flushing", "flushed", "failed"}

\* Between register_waiter and the return of wait_or_lead.
Registered(t) == Leading(t) \/ pc[t] \in {"enter", "blocked"}

-----------------------------------------------------------------------------
\* The coordinator's helpers.

\* already_done: the generation has moved past the ticket.
AlreadyDone(t) == flush_gen > ticket[t]

\* Mutant of FlushResult: the recorded error is never looked at.
FlushResultIgnoresError(t) == IF AlreadyDone(t) THEN "ok" ELSE "err"

\* flush_error_for: the result a waiter returns once it is done.
FlushResult(t) ==
    IF last_error # 0 /\ last_error > ticket[t] THEN "err" ELSE "ok"

\* Mutant of ShouldFlushNow: the leader waits for a full group only.
ShouldFlushWhenFull == pending_records >= MaxRecords

\* should_flush_now / remaining_window: enough records, or no time is left.
ShouldFlushNow == pending_records >= MaxRecords \/ window # "open"

\* cond.notify_all: every thread parked on the condition variable wakes.
NotifyAll(p) ==
    [t \in Threads |-> CASE p[t] = "blocked"  -> "enter"
                         [] p[t] = "leadwait" -> "lead"
                         [] OTHER             -> p[t]]

\* One waiter leaves: saturating_sub on the waiter count.
OneWaiterLess == IF pending_waiters = 0 THEN 0 ELSE pending_waiters - 1

\* The thread's lock: free, or held by the thread itself (&mut self).
LogLockFor(t) == logLock \in {NoThread, t}

\* Returning from PartitionLog::append drops the exclusive borrow.
Unlock(t) == IF logLock = t THEN NoThread ELSE logLock

-----------------------------------------------------------------------------
\* PartitionLog: append and flush, under the log lock.

\* append_batch_uncommitted / append_one + finish_append(_, false): n records
\* are written; a roll seals (fsyncs) what was written before them; the
\* coordinator learns of the pending records and wakes the leader when there
\* are enough of them.
AppendRecords(n, roll, p) ==
    /\ leo + n <= MaxLeo
    /\ leo' = leo + n
    /\ durable' = IF roll THEN leo ELSE durable
    /\ uncommitted' = uncommitted + n
    /\ pending_records' = pending_records + n
    /\ pc' = IF pending_records' >= MaxRecords THEN NotifyAll(p) ELSE p

\* Mutant of RegisterWaiter: the ticket names the generation waited for.
RegisterWaiterNextGen(t) ==
    /\ window' = IF pending_waiters = 0 THEN "open" ELSE window
    /\ pending_waiters' = pending_waiters + 1
    /\ ticket' = [ticket EXCEPT ![t] = flush_gen + 1]
    /\ spent' = spent \ {t}

\* register_waiter: the first waiter opens the window.
RegisterWaiter(t) ==
    /\ window' = IF pending_waiters = 0 THEN "open" ELSE window
    /\ pending_waiters' = pending_waiters + 1
    /\ ticket' = [ticket EXCEPT ![t] = flush_gen]
    /\ spent' = spent \ {t}

\* PartitionLog::flush once segment.flush() succeeded, with notify_flushed.
FlushSucceeds(p) ==
    /\ durable' = leo
    /\ uncommitted' = 0
    /\ flush_gen' = flush_gen + 1
    /\ pending_records' = 0
    /\ window' = "none"
    /\ last_error' = 0
    /\ pc' = NotifyAll(p)

-----------------------------------------------------------------------------
\* Calls.

StartCall(t) ==
    /\ pc[t] = "idle"
    /\ calls < MaxCalls
    /\ LogLockFor(t)
    /\ calls' = calls + 1
    /\ result' = [result EXCEPT ![t] = "none"]

\* Broker::produce_inner with acks # 0: append under the topics lock, then
\* release it.
Produce(t, roll) ==
    /\ StartCall(t)
    /\ AppendRecords(1, roll, [pc EXCEPT ![t] = "appended"])
    /\ target' = [target EXCEPT ![t] = leo + 1]
    /\ UNCHANGED <<logLock, flush_gen, pending_waiters, window, has_leader,
                   last_error, ticket, spent>>

\* acks = 0, or append_with_offset on a follower: nobody waits.
AppendNoWait(t, roll) ==
    /\ StartCall(t)
    /\ AppendRecords(1, roll, pc)
    /\ UNCHANGED <<logLock, flush_gen, pending_waiters, window, has_leader,
                   last_error, ticket, spent, target>>

\* append_batch_inner returns the error of a later append_one of the batch: what
\* it wrote before stays in the log, and finish_append is not called.
AppendFailsMidBatch(t) ==
    /\ MidBatchErrors
    /\ pc[t] = "idle"
    /\ calls < MaxCalls
    /\ LogLockFor(t)
    /\ leo + 1 <= MaxLeo
    /\ leo' = leo + 1
    /\ calls' = calls + 1
    /\ result' = [result EXCEPT ![t] = "err"]
    /\ UNCHANGED <<durable, uncommitted, logLock, coordVars, pc, ticket, spent,
                   target>>

\* SharedPartitionLog::append: append and register in one critical section.
SharedAppend(t, roll) ==
    /\ StartCall(t)
    /\ AppendRecords(1, roll, [pc EXCEPT ![t] = "enter"])
    /\ RegisterWaiter(t)
    /\ target' = [target EXCEPT ![t] = leo + 1]
    /\ UNCHANGED <<logLock, flush_gen, has_leader, last_error>>

\* PartitionLog::append: the same, keeping the lock while it waits
\* (append_cluster_metadata_snapshot calls it inside topics.write()).
ExclusiveAppend(t, roll) ==
    /\ t \in Exclusive
    /\ StartCall(t)
    /\ AppendRecords(1, roll, [pc EXCEPT ![t] = "enter"])
    /\ RegisterWaiter(t)
    /\ target' = [target EXCEPT ![t] = leo + 1]
    /\ logLock' = t
    /\ UNCHANGED <<flush_gen, has_leader, last_error>>

\* Broker::flush without a preceding append (Flush of what is there).
CallFlush(t) ==
    /\ StartCall(t)
    /\ pc' = [pc EXCEPT ![t] = "appended"]
    /\ target' = [target EXCEPT ![t] = leo]
    /\ UNCHANGED <<logVars, coordVars, ticket, spent>>

\* Broker::flush up to drop(topics): nothing dirty, or register a waiter.
FlushNothingDirty(t) ==
    /\ pc[t] = "appended"
    /\ LogLockFor(t)
    /\ uncommitted = 0
    /\ pc' = [pc EXCEPT ![t] = "idle"]
    /\ result' = [result EXCEPT ![t] = "ok"]
    /\ UNCHANGED <<logVars, coordVars, ticket, spent, target, calls>>

FlushRegister(t) ==
    /\ pc[t] = "appended"
    /\ LogLockFor(t)
    /\ uncommitted > 0
    /\ RegisterWaiter(t)
    /\ pc' = [pc EXCEPT ![t] = "enter"]
    /\ UNCHANGED <<logVars, flush_gen, pending_records, has_leader, last_error,
                   target, result, calls>>

\* SharedPartitionLog::flush: an immediate fsync, outside the protocol.
DirectFlush(t) ==
    /\ StartCall(t)
    /\ FlushSucceeds(pc)
    /\ UNCHANGED <<leo, logLock, pending_waiters, has_leader, ticket, spent,
                   target>>

-----------------------------------------------------------------------------
\* wait_or_lead.

\* already_done at the top of the loop.
ReturnDone(t) ==
    /\ pc[t] = "enter"
    /\ AlreadyDone(t)
    /\ pc' = [pc EXCEPT ![t] = "idle"]
    /\ result' = [result EXCEPT ![t] = FlushResult(t)]
    /\ pending_waiters' = OneWaiterLess
    /\ logLock' = Unlock(t)
    /\ UNCHANGED <<leo, durable, uncommitted, flush_gen, pending_records,
                   window, has_leader, last_error, ticket, spent, target, calls>>

\* Somebody else leads, or this thread's closure is used up: cond.wait.
Block(t) ==
    /\ pc[t] = "enter"
    /\ ~AlreadyDone(t)
    /\ has_leader \/ t \in spent
    /\ pc' = [pc EXCEPT ![t] = "blocked"]
    /\ UNCHANGED <<logVars, coordVars, ticket, spent, target, result, calls>>

\* Mutant of BecomeLeader: has_leader is not tested.
BecomeSecondLeader(t) ==
    /\ pc[t] = "enter"
    /\ ~AlreadyDone(t)
    /\ t \notin spent
    /\ has_leader' = TRUE
    /\ pc' = [pc EXCEPT ![t] = IF ShouldFlushNow THEN "flushing" ELSE "leadwait"]
    /\ UNCHANGED <<logVars, flush_gen, pending_records, pending_waiters, window,
                   last_error, ticket, spent, target, result, calls>>

\* Nobody leads: take the lead, and flush at once or sleep for the window.
BecomeLeader(t) ==
    /\ pc[t] = "enter"
    /\ ~AlreadyDone(t)
    /\ ~has_leader
    /\ t \notin spent
    /\ has_leader' = TRUE
    /\ pc' = [pc EXCEPT ![t] = IF ShouldFlushNow THEN "flushing" ELSE "leadwait"]
    /\ UNCHANGED <<logVars, flush_gen, pending_records, pending_waiters, window,
                   last_error, ticket, spent, target, result, calls>>

\* The leader wakes (notified, or wait_for timed out) and re-checks.
LeaderRecheck(t) ==
    /\ pc[t] = "lead" \/ (pc[t] = "leadwait" /\ window # "open")
    /\ ~AlreadyDone(t)
    /\ pc' = [pc EXCEPT ![t] = IF ShouldFlushNow THEN "flushing" ELSE "leadwait"]
    /\ UNCHANGED <<logVars, coordVars, ticket, spent, target, result, calls>>

\* Another flush covered the leader while it slept.
LeaderAlreadyDone(t) ==
    /\ pc[t] = "lead" \/ (pc[t] = "leadwait" /\ window # "open")
    /\ AlreadyDone(t)
    /\ has_leader' = FALSE
    /\ pending_waiters' = OneWaiterLess
    /\ pc' = NotifyAll([pc EXCEPT ![t] = "idle"])
    /\ result' = [result EXCEPT ![t] = FlushResult(t)]
    /\ logLock' = Unlock(t)
    /\ UNCHANGED <<leo, durable, uncommitted, flush_gen, pending_records,
                   window, last_error, ticket, spent, target, calls>>

\* flush_fn(), without the coordinator's mutex but under the log lock.
LeaderFlush(t) ==
    /\ pc[t] = "flushing"
    /\ LogLockFor(t)
    /\ spent' = spent \cup {t}
    /\ FlushSucceeds([pc EXCEPT ![t] = "flushed"])
    /\ UNCHANGED <<leo, logLock, pending_waiters, has_leader, ticket, target,
                   result, calls>>

\* Mutant of LeaderFlushFails: the counter is reset before the fsync.
LeaderFlushFailsResets(t) ==
    /\ pc[t] = "flushing"
    /\ LogLockFor(t)
    /\ uncommitted' = 0
    /\ spent' = spent \cup {t}
    /\ pc' = [pc EXCEPT ![t] = "failed"]
    /\ UNCHANGED <<leo, durable, logLock, coordVars, ticket, target, result,
                   calls>>

\* flush_fn() fails: an I/O error (or the topic is gone); nothing is changed.
LeaderFlushFails(t) ==
    /\ pc[t] = "flushing"
    /\ LogLockFor(t)
    /\ spent' = spent \cup {t}
    /\ pc' = [pc EXCEPT ![t] = "failed"]
    /\ UNCHANGED <<logVars, coordVars, ticket, target, result, calls>>

\* The leader locks the coordinator again after a successful flush, steps down
\* and goes back to the top of the loop in the same critical section.
StepDown(t) ==
    /\ pc[t] = "flushed"
    /\ has_leader' = FALSE
    /\ IF AlreadyDone(t)
       THEN /\ pc' = NotifyAll([pc EXCEPT ![t] = "idle"])
            /\ result' = [result EXCEPT ![t] = FlushResult(t)]
            /\ pending_waiters' = OneWaiterLess
            /\ logLock' = Unlock(t)
       ELSE /\ pc' = [NotifyAll(pc) EXCEPT ![t] = "blocked"]
            /\ UNCHANGED <<result, pending_waiters, logLock>>
    /\ UNCHANGED <<leo, durable, uncommitted, flush_gen, pending_records,
                   window, last_error, ticket, spent, target, calls>>

\* Mutants of StepDownFailed: the waiters are not woken; the leader is not
\* taken off the waiter count.
StepDownFailedSilently(t) ==
    /\ pc[t] = "failed"
    /\ has_leader' = FALSE
    /\ flush_gen' = flush_gen + 1
    /\ last_error' = flush_gen + 1
    /\ window' = "none"
    /\ pending_waiters' = OneWaiterLess
    /\ pc' = [pc EXCEPT ![t] = "idle"]
    /\ result' = [result EXCEPT ![t] = "err"]
    /\ logLock' = Unlock(t)
    /\ UNCHANGED <<leo, durable, uncommitted, pending_records, ticket, spent,
                   target, calls>>

StepDownFailedStillCounted(t) ==
    /\ pc[t] = "failed"
    /\ has_leader' = FALSE
    /\ flush_gen' = flush_gen + 1
    /\ last_error' = flush_gen + 1
    /\ window' = "none"
    /\ pc' = NotifyAll([pc EXCEPT ![t] = "idle"])
    /\ result' = [result EXCEPT ![t] = "err"]
    /\ logLock' = Unlock(t)
    /\ UNCHANGED <<leo, durable, uncommitted, pending_records, pending_waiters,
                   ticket, spent, target, calls>>

\* The same after a failed flush: a new generation that carries the error.
StepDownFailed(t) ==
    /\ pc[t] = "failed"
    /\ has_leader' = FALSE
    /\ flush_gen' = flush_gen + 1
    /\ last_error' = flush_gen + 1
    /\ window' = "none"
    /\ pending_waiters' = OneWaiterLess
    /\ pc' = NotifyAll([pc EXCEPT ![t] = "idle"])
    /\ result' = [result EXCEPT ![t] = "err"]
    /\ logLock' = Unlock(t)
    /\ UNCHANGED <<leo, durable, uncommitted, pending_records, ticket, spent,
                   target, calls>>

\* Time passes: the window opened by the first waiter runs out.
WindowElapses ==
    /\ window = "open"
    /\ window' = "elapsed"
    /\ UNCHANGED <<logVars, callVars, flush_gen, pending_records,
                   pending_waiters, has_leader, last_error>>

\* All calls are made and answered: the workload of the model is over.
Finished ==
    /\ calls = MaxCalls
    /\ \A t \in Threads : pc[t] = "idle"
    /\ UNCHANGED vars
-----------------------------------------------------------------------------
Init ==
    /\ leo = 0
    /\ durable = 0
    /\ uncommitted = 0
    /\ logLock = NoThread
    /\ flush_gen = 0
    /\ pending_records = 0
    /\ pending_waiters = 0
    /\ window = "none"
    /\ has_leader = FALSE
    /\ last_error = 0
    /\ pc = [t \in Threads |-> "idle"]
    /\ ticket = [t \in Threads |-> 0]
    /\ spent = {}
    /\ target = [t \in Threads |-> 0]
    /\ result = [t \in Threads |-> "none"]
    /\ calls = 0

\* The steps a registered waiter takes on its own.
WaitOrLead(t) ==
    \/ ReturnDone(t)
    \/ Block(t)
    \/ BecomeLeader(t)
    \/ LeaderRecheck(t)
    \/ LeaderAlreadyDone(t)
    \/ LeaderFlush(t)
    \/ LeaderFlushFails(t)
    \/ StepDown(t)
    \/ StepDownFailed(t)

Next ==
    \/ \E t \in Threads, roll \in BOOLEAN :
          \/ Produce(t, roll)
          \/ AppendNoWait(t, roll)
          \/ SharedAppend(t, roll)
          \/ ExclusiveAppend(t, roll)
    \/ \E t \in Threads :
          \/ AppendFailsMidBatch(t)
          \/ CallFlush(t)
          \/ FlushNothingDirty(t)
          \/ FlushRegister(t)
          \/ DirectFlush(t)
          \/ WaitOrLead(t)
    \/ WindowElapses
    \/ Finished

Spec == Init /\ [][Next]_vars

\* A thread that can run is scheduled, and time passes.
Fairness ==
    /\ \A t \in Threads :
          /\ WF_vars(WaitOrLead(t))
          /\ WF_vars(FlushRegister(t) \/ FlushNothingDirty(t))
    /\ WF_vars(WindowElapses)

FairSpec == Spec /\ Fairness
-----------------------------------------------------------------------------
\* Every variable has its type; a ticket is a generation that has existed, and
\* no more is durable than was written.
TypeOK ==
    /\ leo \in Nat
    /\ durable \in 0..leo
    /\ uncommitted \in Nat
    /\ logLock \in Threads \cup {NoThread}
    /\ flush_gen \in Nat
    /\ pending_records \in Nat
    /\ pending_waiters \in Nat
    /\ window \in {"none", "open", "elapsed"}
    /\ has_leader \in BOOLEAN
    /\ last_error \in 0..flush_gen
    /\ pc \in [Threads -> PCs]
    /\ ticket \in [Threads -> 0..flush_gen]
    /\ spent \subseteq Threads
    /\ target \in [Threads -> 0..leo]
    /\ result \in [Threads -> {"none", "ok", "err"}]
    /\ calls \in 0..MaxCalls

\* A caller that was told Ok has all it appended on stable storage, whoever
\* ran the fsync and however failed and successful flushes were interleaved
\* (wait_or_lead, Broker::flush and its has_uncommitted shortcut).
OkMeansDurable ==
    \A t \in Threads : result[t] = "ok" => target[t] <= durable

\* A record that is not durable is counted in appends_since_flush: Broker::flush
\* may skip the fsync when the counter is zero.
DirtyIsCounted == durable < leo => uncommitted > 0

\* At most one thread runs the leader's part, and has_leader says whether one
\* does: no two group fsyncs race, and leadership is never left behind.
OneLeader ==
    /\ \A t, u \in Threads : Leading(t) /\ Leading(u) => t = u
    /\ has_leader <=> \E t \in Threads : Leading(t)

\* A thread parked without a timeout has a leader that will notify it, and has
\* not used up its own closure: no wake-up is lost.
ParkedHasWaker ==
    \A t \in Threads : pc[t] = "blocked" => has_leader /\ t \notin spent

\* pending_waiters counts the callers inside wait_or_lead exactly, on every
\* return path, so the window reopens for the first waiter of a new group.
WaitersCounted ==
    pending_waiters = Cardinality({t \in Threads : Registered(t)})

\* Every caller that asks for a flush gets an answer: "a waiter that arrives
\* mid-flush can become the next leader instead of blocking forever".
CallsReturn ==
    \A t \in Threads : pc[t] # "idle" ~> pc[t] = "idle"
=============================================================================
