------------------------------ MODULE BrokerLocks ------------------------------
(***************************************************************************)
(* The locks of one broker process and the order its operations take them  *)
(* in.                                                                     *)
(*                                                                         *)
(* A Broker keeps its state behind parking_lot locks of its own: the topic *)
(* map, the cluster assignment, membership and configuration, the producer *)
(* map and the transaction maps.  The network workers and the mesh task    *)
(* call into it concurrently.  What an operation computes is modelled      *)
(* elsewhere; here an operation is its lock script, the sequence of the    *)
(* acquisitions and releases its guards stand for, each guard released     *)
(* where its scope, or the statement that made it, ends.  A path that      *)
(* returns early acquires a prefix of the script and then lets go, which   *)
(* holds and waits for nothing the full script does not.                   *)
(*                                                                         *)
(* Locks that no operation holds while it asks for another one             *)
(* (leader_epochs, rr_counters, aborted_txns, txn_abortable, ...) cannot   *)
(* be part of a cycle and are left out.                                    *)
(***************************************************************************)
EXTENDS Naturals, Sequences

CONSTANTS Threads,               \* worker threads calling into the broker
          ScriptsOf,             \* [Threads -> the scripts a thread may run]
          OpenraftMetadata,      \* VOLANT_OPENRAFT_METADATA
          ClusterMetadataTopic,  \* VOLANT_CLUSTER_METADATA_TOPIC
          GroupCommit            \* whether group_commit_max_ms is not 0

Locks == {"topics", "assignment", "membership", "config",
          "transactional_ids", "producer_state", "open_txns", "prepared_txns"}

\* The lead in the group commit of a log: of __cluster_metadata-0, and of any
\* other partition.  Whoever waits for a flush, waits until the leader is done.
Leads == {"metadata_commit", "partition_commit"}

\* An acquisition, and the number of guards dropped before the next one.
Step == [do : {"read", "write"}, lock : Locks \cup Leads, drop : Nat]

\* A guard of a lock, and what the code does while it lives.  A Mutex is a
\* lock that is only ever taken for writing.
Guard(do, l, inner) ==
    LET s == <<[do |-> do, lock |-> l, drop |-> 0]>> \o inner
    IN  [s EXCEPT ![Len(s)].drop = @ + 1]
Read(l, inner)  == Guard("read", l, inner)
Write(l, inner) == Guard("write", l, inner)
Nop == << >>

--------------------------------------------------------------------------------
(***************************************************************************)
(* The scripts of the operations.                                          *)
(***************************************************************************)
\* With openraft on, the leader comes from the Raft handle, not from membership.
controller_id == IF OpenraftMetadata THEN Nop ELSE Read("membership", Nop)

apply_local_assignment ==
    Read("assignment", Nop) \o Read("config", Nop) \o Read("membership", Nop)
      \o Write("topics", Nop)

\* wait_or_lead: the wait ends, or the lead begins, when nobody else leads; then
\* the leader runs flush_fn.
wait_or_lead(log, flush_fn) == IF GroupCommit THEN Write(log, flush_fn) ELSE Nop

\* PartitionLog::append waits for the group commit inside topics.write(), and
\* flushes with the log it has.
append_cluster_metadata_snapshot ==
    Read("assignment", Nop) \o Write("topics", wait_or_lead("metadata_commit", Nop))

ensure_cluster_metadata_topic ==
    Read("membership", Nop) \o Read("assignment", Nop) \o Read("config", Nop)
      \o Write("assignment", Nop) \o Write("topics", Nop) \o append_cluster_metadata_snapshot

maybe_append_cluster_metadata ==
    IF ClusterMetadataTopic
      THEN ensure_cluster_metadata_topic \o append_cluster_metadata_snapshot
      ELSE Nop

metadata == Read("config", Nop) \o controller_id \o Read("assignment", Read("topics", Nop))

\* The ISR is mirrored into the assignment, and a change reported, with the
\* topic map locked all along.
handle_replica_fetch ==
    Write("topics", Read("config", Nop)
                      \o Write("assignment", controller_id)
                      \o controller_id \o Read("assignment", Nop))

append_replica_records == Write("topics", Nop)

cluster_state_snapshot == Read("assignment", Read("membership", Nop))

apply_cluster_state == Write("assignment", Nop) \o apply_local_assignment

\* The controller's branch; elect_leader's epoch start is read from the log.
on_broker_death ==
    Write("membership", Nop) \o Write("topics", Nop)
      \o Read("membership", Nop) \o Read("membership", Nop)
      \o Write("assignment", Read("topics", Nop))
      \o apply_local_assignment

\* on_broker_death on a broker that is not the controller.
enqueue_isr_reports_for_local_leaders ==
    Write("membership", Nop) \o Write("topics", Nop) \o Read("membership", Nop)
      \o Read("assignment", Nop) \o Read("topics", Nop) \o Write("assignment", Nop)

handle_heartbeat_broker ==
    Write("membership", Nop) \o Write("membership", Nop)
      \o Read("membership", Read("assignment", Nop))

tick_cluster == Write("membership", Nop) \o Write("membership", Nop)

\* cfg lives to the end of the function.
create_topic_cluster ==
    controller_id
      \o Read("topics", Read("assignment", Nop))
      \o Read("config", Write("assignment", Nop) \o Write("topics", Nop)
                          \o maybe_append_cluster_metadata)

delete_topic ==
    Write("topics", Write("assignment", Nop)) \o maybe_append_cluster_metadata

reassign_partitions ==
    Read("membership", Nop) \o Read("assignment", Nop)
      \o Read("config", Read("assignment", Nop))
      \o Write("assignment", Read("topics", Nop))
      \o apply_local_assignment \o maybe_append_cluster_metadata

elect_preferred_leader ==
    Read("membership", Nop) \o Read("assignment", Nop) \o Read("membership", Nop)
      \o Write("assignment", Read("topics", Nop))
      \o apply_local_assignment \o maybe_append_cluster_metadata

\* The removal of a broker.
commit_membership_overlay == Write("config", Nop) \o Write("membership", Nop)

\* The waiter registers under the topic map's lock and waits without it; a
\* leader takes it again for the flush.
flush(log) == Write("topics", Nop) \o wait_or_lead(log, Write("topics", Nop))

produce_inner ==
    Write("topics", Read("config", Nop))
      \o (IF GroupCommit THEN flush("partition_commit") ELSE Nop)

persist_txn_markers == Write("open_txns", Nop)

persist_prepared_txns == Write("prepared_txns", Nop)

append_txn_control_markers == produce_inner \o flush("partition_commit")

persist_producer_state == Read("producer_state", Nop)

record_idempotent_produce == Write("producer_state", Nop) \o persist_producer_state

\* __transaction_state exists and the flag is on.
append_transaction_state ==
    Read("topics", Nop) \o Write("open_txns", Nop) \o Write("prepared_txns", Nop)
      \o produce_inner \o flush("partition_commit")

\* What the abort of a transaction that was taken out of its map does.
abort_txn == persist_txn_markers \o append_txn_control_markers \o append_transaction_state

expire_timed_out_open_txns ==
    Write("open_txns", Read("producer_state", Nop))
      \o abort_txn \o persist_txn_markers

expire_timed_out_prepared_txns ==
    Write("prepared_txns", Nop) \o abort_txn \o persist_prepared_txns

\* The sweep; most of the calls below start with it.  It begins and ends with no
\* lock held, so such a call is this operation and then what is left of it.
expire_timed_out_txns == expire_timed_out_open_txns \o expire_timed_out_prepared_txns

last_stable_offset ==
    Read("topics", Nop) \o Write("open_txns", Nop) \o Write("prepared_txns", Nop)

\* Mutant: the LSO is asked for with the topic map still locked.
list_offsets_isolated_lso_inside ==
    Read("topics", Read("assignment", Nop) \o Read("assignment", Nop)
                     \o expire_timed_out_txns \o last_stable_offset)

list_offsets_isolated ==
    Read("topics", Read("assignment", Nop) \o Read("assignment", Nop)) \o last_stable_offset

fetch_up_to == Read("topics", Nop) \o last_stable_offset

\* The sequence check is under the open-transaction lock, the append is not.
buffer_txn_produce ==
    Read("producer_state", Nop) \o Write("prepared_txns", Nop)
      \o Write("open_txns", Read("producer_state", Nop))
      \o produce_inner \o flush("partition_commit")
      \o Write("open_txns", Nop) \o persist_txn_markers

\* The commit of an open transaction, and the prepare of a two-phase one.
end_txn ==
    Read("producer_state", Nop) \o Write("prepared_txns", Nop) \o Write("open_txns", Nop)
      \o record_idempotent_produce
      \o append_txn_control_markers \o persist_txn_markers \o append_transaction_state

end_txn_prepare ==
    Read("producer_state", Nop) \o Write("prepared_txns", Nop) \o Write("open_txns", Nop)
      \o Write("prepared_txns", Nop) \o persist_txn_markers \o persist_prepared_txns
      \o append_transaction_state

\* The fencing of a known transactional id: txn_ids is held to the end.
init_producer_id_with_opts ==
    Write("prepared_txns", Nop)
      \o Write("transactional_ids",
               Write("producer_state", Nop) \o Write("open_txns", Nop)
                 \o abort_txn \o persist_producer_state \o append_transaction_state)

list_open_transactions ==
    Write("open_txns", Write("prepared_txns", Read("producer_state", Nop)))

describe_producers_for_partition ==
    Read("producer_state", Write("open_txns", Write("prepared_txns", Nop)))

--------------------------------------------------------------------------------
(***************************************************************************)
(* The locks.  A parking_lot RwLock lets a writer claim the lock as soon   *)
(* as no other writer has it and then wait for the readers to drain: from  *)
(* the claim on, a new reader waits, also one that holds the lock for      *)
(* reading already.                                                        *)
(***************************************************************************)
VARIABLES script,    \* [Threads -> the acquisitions left of the running operation]
          held,      \* [Threads -> the guards it holds, the latest last]
          claimed    \* threads that wait for readers to let go of a claimed lock

vars == <<script, held, claimed>>

Init ==
    /\ script = [t \in Threads |-> << >>]
    /\ held = [t \in Threads |-> << >>]
    /\ claimed = {}

\* t is about to acquire l in this way.
AtStep(t, do, l) == script[t] # << >> /\ Head(script[t]).do = do /\ Head(script[t]).lock = l

Holds(t, do, l) == \E i \in DOMAIN held[t] : held[t][i].do = do /\ held[t][i].lock = l

Exclusive(l) ==
    {t \in Threads : Holds(t, "write", l) \/ (t \in claimed /\ AtStep(t, "write", l))}

Shared(l) == {t \in Threads : Holds(t, "read", l)}

Call(t) ==
    /\ script[t] = << >>
    /\ \E s \in ScriptsOf[t] : script' = [script EXCEPT ![t] = s]
    /\ UNCHANGED <<held, claimed>>

\* The lock is taken and the thread runs to its next acquisition, dropping the
\* guards whose scope ends before it: a release never waits.
Acquire(t) ==
    LET s == Head(script[t])
        guards == Append(held[t], [do |-> s.do, lock |-> s.lock])
    IN  /\ held' = [held EXCEPT ![t] = SubSeq(guards, 1, Len(guards) - s.drop)]
        /\ script' = [script EXCEPT ![t] = Tail(@)]

LockShared(t, l) ==
    /\ AtStep(t, "read", l)
    /\ Exclusive(l) = {}
    /\ Acquire(t)
    /\ UNCHANGED claimed

ClaimExclusive(t, l) ==
    /\ AtStep(t, "write", l)
    /\ Exclusive(l) = {}
    /\ Shared(l) # {}
    /\ claimed' = claimed \cup {t}
    /\ UNCHANGED <<script, held>>

LockExclusive(t, l) ==
    /\ AtStep(t, "write", l)
    /\ Exclusive(l) \subseteq claimed \cap {t}
    /\ Shared(l) = {}
    /\ Acquire(t)
    /\ claimed' = claimed \ {t}

Next ==
    \E t \in Threads :
        \/ Call(t)
        \/ \E l \in Locks \cup Leads : LockShared(t, l) \/ ClaimExclusive(t, l) \/ LockExclusive(t, l)

Spec == Init /\ [][Next]_vars

--------------------------------------------------------------------------------
\* t cannot take its next step until u gives up a guard or a claim.
WaitsFor(t, u) ==
    \E l \in Locks \cup Leads :
        \/ AtStep(t, "read", l) /\ u \in Exclusive(l)
        \/ AtStep(t, "write", l) /\ u \in Shared(l) \cup (Exclusive(l) \ (claimed \cap {t}))

\* No set of threads in which each waits for one of the set: the broker never
\* hangs on its own locks.  (fetch_up_to lets go of the topic map before it
\* consults the transaction maps for exactly this reason.)
NoDeadlock ==
    \A D \in SUBSET Threads \ {{}} : \E t \in D : \A u \in D : ~ WaitsFor(t, u)

================================================================================
