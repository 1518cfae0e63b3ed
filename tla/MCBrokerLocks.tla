----------------------------- MODULE MCBrokerLocks -----------------------------
(***************************************************************************)
(* Two threads that run any of a set of operations, and a third one that   *)
(* runs the operations that only ever write one lock at a time: a writer   *)
(* that queues behind a reader is what turns two read guards into a wait.  *)
(***************************************************************************)
EXTENDS BrokerLocks

\* The operations that take the locks in one order: the transaction maps
\* before producer_state, topics before config and assignment, assignment
\* before membership.
ordered ==
    {handle_replica_fetch, append_replica_records, cluster_state_snapshot,
     apply_cluster_state, enqueue_isr_reports_for_local_leaders, delete_topic,
     produce_inner, flush("partition_commit"), list_offsets_isolated, fetch_up_to,
     buffer_txn_produce, expire_timed_out_txns, end_txn, end_txn_prepare, init_producer_id_with_opts,
     list_open_transactions}

writers == {tick_cluster, commit_membership_overlay, apply_cluster_state,
            record_idempotent_produce}

const_ScriptsOf_ordered ==
    [t \in Threads |-> IF t = 3 THEN writers ELSE ordered]

\* The operations that take two locks in the other order, and one that takes
\* them in the order above.
const_ScriptsOf_unordered ==
    [t \in Threads |-> {handle_replica_fetch, metadata, on_broker_death,
                        delete_topic, flush("metadata_commit"),
                        reassign_partitions, elect_preferred_leader,
                        create_topic_cluster, handle_heartbeat_broker,
                        describe_producers_for_partition}]

const_Threads_2 == {1, 2}
const_Threads_3 == {1, 2, 3}
================================================================================
