# Verification of Volant

Volant is a Kafka-like message broker written in Rust (`src/crates/*`). This
directory holds TLA+ modules that model its parts, the TLC configurations that
check them on small instances, and proofs of the main properties with TLAPS.
Every definition is translated from the source; `PROJECT.json` maps each one to
the lines it stands for, and lists the hazards that the properties are about.

## The system

| Part | Source (`crates/`) | Module |
| --- | --- | --- |
| Partition log: segments, roll, fsync, DeleteRecords, retention, compaction, recovery | `volant-storage/src/log.rs`, `segment.rs` | `PartitionLog` |
| Group commit: a shared fsync for one log | `volant-storage/src/group_commit.rs`, `log.rs`, `Broker::flush` | `GroupCommit`, `GroupCommitProofs` |
| Partition state: leader, ISR, high watermark | `volant-broker/src/partition.rs`, `topic.rs`, `cluster/assignment.rs` | `Replication` |
| Replication: produce, ReplicaFetch, IsrUpdate reports | `broker/cluster.rs`, `replica/follower.rs`, `net/dispatch.rs`, `net/fanout.rs` | `Replication` |
| Membership, controller, failover, assignment pulls and pushes | `cluster/membership.rs`, `broker/cluster.rs`, `net/fanout.rs` | `Replication` |
| Leader epoch history (recording) | `leader_epoch.rs` | `Replication` |
| The broker's locks | `broker/*.rs` | `BrokerLocks` |
| Transactions, idempotent producers, two-phase commit, transaction state topic | `broker/txn.rs`, `txn_state.rs`, `producer_state.rs`, `txn_coordinator_registry.rs` | only its locks (`BrokerLocks`) |
| Consumer groups, committed offsets, assignors | `group.rs`, `offset_store.rs`, `assignor.rs` | planned |
| DeleteRecords over replicas: truncate journal, outbox, reconcile | `broker/delete_records.rs`, `truncate_journal.rs`, `delete_records_outbox.rs` | planned |
| Assignment consensus: majority, committed snapshot, rollback | `cluster/assignment_consensus.rs`, `cluster/openraft_meta.rs` | pushes only (`Replication`) |
| Fetch sessions and their mirrors | `kafka/fetch_session.rs` | planned |
| Stream runtime, exactly-once step | `volant-stream/src/*` | planned |
| Client library: retries, rejoin loop | `volant-client/src/*` | planned |
| Kafka handlers, wire formats, compression, ACL, SASL, metrics, CLI, server | `kafka/*`, `volant-protocol`, `net/*`, ... | not modelled |

How they interact. A produce appends to a partition log under the broker's
`topics` lock and waits, outside it, for a group commit of that log. Followers
read the leader's log with ReplicaFetch; the fetch offset tells the leader what
they hold, which decides the ISR and the high watermark, and with it when an
`acks=all` produce is answered and what consumers read. Brokers exchange
heartbeats; the one with the lowest live id is the controller, which fails
partitions over and hands out numbered assignments. Every one of these
operations runs on worker threads of one process and takes its locks one after
the other.

## PartitionLog

One log on disk. The caller holds the `topics` lock, so operations do not
interleave, but a crash may fall between two file operations; each file
operation is an action, and `op`, `during` and `queue` say where the call is.

| Variables | Code |
| --- | --- |
| `disk`, `index` | the `.log` files (header, records, how much of it was fsynced) and the `.index` files |
| `segments`, `next_offset` | `PartitionLog.segments`, `next_offset` |
| `compacted` | the segment in the `.compact-N` directory |
| `owed`, `acked`, `crashes` | history: records fsynced and not dropped on purpose; one past the largest fsynced offset; a counter |

`AppendOne`, `RollSeal`, `CreateLogFile` and `CreateSegment` are an append with
its roll; `Flush`; `DeleteRecords`, `ApplyRetention`, `DeleteLogFile` and
`DeleteIndexFile` drop segments; the `Compact...` actions are `compact_sealed`;
`OpenEmpty` and `OpenExisting` are `PartitionLog::open` with
`recover_and_index`. `Crash` keeps any prefix of a file that contains what was
fsynced (`PowerLoss`), or everything.

* `partition_log`: five offsets, one key, keyless records and tombstones, one
  power loss between operations or inside a roll. `DurableSurvives`,
  `OffsetsNotReused`, `DiskMatchesMemory`, `CompactedIsMinimal`, `TypeOK`. Five
  offsets allow two sealed segments, an active one and a compaction followed by
  a deletion or another compaction.
* `partition_log_crash`: four offsets, two power losses anywhere, also inside
  DeleteRecords and compaction; an open that failed is tried again:
  `OnlyKnownOpenErrors`.

`owed` is kept without looking at what the code drops: a deletion up to an
offset releases the records below that offset and no others, so `DurableSurvives`
also catches a deletion that takes a segment too many.

Limits the model shows. With `"delete"` in `CrashDuring`, `OffsetsNotReused`
fails: all files are gone before the new active segment exists, and `open` starts
the log again at offset 0 (`log.rs:430`). With `"compact"` in it,
`DurableSurvives` fails: the old sealed files are deleted before the compacted
one is renamed into place (`log.rs:630`). A power loss after a roll can leave a
segment file without its header, and `open` then returns an error
(`segment.rs:189`). A crash between the deletion of a log's last `.log` file and
of its `.index` leaves an index alone in the directory: if its base is 0, the
`create_new` of `open` fails on it, once: the empty log file it has written by
then makes the next `open` succeed. `OnlyKnownOpenErrors` says that there is no
third way to make it fail, and in particular that segments never overlap. `DeleteRecords` drops the active segment as well, although
`broker/topics.rs:846` says "Drops whole sealed segments only".

## Group commit

Callers append under the log lock (`Broker.topics`, or `SharedPartitionLog.inner`)
and then either lead a flush or wait for the next generation on a condition
variable. In `GroupCommit.tla` one action is one critical section of the
coordinator's mutex or of the log lock. `leo` and `durable` count records, so
that `target[t] <= durable` says that what call `t` appended is on stable
storage. `window` abstracts `window_start`: not open, open, or elapsed; the
elapsing is an action of its own, so a wait may time out at any moment.

| Variables | Code |
| --- | --- |
| `leo`, `uncommitted` | `PartitionLog.next_offset`, `appends_since_flush` |
| `durable` | what the last successful fsync (or seal) covered |
| `logLock` | the exclusive borrow a caller keeps while it waits (`Exclusive` threads) |
| `flush_gen`, `pending_records`, `pending_waiters`, `window`, `has_leader`, `last_error` | `GroupCommit.Inner` |
| `pc`, `ticket`, `spent` | the position of a thread in `wait_or_lead`, its ticket, and whether its `flush_fn` was taken |

* `group_commit`: three threads, one of which waits while it holds the log lock,
  four calls, three records, a threshold of two; fsyncs may fail. `TypeOK`,
  `OkMeansDurable`, `DirtyIsCounted`. Threads with the same entry points are
  symmetric.
* `group_commit_live`: three threads, three calls, batches that may fail
  half-way, no thread that waits with the lock held. `OneLeader`,
  `ParkedHasWaker`, `WaitersCounted`, and `CallsReturn`, under weak fairness of
  each registered thread's steps (the operating system schedules runnable
  threads) and of `WindowElapses` (time passes).

Three threads are enough for a leader, a follower of the same generation and a
late-comer that registers while the leader flushes; four calls allow a failed
flush, a successful one and a direct flush to overtake each other.

Limits the model shows. With a thread in `Exclusive`, `CallsReturn` fails:
`append_cluster_metadata_snapshot` waits for the group inside `topics.write()`
(`cluster_metadata.rs:165`), and a leader in `Broker::flush` needs that lock;
`broker_locks_unordered` has this circle too.
With `MidBatchErrors`, `OkMeansDurable` and `DirtyIsCounted` fail: a batch that
fails after its first record leaves records that `appends_since_flush` does not
count (`log.rs:181`), and the next flush is skipped.

### What is proved

`GroupCommitProofs.tla` proves, for any set of threads, any threshold and any
number of calls,

* `TypeCorrect`, `LeaderUnique` and `NoLostWakeup`: `TypeOK`, `OneLeader` and
  `ParkedHasWaker` are invariants, whatever fails;
* `OkIsDurable` and `SkippedFsyncIsSafe`: `OkMeansDurable` and `DirtyIsCounted`
  are invariants when no batch fails half-way.

The invariants are not inductive by themselves. A waiter decides on its result
from `flush_gen` and `last_error` alone, so the proof needs `DoneMeansDurable`:
if the generation has passed a waiter's ticket and no newer error is recorded,
its records are durable already. A leader that comes back from its flush loops
once more with its closure used up; `SpentHasFlushed` says that its generation
has then passed, so it returns and does not park. `TypeStep` and `InvStep` have
one step per action; the assumption is `GroupCommitAssumption` on the
constants. `WaitersCounted` (a cardinality) and `CallsReturn` (liveness) are
model-checked only.

## Replication

One partition over a cluster of brokers. `node[b]` is the state of a broker: its
handle of the partition (`leader`, `isr`, `epoch`, `hwm`, `follower_leo`,
`caught_up`), its assignment in memory and in `assignment.json`, its live set,
its epoch history and a report to send. An operation of the code is an operator
from such a record to such a record, and an action installs its result. An RPC
takes two steps: the callee handles the request, and later the caller handles
the answer (`fetch`, `heartbeat`, `pull`, `align`, `notes` hold what is on its
way), or never does. The ClusterState pull that a heartbeat answer starts is an
RPC of its own: the assignment it brings may be out of date when it is applied.

| Actions | Code |
| --- | --- |
| `produce_inner`, `ProduceAcked`, `ProduceTimesOut` | a produce and its wait for the high watermark |
| `ReplicaFetch`, `append_replica_records`, `ReplicaFetchFails` | the follower's loop, with `handle_replica_fetch` on the leader |
| `tick_cluster`, `HeartbeatSelf`, `HeartbeatPeer`, `HeartbeatAnswered`, `HeartbeatFails` | expiry, the mesh and the controller's alive set; a death runs `on_broker_death` |
| `cluster_state_snapshot`, `ClusterStateAnswered`, `ClusterStateFails` | the ClusterState pull of the mesh task |
| `ReportIsr`, `align_assignment_generation`, `AssignmentNote` | IsrUpdate reports with their answer; assignments pushed to peers |
| `elect_preferred_leader`, `create_topic_cluster` | administration that makes a new generation |
| `Crash`, `Restart` | a process dies and comes back from its log and `assignment.json` |

* `replication`: three replicas, `min_insync_replicas` 2, two records, the
  leader or the controller dies. `AckedOnLeader` and `TypeOK`. With `MaxLag` 2
  no follower can fall behind the lag limit here; what happens when one does is
  the subject of `replication_shrink`.
* `replication_faults`: two brokers, lost answers and pulls, false expiry, time
  lag, another topic, a crash of the leader and its return, one new generation.
  `HwmWithinLog`, `HwmMonotone`.
* `replication_admin`: two brokers, two crashes, each broker may die and return
  and each is the controller while the other is down; failover, rejoin,
  preferred election. `OneLeaderPerEpoch`, `HwmMonotone`.
* `replication_live`: three replicas, the leader or the controller dies.
  `LeadersConverge`, `ProduceDecided`.
* `replication_shrink`: the leader drops a lagging follower and confirms a record
  before the controller knows; if it dies then, the controller elects that
  follower and the record is gone. TLC finds `AckedOnLeader` violated, against
  `docs/consistency.md:43`.
* `replication_diverged`: the instance of `replication`, and what every ISR member
  is said to hold. The leader writes record 1, one follower fetches it, the leader
  dies, the other follower becomes leader and writes record 2 at the same offset.
  The follower with record 1 asks for the next offset, so record 2 counts as
  replicated and is confirmed, on one log. TLC finds `AckedOnIsr` violated,
  against "every ISR member has the data" (`docs/consistency.md:43`). The record
  still is on the leader, as `replication` shows.

Bounds: two records make a log that diverges; one crash makes a failover, and
two (with a restart) a failover, its return and a failover back; `MaxGeneration`
leaves room for a failover and an ISR report after it, in `replication_admin`
for an election more, and in `replication_live` for
all generations the run can make, so that the bound blocks no fair step.

Fairness: the background tasks of a running broker (fetch loop, tick, mesh,
report drain, produce poll) are loops that never end, so each is weakly fair;
the mesh visits every peer in turn, so a heartbeat of one broker to another is
strongly fair; an RPC between running brokers is answered
or fails. Clients, crashes and administration owe nothing. The formulas
are written with explicit enabling conditions.

Limits the model shows. With two crashes in a row `AckedOnLeader` fails: a
follower keeps records of a former leader and is compared by length only
(`cluster.rs:354`). With broker 1 restartable `LeadersConverge` fails: the
lowest id is its own controller again and pulls from nobody (`fanout.rs:88`);
with three brokers, two crashes and its return `OneLeaderPerEpoch` fails, since
it and the controller that replaced it have both made epoch 1.
With `MetaLeader = 3` it fails too: failover is decided by the lowest live id,
pulls go to the openraft leader (`cluster.rs:728`). With replicas `<<2, 3>>` and
broker 3 crashing, `ProduceDecided` fails: a leader that is not the controller
and expires its follower inside the heartbeat handler never drops it from the
ISR (`cluster.rs:381`). A restarted leader takes its log end for the high
watermark (`topic.rs:129`) and shows consumers what no other ISR member holds,
against `docs/consistency.md:22`. A late answer to an IsrUpdate report can move
the generation of a broker back (`cluster.rs:1247`), although
`cluster/state.rs:38` calls it monotonic, and brokers with equal generations can
hold different assignments. No property of the runs is about these last two.

Coarser than the code: an operation is one step although some let go of their
locks in between (`apply_local_assignment` works on a clone of the assignment);
logs start at 0 and have no holes; openraft is external, its leader fixed, and
off in all the runs (`MetaLeader = 0`).

## BrokerLocks

An operation is its lock script: the acquisitions it makes on the eight locks
that are held while another one is asked for, and the guards it drops in
between, read from the scopes in the code. `LockShared`, `ClaimExclusive` and
`LockExclusive` are `parking_lot`'s `RwLock`: a writer that waits keeps new
readers out, also one that reads already. With `GroupCommit` a wait for a group
commit is part of the script, as if the lead of that log's group were a lock:
whoever has it may take `topics` to flush, and the others wait for it. That is
coarser than `GroupCommit.tla` (a waiter may return without ever leading), and
sound for circles, because a follower cannot return before its leader has
flushed. There are two such groups, of the metadata topic's log and of another
partition's.

* `broker_locks`: two threads that run any of sixteen operations and a third that
  queues writers. `NoDeadlock`: no circle of threads that wait for each other.
  A circle through read guards needs a waiting writer, hence the third thread.
* `broker_locks_unordered`: the operations outside that order, two threads. TLC
  finds `NoDeadlock` violated: `metadata` reads `topics` under `assignment`
  (`cluster.rs:80`), `handle_replica_fetch` writes `assignment` under `topics`
  (`cluster.rs:278`). The set also holds the circle of `delete_topic`, which waits
  for the metadata log's commit inside `topics.write()`, and a `flush` that leads
  that commit and needs `topics`. Some circles take more threads than this run
  has: with three, `create_topic_cluster` (which keeps a read guard of the
  configuration over two write locks, `topics.rs:135`) beside `produce_inner` and
  `commit_membership_overlay`, or `describe_producers_for_partition`
  (`txn.rs:851`) beside `list_open_transactions` and `record_idempotent_produce`;
  with four, `handle_heartbeat_broker` and `cluster_state_snapshot` beside the
  writers `tick_cluster` and `apply_cluster_state` (`cluster.rs:387`).

`CHECK_DEADLOCK` stays on here: a thread can always call the next operation.
`group_commit_live` keeps it on too, with an explicit `Finished` step. The other
configurations switch it off because the bounds (records, crashes) end a
behaviour and, in `group_commit`, because a caller that waits with the log lock
held can hang.

## What is not modelled

Wire formats, compression, authentication, metrics and the command-line tools
have no state of their own that the properties above could be about. The
per-partition raft is openraft's. Transactions, consumer groups, DeleteRecords
over replicas, fetch sessions and streams are planned:

1. `Transactions`: open and prepared transactions, producer epochs, idempotent
   sequences, aborted ranges and the last stable offset, with the append and
   the bookkeeping as separate steps, timeouts, and restart from the persisted
   files. Properties: a batch is appended once, read-committed readers never
   see a record of an aborted transaction, a fenced epoch writes nothing.
2. `ConsumerGroup`: join with its parking, SyncGroup, heartbeat, leave, both
   kinds of expiry, offset commits and their fence; the assignors as functions
   against a reference definition. Properties: one owner per partition and
   generation, no commit from a former owner after its successor's, joins end.
   An abstract group specification that it implements.
3. `TruncateJournal`: notes to a majority, pushes, the outbox and reconcile.
   Properties: watermarks never fall, replicas converge, nothing below a
   confirmed watermark is served after failover.
4. `AssignmentConsensus`: pending and committed generations, the rollback of a
   missed majority; then composition with `Replication`.
5. `FetchSession` and the stream runtime's exactly-once step with crashes.
6. Proofs: `HwmWithinLog` and `HwmMonotone` of `Replication`; for `BrokerLocks`,
   that operations which follow one order of the locks never deadlock; the
   merge lemmas of the journal; the refinement of the group specification.

Liveness is checked by TLC only; TLAPS proves none of it.
