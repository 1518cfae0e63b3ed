---------------------------- MODULE Replication ----------------------------
(***************************************************************************)
(* The replication of one partition over a cluster of Volant brokers: the  *)
(* leader's produce path and high watermark, the followers' ReplicaFetch   *)
(* loop, the in-sync replica set (ISR) kept by the leader, the heartbeat   *)
(* mesh with its liveness views, failover by the controller, and the ways  *)
(* an assignment reaches the other brokers: ClusterState pulls, pushed     *)
(* assignment notes, and leaders' IsrUpdate reports.                       *)
(*                                                                         *)
(* A broker is one record, node[b]; every operation of the code is an      *)
(* operator from such records to such records, and an action installs the  *)
(* result.  An operation is one step of its broker, although the code lets *)
(* go of its locks between the parts of some.  An RPC takes two steps: the *)
(* callee handles the request, and later the caller handles the answer, or *)
(* never does.                                                             *)
(*                                                                         *)
(* A process crash keeps what the log and assignment.json hold; the loss   *)
(* of unsynced log data is the subject of PartitionLog.                    *)
(***************************************************************************)
EXTENDS Integers, Sequences, FiniteSets, SequencesExt

CONSTANTS
    Brokers,        \* the configured broker ids, a set of positive numbers
    Replicas,       \* the partition's replica list, preferred leader first
    MinIsr,         \* min_insync_replicas
    MaxLag,         \* replica_lag_max_messages
    TimeLag,        \* whether replica_lag_max_ms is not 0
    MetaLeader,     \* 0: VOLANT_OPENRAFT_METADATA is off; otherwise the
                    \* broker that openraft has elected, for good
    Unreliable,     \* whether an RPC between running brokers can fail, and
                    \* a running broker miss its session timeout
    Crashable,      \* the brokers whose process may die
    Restartable,    \* the brokers whose process may come back
    MaxRecords,     \* bound on the records ever produced
    MaxCrashes,     \* bound on crashes
    MaxTopics,      \* bound on the topics created next to the modelled one
    MaxGeneration,  \* bound on the assignment generation
    None            \* a model value: no request in flight

ASSUME ReplicationAssumption ==
    /\ Brokers \subseteq Nat \ {0} /\ Brokers # {}
    /\ Replicas \in Seq(Brokers) /\ Replicas # <<>>
    /\ MinIsr \in Nat /\ MaxLag \in Nat /\ TimeLag \in BOOLEAN
    /\ MetaLeader \in Brokers \cup {0} /\ Unreliable \in BOOLEAN
    /\ Crashable \subseteq Brokers /\ Restartable \subseteq Brokers
    /\ MaxRecords \in Nat /\ MaxCrashes \in Nat /\ MaxTopics \in Nat
    /\ MaxGeneration \in Nat

VARIABLES
    up,        \* the brokers whose process runs
    log,       \* log[b]: the records b holds, oldest first; log[b][o + 1] is
               \* the one at offset o
    node,      \* node[b]: the rest of b's state, see NodeType
    fetch,     \* fetch[b]: the ReplicaFetch answer on its way to follower b
    heartbeat, \* heartbeat[b]: the HeartbeatBroker answer on its way to b
    pull,      \* pull[b]: the ClusterState request or answer of b's mesh task
    align,     \* align[b]: the generation an IsrUpdate answer carries to b
    notes,     \* notes[b]: the assignments pushed to b and not yet handled
    waiting,   \* acks=all produce requests that wait for the high watermark
    acked,     \* acks=all requests answered with success
    produced,  \* how many records have been produced
    topics,    \* how many other topics have been created
    crashes    \* how many crashes have happened

vars == <<up, log, node, fetch, heartbeat, pull, align, notes, waiting, acked,
          produced, topics, crashes>>

leo(b) == Len(log[b])

Min2(x, y) == IF x < y THEN x ELSE y
Max2(x, y) == IF x < y THEN y ELSE x

Records == 1 .. MaxRecords

(***************************************************************************)
(* assignment is the in-memory copy, saved is what assignment.json holds.  *)
(* others counts the other topics the assignment knows: it stands for the  *)
(* rest of the snapshot's content.                                         *)
(***************************************************************************)
AssignmentType ==
    [generation : 0 .. MaxGeneration, leader : Brokers, isr : Seq(Brokers),
     epoch : Nat, others : 0 .. MaxTopics]

ReportType == [leader : Brokers, epoch : Nat, isr : Seq(Brokers)]

\* A map with keys among the brokers: a HashMap of the code.
MapTo(S) == UNION {[K -> S] : K \in SUBSET Brokers}

PartitionType ==
    [leader : Brokers, isr : Seq(Brokers), epoch : Nat, hwm : 0 .. MaxRecords,
     follower_leo : MapTo(0 .. MaxRecords), caught_up : SUBSET Brokers]

-----------------------------------------------------------------------------
(***************************************************************************)
(* The partition handle: high watermark and in-sync set.  caught_up is the *)
(* domain of follower_caught_up_at.  How old a stamp is, is left open: T   *)
(* is the set of stamped members whose stamp has grown older than          *)
(* replica_lag_max_ms.                                                     *)
(***************************************************************************)
leo_of(p, leader_leo, id) ==
    IF id = p.leader THEN leader_leo
    ELSE IF id \in DOMAIN p.follower_leo THEN p.follower_leo[id] ELSE 0

\* A mutant: any ISR member counts instead of all of them.
recompute_hwm_any(p, leader_leo) ==
    IF p.isr = <<>> THEN p
    ELSE [p EXCEPT !.hwm =
            Max2(@, Max({leo_of(p, leader_leo, id) : id \in Range(p.isr)}))]

recompute_hwm(p, leader_leo) ==
    IF p.isr = <<>> THEN p
    ELSE [p EXCEPT !.hwm =
            Max2(@, Min({leo_of(p, leader_leo, id) : id \in Range(p.isr)}))]

\* A mutant: the sole member counts the record it is about to write.
catch_up_hwm_one_more(p, leader_leo) == [p EXCEPT !.hwm = Max2(@, leader_leo + 1)]

catch_up_hwm(p, leader_leo) == [p EXCEPT !.hwm = Max2(@, leader_leo)]

\* Both death handling and assignment overlay end with this choice.
advance_hwm(p, leader_leo) ==
    IF Len(p.isr) <= 1 THEN catch_up_hwm(p, leader_leo)
    ELSE recompute_hwm(p, leader_leo)

\* A lag that would be negative saturates at 0 in the code.
shrink_isr(p, isr, leader_leo) ==
    <<p.leader>> \o
        SelectSeq(isr, LAMBDA id : /\ id # p.leader
                                   /\ leader_leo - leo_of(p, leader_leo, id) <= MaxLag)

shrink_isr_by_time(p, isr, T) ==
    <<p.leader>> \o SelectSeq(isr, LAMBDA id : id # p.leader /\ id \notin T)

isr_rejoin_eligible(p, leader_leo, id) ==
    /\ id \in Range(Replicas)
    /\ leader_leo - leo_of(p, leader_leo, id) <= MaxLag
    /\ leo_of(p, leader_leo, id) >= p.hwm

\* A mutant: a member that is still in the set joins again.
expand_isr_twice(p, isr, leader_leo, id) ==
    IF id # p.leader /\ isr_rejoin_eligible(p, leader_leo, id) THEN Append(isr, id)
    ELSE isr

expand_isr(p, isr, leader_leo, id) ==
    IF id # p.leader /\ id \notin Range(isr) /\ isr_rejoin_eligible(p, leader_leo, id)
    THEN Append(isr, id)
    ELSE isr

reconcile_isr(p, leader_leo, id, T) ==
    expand_isr(p, shrink_isr_by_time(p, shrink_isr(p, p.isr, leader_leo), T),
               leader_leo, id)

\* The first replica, in the order of the replica list, that is in the ISR
\* and live; failing that, the first live member of the ISR.
elect_leader(isr, live) ==
    LET ordered == SelectSeq(Replicas, LAMBDA r : r \in Range(isr) \cap live)
        fallback == SelectSeq(isr, LAMBDA r : r \in live)
    IN  IF ordered # <<>> THEN Head(ordered)
        ELSE IF fallback # <<>> THEN Head(fallback) ELSE None

-----------------------------------------------------------------------------
(***************************************************************************)
(* Who is the controller.  The code has two answers: Membership, the       *)
(* lowest live id, and Broker::controller_id, the openraft leader when     *)
(* openraft is on.                                                         *)
(***************************************************************************)
membership_controller(n) == Min(n.live)

controller_id(n) == IF MetaLeader # 0 THEN MetaLeader ELSE membership_controller(n)

\* Start offsets of leader epochs: the first write for an epoch wins.
ensure_entry(epochs, epoch, start) ==
    IF epoch \in DOMAIN epochs THEN epochs
    ELSE [e \in DOMAIN epochs \cup {epoch} |-> IF e = epoch THEN start ELSE epochs[e]]

record_epoch_start(epochs, epoch, start) ==
    ensure_entry(ensure_entry(epochs, 0, 0), epoch, start)

Restricted(map, S) == [id \in DOMAIN map \cap S |-> map[id]]

(***************************************************************************)
(* apply_local_assignment on a running broker b: the partition takes over  *)
(* leader, ISR and epoch.  A leader keeps the members of its former ISR    *)
(* that are live, close enough and not behind the high watermark.          *)
(***************************************************************************)
\* A mutant: the handle starts afresh under a new assignment.
Overlay_afresh(p, a) ==
    [p EXCEPT !.leader = a.leader, !.isr = a.isr, !.epoch = a.epoch, !.hwm = 0]

Overlay(p, a) == [p EXCEPT !.leader = a.leader, !.isr = a.isr, !.epoch = a.epoch]

apply_local_assignment(n, b, T) ==
    LET p == Overlay(n.partition, n.assignment)
        kept == SelectSeq(n.partition.isr,
                    LAMBDA id : /\ id \notin Range(p.isr) /\ id # b /\ id \in n.live
                                /\ isr_rejoin_eligible(p, leo(b), id))
        isr == shrink_isr_by_time(p, shrink_isr(p, p.isr \o kept, leo(b)), T)
        led == [p EXCEPT !.isr = isr,
                         !.follower_leo = Restricted(@, Range(isr)),
                         !.caught_up = @ \cap Range(isr)]
    IN  [n EXCEPT !.partition =
            IF p.leader = b THEN advance_hwm(led, leo(b)) ELSE p]

\* An assignment snapshot from another broker, unless it is stale.
apply_cluster_state(n, b, a, T) ==
    IF a.generation < n.assignment.generation THEN n
    ELSE apply_local_assignment([n EXCEPT !.assignment = a, !.saved = a], b, T)

\* The controller's own changes: the next generation, saved.
NextGeneration(n) ==
    LET a == [n.assignment EXCEPT !.generation = @ + 1]
    IN  [n EXCEPT !.assignment = a, !.saved = a]

-----------------------------------------------------------------------------
(***************************************************************************)
(* A broker's death, as broker b sees it.  The IsrUpdate queue holds at    *)
(* most one report for a partition, the newest.                            *)
(***************************************************************************)
LocalReport(n) ==
    [leader |-> n.partition.leader, epoch |-> n.partition.epoch,
     isr |-> n.partition.isr]

\* The mirrored ISR is not saved, and the generation stays.
enqueue_isr_reports_for_local_leaders(n, b) ==
    IF n.partition.leader # b THEN n
    ELSE [n EXCEPT !.assignment.isr = n.partition.isr, !.report = LocalReport(n)]

shrink_local_isr_for_dead(n, b, dead) ==
    LET p == [n.partition EXCEPT
                 !.isr = SelectSeq(@, LAMBDA id : id # dead),
                 !.follower_leo = Restricted(@, Brokers \ {dead}),
                 !.caught_up = @ \ {dead}]
    IN  [n EXCEPT !.partition =
            IF p.isr # n.partition.isr /\ p.leader = b
            THEN advance_hwm(p, leo(b)) ELSE p]

\* The leader the controller's assignment names next, given the live set.
FailoverLeader(a, isr, live) ==
    IF a.leader \notin live /\ elect_leader(isr, live) # None
    THEN elect_leader(isr, live)
    ELSE a.leader

\* Mutants of FailOver: the new leader keeps the old epoch; the change does
\* not get a generation of its own.
FailOver_same_epoch(n, b, T) ==
    LET a == n.assignment
        isr == SelectSeq(a.isr, LAMBDA id : id \in n.live)
        moved == NextGeneration(
            [n EXCEPT !.assignment.isr = isr,
                      !.assignment.leader = FailoverLeader(a, isr, n.live)])
    IN  IF isr = <<>> \/ isr = a.isr THEN n ELSE apply_local_assignment(moved, b, T)

FailOver_same_generation(n, b, T) ==
    LET a == n.assignment
        isr == SelectSeq(a.isr, LAMBDA id : id \in n.live)
        leader == FailoverLeader(a, isr, n.live)
        moved == [n EXCEPT !.assignment.isr = isr, !.assignment.leader = leader,
                           !.assignment.epoch = IF leader = a.leader THEN @ ELSE @ + 1]
    IN  IF isr = <<>> \/ isr = a.isr THEN n ELSE apply_local_assignment(moved, b, T)

FailOver(n, b, T) ==
    LET a == n.assignment
        isr == SelectSeq(a.isr, LAMBDA id : id \in n.live)
        leader == FailoverLeader(a, isr, n.live)
        elected == leader # a.leader
        epoch == IF elected THEN a.epoch + 1 ELSE a.epoch
        moved == NextGeneration(
            [n EXCEPT !.assignment.isr = isr, !.assignment.leader = leader,
                      !.assignment.epoch = epoch,
                      !.epochs = IF elected
                                 THEN record_epoch_start(@, epoch, leo(b)) ELSE @])
    IN  IF isr = <<>> \/ (Len(isr) = Len(a.isr) /\ ~elected) THEN n
        ELSE apply_local_assignment(moved, b, T)

on_broker_death(n, b, dead, T) ==
    LET shrunk == shrink_local_isr_for_dead(
                      [n EXCEPT !.live = @ \ {dead}], b, dead)
    IN  IF membership_controller(shrunk) # b
        THEN enqueue_isr_reports_for_local_leaders(shrunk, b)
        ELSE FailOver(shrunk, b, T)

\* The deaths of a set of brokers, handled one after the other.
on_broker_deaths(n, b, dead, T) ==
    FoldLeft(LAMBDA m, d : on_broker_death(m, b, d, T), n,
             SetToSortSeq(dead, LAMBDA x, y : x < y))

-----------------------------------------------------------------------------
(***************************************************************************)
(* Initially the topic has been created and every broker has applied the   *)
(* assignment.  The creator, the controller, has seeded its epoch history. *)
(***************************************************************************)
FirstAssignment ==
    [generation |-> 1, leader |-> Head(Replicas), isr |-> Replicas, epoch |-> 0,
     others |-> 0]

Creator == IF MetaLeader # 0 THEN MetaLeader ELSE Min(Brokers)

Init ==
    /\ up = Brokers
    /\ log = [b \in Brokers |-> <<>>]
    /\ node = [b \in Brokers |->
           [partition |-> [leader |-> Head(Replicas), isr |-> Replicas, epoch |-> 0,
                           hwm |-> 0, follower_leo |-> <<>>, caught_up |-> {}],
            assignment |-> FirstAssignment, saved |-> FirstAssignment,
            live |-> Brokers, report |-> None,
            epochs |-> IF b = Creator THEN (0 :> 0) ELSE <<>>]]
    /\ fetch = [b \in Brokers |-> None]
    /\ heartbeat = [b \in Brokers |-> None]
    /\ pull = [b \in Brokers |-> None]
    /\ align = [b \in Brokers |-> None]
    /\ notes = [b \in Brokers |-> {}]
    /\ waiting = {} /\ acked = {}
    /\ produced = 0 /\ topics = 0 /\ crashes = 0

\* Installs b's new state, within the bound on generations.
Become(b, n) ==
    /\ n.assignment.generation <= MaxGeneration
    /\ node' = [node EXCEPT ![b] = n]

\* The members whose caught-up stamp may be too old, when time lag is on.
TimedOut(b) == IF TimeLag THEN SUBSET node[b].partition.caught_up ELSE {{}}

\* The peers whose session can have timed out at b.
Expirable(b) ==
    LET quiet == node[b].live \ {b}
    IN  IF Unreliable THEN quiet ELSE quiet \ up

-----------------------------------------------------------------------------
(***************************************************************************)
(* Produce, with acks = 1 or acks = all, and the end of an acks=all wait.  *)
(* The wait polls the local high watermark; it looks at nothing else.      *)
(***************************************************************************)
produce_inner(b, all) ==
    LET p == node[b].partition
        next == leo(b) + 1
    IN  /\ b \in up /\ produced < MaxRecords
        /\ p.leader = b
        /\ all => Len(p.isr) >= MinIsr
        /\ log' = [log EXCEPT ![b] = Append(@, produced + 1)]
        /\ produced' = produced + 1
        /\ node' = [node EXCEPT ![b].partition =
               IF Len(p.isr) = 1 THEN catch_up_hwm(p, next) ELSE recompute_hwm(p, next)]
        /\ waiting' = IF all
               THEN waiting \cup {[broker |-> b, record |-> produced + 1, target |-> next]}
               ELSE waiting
        /\ UNCHANGED <<up, fetch, heartbeat, pull, align, notes, acked, topics, crashes>>

ProduceAcked(w) ==
    /\ node[w.broker].partition.hwm >= w.target
    /\ waiting' = waiting \ {w}
    /\ acked' = acked \cup {w}
    /\ UNCHANGED <<up, log, node, fetch, heartbeat, pull, align, notes, produced, topics,
                   crashes>>

ProduceTimesOut(w) ==
    /\ node[w.broker].partition.hwm < w.target
    /\ waiting' = waiting \ {w}
    /\ UNCHANGED <<up, log, node, fetch, heartbeat, pull, align, notes, acked, produced,
                   topics, crashes>>

-----------------------------------------------------------------------------
(***************************************************************************)
(* ReplicaFetch.  The leader takes the follower's fetch offset for its log *)
(* end, reconciles the ISR, advances the high watermark, mirrors the ISR   *)
(* into its assignment and answers with a batch from its log.  A changed   *)
(* ISR is the next generation at the controller, a report anywhere else.   *)
(***************************************************************************)
\* A mutant: the high watermark is left as it was.
Observe_only(p, f, from, leader_leo, T) ==
    [p EXCEPT !.follower_leo =
                  [id \in DOMAIN @ \cup {f} |-> IF id = f THEN from ELSE @[id]],
              !.isr = reconcile_isr(p, leader_leo, f, T)]

Observe(p, f, from, leader_leo, T) ==
    LET fresh == leader_leo - from <= MaxLag
        q == [p EXCEPT !.follower_leo =
                  [id \in DOMAIN @ \cup {f} |-> IF id = f THEN from ELSE @[id]],
                       !.caught_up = IF fresh THEN @ \cup {f} ELSE @]
        isr == reconcile_isr(q, leader_leo, f, IF fresh THEN T \ {f} ELSE T)
        joined == Range(isr) \ Range(p.isr)
    IN  recompute_hwm(
            [q EXCEPT !.isr = isr,
                      !.caught_up = IF isr = p.isr THEN @
                                    ELSE (@ \cup joined) \cap Range(isr)],
            leader_leo)

MirrorIsr(n, b) ==
    LET mirrored == [n EXCEPT !.assignment.isr = n.partition.isr]
    IN  IF n.assignment.isr = n.partition.isr THEN n
        ELSE IF controller_id(n) = b THEN NextGeneration(mirrored)
        ELSE [mirrored EXCEPT !.report = LocalReport(n)]

handle_replica_fetch(n, b, f, from, T) ==
    MirrorIsr([n EXCEPT !.partition = Observe(@, f, from, leo(b), T)], b)

\* The follower asks from its log end; size limits may cut the answer short.
ReplicaFetch(f) ==
    LET l == node[f].partition.leader
        from == leo(f)
    IN  /\ f \in up \cap Range(Replicas) /\ l \in up \ {f} /\ fetch[f] = None
        /\ node[l].partition.leader = l
        /\ \E T \in TimedOut(l) : Become(l, handle_replica_fetch(node[l], l, f, from, T))
        /\ \E end \in (IF from < leo(l) THEN from + 1 .. leo(l) ELSE {from}) :
               fetch' = [fetch EXCEPT ![f] =
                   [leader |-> l, epoch |-> node[l].partition.epoch, from |-> from,
                    records |-> SubSeq(log[l], from + 1, end)]]
        /\ UNCHANGED <<up, log, heartbeat, pull, align, notes, waiting, acked, produced,
                       topics, crashes>>

\* Records are appended only at the log end: after a gap error nothing is
\* written, but the epoch has been taken over.
append_replica_records(f) ==
    LET r == fetch[f]
        fits == r.from = leo(f)
        n == node[f]
        p == [n.partition EXCEPT !.epoch = r.epoch]
        grown == leo(f) + Len(r.records)
    IN  /\ r # None
        /\ fetch' = [fetch EXCEPT ![f] = None]
        /\ IF r.records = <<>> \/ n.partition.leader = f
           THEN UNCHANGED <<log, node>>
           ELSE /\ log' = [log EXCEPT ![f] = IF fits THEN @ \o r.records ELSE @]
                /\ node' = [node EXCEPT ![f].partition =
                       IF fits /\ Len(p.isr) <= 1 THEN catch_up_hwm(p, grown) ELSE p]
        /\ UNCHANGED <<up, heartbeat, pull, align, notes, waiting, acked, produced, topics,
                       crashes>>

ReplicaFetchFails(f) ==
    /\ fetch[f] # None
    /\ Unreliable \/ fetch[f].leader \notin up
    /\ fetch' = [fetch EXCEPT ![f] = None]
    /\ UNCHANGED <<up, log, node, heartbeat, pull, align, notes, waiting, acked, produced,
                   topics, crashes>>

-----------------------------------------------------------------------------
(***************************************************************************)
(* Membership.  tick_cluster expires silent peers on every broker; the     *)
(* handler of a heartbeat expires them too, but acts on it only when it is *)
(* the controller.                                                         *)
(***************************************************************************)
tick_cluster(b) ==
    /\ b \in up
    /\ \E dead \in SUBSET Expirable(b) \ {{}}, T \in TimedOut(b) :
           Become(b, on_broker_deaths([node[b] EXCEPT !.live = @ \ dead], b, dead, T))
    /\ UNCHANGED <<up, log, fetch, heartbeat, pull, align, notes, waiting, acked, produced,
                   topics, crashes>>

handle_heartbeat_broker(n, p, b, dead, T) ==
    LET seen == [n EXCEPT !.live = (@ \cup {b, p}) \ dead]
    IN  IF membership_controller(seen) = p
        THEN on_broker_deaths(seen, p, dead, T) ELSE seen

\* Before it visits its peers, the controller's mesh task calls its handler.
HeartbeatSelf(b) ==
    /\ b \in up /\ controller_id(node[b]) = b
    /\ \E dead \in SUBSET Expirable(b) \ {{}}, T \in TimedOut(b) :
           Become(b, handle_heartbeat_broker(node[b], b, b, dead, T))
    /\ UNCHANGED <<up, log, fetch, heartbeat, pull, align, notes, waiting, acked, produced,
                   topics, crashes>>

HeartbeatPeer(b, p) ==
    /\ b \in up /\ p \in up \ {b} /\ heartbeat[b] = None /\ pull[b] = None
    /\ \E dead \in SUBSET (Expirable(p) \ {b}), T \in TimedOut(p) :
           LET n == handle_heartbeat_broker(node[p], p, b, dead, T)
           IN  /\ Become(p, n)
               /\ heartbeat' = [heartbeat EXCEPT ![b] =
                      [peer |-> p, controller |-> membership_controller(n),
                       generation |-> n.assignment.generation, alive |-> n.live]]
    /\ UNCHANGED <<up, log, fetch, pull, align, notes, waiting, acked, produced, topics,
                   crashes>>

apply_controller_alive_set(n, b, alive, T) ==
    LET missing == (n.live \ {b}) \ alive
        m == on_broker_deaths(n, b, missing, T)
    IN  [m EXCEPT !.live = @ \cup alive \cup {b}]

(***************************************************************************)
(* The answer marks the peer live.  Only the controller's answer reconciles *)
(* the live set and, when it tells of a newer generation, makes the mesh   *)
(* task ask the peer for its ClusterState before it visits anybody else.   *)
(***************************************************************************)
HeartbeatAnswered(b) ==
    LET r == heartbeat[b]
        seen == [node[b] EXCEPT !.live = @ \cup {r.peer}]
        trusted == r.peer = controller_id(seen)
    IN  /\ r # None
        /\ heartbeat' = [heartbeat EXCEPT ![b] = None]
        /\ \E T \in TimedOut(b) :
               LET known == IF ~trusted THEN seen
                            ELSE [apply_controller_alive_set(seen, b, r.alive, T)
                                     EXCEPT !.live = @ \cup {r.controller}]
                   newer == trusted /\ r.generation > known.assignment.generation
               IN  /\ Become(b, known)
                   /\ pull' = [pull EXCEPT ![b] =
                          IF newer THEN [peer |-> r.peer, state |-> None] ELSE None]
        /\ UNCHANGED <<up, log, fetch, align, notes, waiting, acked, produced, topics,
                       crashes>>

\* The peer answers with its assignment, whatever generation the caller knows.
cluster_state_snapshot(b) ==
    /\ pull[b] # None
    /\ pull[b].state = None /\ pull[b].peer \in up
    /\ pull' = [pull EXCEPT ![b].state = node[pull[b].peer].assignment]
    /\ UNCHANGED <<up, log, node, fetch, heartbeat, align, notes, waiting, acked,
                   produced, topics, crashes>>

ClusterStateAnswered(b) ==
    /\ pull[b] # None
    /\ pull[b].state # None
    /\ \E T \in TimedOut(b) : Become(b, apply_cluster_state(node[b], b, pull[b].state, T))
    /\ pull' = [pull EXCEPT ![b] = None]
    /\ UNCHANGED <<up, log, fetch, heartbeat, align, notes, waiting, acked, produced,
                   topics, crashes>>

ClusterStateFails(b) ==
    /\ pull[b] # None
    /\ Unreliable \/ pull[b].peer \notin up
    /\ pull' = [pull EXCEPT ![b] = None]
    /\ UNCHANGED <<up, log, node, fetch, heartbeat, align, notes, waiting, acked,
                   produced, topics, crashes>>

HeartbeatFails(b) ==
    /\ heartbeat[b] # None
    /\ Unreliable \/ heartbeat[b].peer \notin up
    /\ heartbeat' = [heartbeat EXCEPT ![b] = None]
    /\ UNCHANGED <<up, log, node, fetch, pull, align, notes, waiting, acked, produced,
                   topics, crashes>>

-----------------------------------------------------------------------------
(***************************************************************************)
(* IsrUpdate reports.  The controller checks leader and epoch, takes over  *)
(* the ISR and pushes the assignment; the reporter later aligns its own    *)
(* generation with the answer, without looking at its current one.         *)
(***************************************************************************)
IsrUpdateAccepted(n, c, r) ==
    /\ controller_id(n) = c
    /\ r.leader \in Range(r.isr)
    /\ n.assignment.leader = r.leader /\ n.assignment.epoch <= r.epoch

apply_leader_isr_update(n, c, r) ==
    LET isr == <<r.leader>> \o
            SelectSeq(r.isr, LAMBDA id : id # r.leader /\ id \in Range(Replicas))
    IN  IF ~IsrUpdateAccepted(n, c, r) \/ n.assignment.isr = isr THEN n
        ELSE NextGeneration([n EXCEPT !.assignment.isr = isr])

\* Assignment consensus notes go to the live peers; openraft's SetAssignment
\* goes to every broker, but only its leader can write it.
PushTargets(c, n) ==
    IF MetaLeader = 0 THEN n.live \ {c}
    ELSE IF c = MetaLeader THEN Brokers ELSE {}

Push(c, n) ==
    notes' = [b \in Brokers |->
                  IF b \in PushTargets(c, n) THEN notes[b] \cup {n.assignment}
                  ELSE notes[b]]

\* The report leaves the queue; it is lost when the controller is not there.
ReportIsr(b) ==
    LET r == node[b].report
        c == controller_id(node[b])
        n == apply_leader_isr_update(node[c], c, r)
        accepted == IsrUpdateAccepted(node[c], c, r)
        drained == [node EXCEPT ![b].report = None]
    IN  /\ b \in up /\ r # None
        /\ \/ /\ c = b
              /\ Become(b, apply_leader_isr_update(drained[b], b, r))
              /\ UNCHANGED <<align, notes>>
           \/ /\ c \in up \ {b} /\ align[b] = None
              /\ n.assignment.generation <= MaxGeneration
              /\ node' = [drained EXCEPT ![c] = n]
              /\ IF accepted
                 THEN /\ align' = [align EXCEPT ![b] = n.assignment.generation]
                      /\ Push(c, n)
                 ELSE UNCHANGED <<align, notes>>
           \/ /\ c \notin up \/ (Unreliable /\ c # b)
              /\ node' = drained
              /\ UNCHANGED <<align, notes>>
        /\ UNCHANGED <<up, log, fetch, heartbeat, pull, waiting, acked, produced, topics,
                       crashes>>

align_assignment_generation(b) ==
    LET a == [node[b].assignment EXCEPT !.generation = align[b]]
    IN  /\ align[b] # None
        /\ align' = [align EXCEPT ![b] = None]
        /\ node' = IF node[b].assignment.generation = align[b] THEN node
                   ELSE [node EXCEPT ![b].assignment = a, ![b].saved = a]
        /\ UNCHANGED <<up, log, fetch, heartbeat, pull, notes, waiting, acked, produced,
                       topics, crashes>>

\* A pushed assignment arrives: a consensus note, or an applied raft entry.
AssignmentNote(b) ==
    /\ b \in up
    /\ \E a \in notes[b], T \in TimedOut(b) :
           /\ Become(b, apply_cluster_state(node[b], b, a, T))
           /\ notes' = [notes EXCEPT ![b] = @ \ {a}]
    /\ UNCHANGED <<up, log, fetch, heartbeat, pull, align, waiting, acked, produced, topics,
                   crashes>>

-----------------------------------------------------------------------------
(***************************************************************************)
(* Administration: electing the preferred leader, and creating another     *)
(* topic, both followed by a push of the assignment.                       *)
(***************************************************************************)
elect_preferred_leader(c) ==
    LET n == node[c]
        a == n.assignment
        leader == elect_leader(a.isr, n.live)
        moved == NextGeneration(
            [n EXCEPT !.assignment.leader = leader, !.assignment.epoch = @ + 1,
                      !.epochs = record_epoch_start(@, a.epoch + 1, leo(c))])
    IN  /\ c \in up /\ membership_controller(n) = c
        /\ leader \notin {None, a.leader}
        /\ \E T \in TimedOut(c) : Become(c, apply_local_assignment(moved, c, T))
        /\ Push(c, moved)
        /\ UNCHANGED <<up, log, fetch, heartbeat, pull, align, waiting, acked, produced,
                       topics, crashes>>

create_topic_cluster(c) ==
    LET n == NextGeneration([node[c] EXCEPT !.assignment.others = @ + 1])
    IN  /\ c \in up /\ controller_id(node[c]) = c
        /\ topics < MaxTopics /\ topics' = topics + 1
        /\ Become(c, n)
        /\ Push(c, n)
        /\ UNCHANGED <<up, log, fetch, heartbeat, pull, align, waiting, acked, produced,
                       crashes>>

-----------------------------------------------------------------------------
(***************************************************************************)
(* Crash and restart.  A restarted broker believes that every configured   *)
(* broker is live, opens its partition with the high watermark at the log  *)
(* end, and takes the highest epoch of its saved history.                  *)
(***************************************************************************)
\* In-memory state is gone; the files keep the assignment and the epochs.
Stopped(n) ==
    [n EXCEPT !.assignment = n.saved, !.live = {}, !.report = None,
              !.partition.isr = <<>>, !.partition.hwm = 0,
              !.partition.follower_leo = <<>>, !.partition.caught_up = {}]

Crash(b) ==
    /\ b \in up \cap Crashable /\ crashes < MaxCrashes
    /\ crashes' = crashes + 1
    /\ up' = up \ {b}
    /\ node' = [node EXCEPT ![b] = Stopped(@)]
    /\ fetch' = [fetch EXCEPT ![b] = None]
    /\ heartbeat' = [heartbeat EXCEPT ![b] = None]
    /\ pull' = [pull EXCEPT ![b] = None]
    /\ align' = [align EXCEPT ![b] = None]
    /\ notes' = [notes EXCEPT ![b] = IF MetaLeader = 0 THEN {} ELSE @]
    /\ waiting' = {w \in waiting : w.broker # b}
    /\ UNCHANGED <<log, acked, produced, topics>>

OpenPartition(b, a) ==
    LET p == [leader |-> a.leader, isr |-> a.isr, epoch |-> a.epoch, hwm |-> leo(b),
              follower_leo |-> <<>>, caught_up |-> {}]
    IN  IF a.leader = b THEN advance_hwm(p, leo(b)) ELSE p

\* ensure_entry and the live epoch catch up with each other.
seed_missing_leader_epochs(n, b) ==
    LET seeded == IF DOMAIN n.epochs = {} THEN ensure_entry(n.epochs, 0, 0)
                  ELSE n.epochs
        last == Max(DOMAIN seeded)
    IN  [n EXCEPT !.partition.epoch = Max2(@, last),
                  !.epochs = IF n.partition.epoch > last
                             THEN ensure_entry(seeded, n.partition.epoch, leo(b))
                             ELSE seeded]

Restart(b) ==
    LET a == node[b].saved
        n == [node[b] EXCEPT !.assignment = a, !.live = Brokers,
                             !.partition = OpenPartition(b, a)]
    IN  /\ b \in Restartable \ up
        /\ up' = up \cup {b}
        /\ node' = [node EXCEPT ![b] = IF b \in Range(Replicas)
                        THEN seed_missing_leader_epochs(n, b) ELSE n]
        /\ UNCHANGED <<log, fetch, heartbeat, pull, align, notes, waiting, acked, produced,
                       topics, crashes>>

-----------------------------------------------------------------------------
Next ==
    \/ \E b \in Brokers, all \in BOOLEAN : produce_inner(b, all)
    \/ \E w \in waiting : ProduceAcked(w) \/ ProduceTimesOut(w)
    \/ \E b \in Brokers : \/ ReplicaFetch(b)
                          \/ append_replica_records(b)
                          \/ ReplicaFetchFails(b)
                          \/ tick_cluster(b)
                          \/ HeartbeatSelf(b)
                          \/ HeartbeatAnswered(b)
                          \/ HeartbeatFails(b)
                          \/ cluster_state_snapshot(b)
                          \/ ClusterStateAnswered(b)
                          \/ ClusterStateFails(b)
                          \/ ReportIsr(b)
                          \/ align_assignment_generation(b)
                          \/ AssignmentNote(b)
                          \/ elect_preferred_leader(b)
                          \/ create_topic_cluster(b)
                          \/ Crash(b)
                          \/ Restart(b)
    \/ \E b, p \in Brokers : HeartbeatPeer(b, p)

Spec == Init /\ [][Next]_vars

(***************************************************************************)
(* The background tasks of a running broker keep running: the ReplicaFetch *)
(* loop, the membership tick, the heartbeat mesh, which visits every peer  *)
(* in turn, the drain of reports, and the poll of a waiting produce.  RPCs *)
(* are answered, and a broker that may restart does.  Clients, crashes and *)
(* administration owe nothing.  For the larger actions the formulas WF and *)
(* SF are written out, with their enabling conditions.                     *)
(***************************************************************************)
CanFetch(b) ==
    LET l == node[b].partition.leader
    IN  /\ b \in up \cap Range(Replicas) /\ l \in up \ {b} /\ fetch[b] = None
        /\ node[l].partition.leader = l

CanHeartbeat(b, p) ==
    b \in up /\ p \in up \ {b} /\ heartbeat[b] = None /\ pull[b] = None

AcksOne(b) == \E w \in waiting : w.broker = b /\ ProduceAcked(w)

CanAck(b) == \E w \in waiting : w.broker = b /\ node[b].partition.hwm >= w.target

Fairness ==
    \A b \in Brokers :
        /\ WF_vars(Restart(b))
        /\ WF_vars(align_assignment_generation(b))
        /\ []<>~CanFetch(b) \/ []<><<ReplicaFetch(b)>>_vars
        /\ []<>(fetch[b] = None)
               \/ []<><<append_replica_records(b) \/ ReplicaFetchFails(b)>>_vars
        /\ []<>(b \notin up \/ Expirable(b) = {}) \/ []<><<tick_cluster(b)>>_vars
        /\ []<>(heartbeat[b] = None)
               \/ []<><<HeartbeatAnswered(b) \/ HeartbeatFails(b)>>_vars
        /\ []<>(pull[b] = None) \/ []<><<\/ cluster_state_snapshot(b)
                                         \/ ClusterStateAnswered(b)
                                         \/ ClusterStateFails(b)>>_vars
        /\ []<>(b \notin up \/ node[b].report = None) \/ []<><<ReportIsr(b)>>_vars
        /\ []<>(b \notin up \/ notes[b] = {}) \/ []<><<AssignmentNote(b)>>_vars
        /\ []<>~CanAck(b) \/ []<><<AcksOne(b)>>_vars
        /\ \A p \in Brokers :
               <>[]~CanHeartbeat(b, p) \/ []<><<HeartbeatPeer(b, p)>>_vars

FairSpec == Spec /\ Fairness

-----------------------------------------------------------------------------
(***************************************************************************)
(* Properties.                                                             *)
(***************************************************************************)

\* Every variable holds values of its type; ISR lists name no broker twice.
NodeType(n) ==
    /\ n.partition \in PartitionType
    /\ n.assignment \in AssignmentType /\ n.saved \in AssignmentType
    /\ n.live \subseteq Brokers
    /\ n.report \in ReportType \cup {None}
    /\ IsInjective(n.partition.isr) /\ IsInjective(n.assignment.isr)
    /\ \A e \in DOMAIN n.epochs : n.epochs[e] \in 0 .. MaxRecords

TypeOK ==
    /\ up \subseteq Brokers
    /\ log \in [Brokers -> Seq(Records)]
    /\ \A b \in Brokers : NodeType(node[b])
    /\ acked \subseteq [broker : Brokers, record : Records, target : Records]
    /\ waiting \subseteq [broker : Brokers, record : Records, target : Records]

Leads(b) == b \in up /\ node[b].partition.leader = b

Epoch(b) == node[b].partition.epoch

LatestLeader(b) == Leads(b) /\ \A c \in Brokers : Leads(c) => Epoch(c) <= Epoch(b)

\* A record whose acks=all produce was answered with success is in the log of
\* the leader with the highest epoch, at the offset the answer gave.
AckedOnLeader ==
    \A b \in Brokers : LatestLeader(b) =>
        \A w \in acked : leo(b) >= w.target /\ log[b][w.target] = w.record

\* A record whose acks=all produce was answered with success is in the log of
\* every running member of the in-sync set of the leader with the highest epoch.
AckedOnIsr ==
    \A b \in Brokers : LatestLeader(b) =>
        \A c \in Range(node[b].partition.isr) \cap up, w \in acked :
            leo(c) >= w.target /\ log[c][w.target] = w.record

\* No broker's high watermark passes the end of its own log, although it is
\* computed from the log ends that other brokers claim.
HwmWithinLog == \A b \in up : node[b].partition.hwm <= leo(b)

\* No two brokers lead in the same epoch.
OneLeaderPerEpoch ==
    \A b, c \in Brokers : Leads(b) /\ Leads(c) /\ Epoch(b) = Epoch(c) => b = c

\* The high watermark of a running broker never moves backwards, whatever
\* assignment, death or fetch it handles.
HwmMonotone ==
    [][\A b \in up \cap up' : node'[b].partition.hwm >= node[b].partition.hwm]_vars

\* In the end the running brokers agree on a leader, and it is running.
LeadersConverge ==
    <>[](\E l \in up : \A b \in up : node[b].partition.leader = l)

\* An acks=all produce does not wait for ever: its broker stops, or answers.
Waits(r) == \E w \in waiting : w.record = r

ProduceDecided == \A r \in Records : Waits(r) ~> ~Waits(r)
=============================================================================
