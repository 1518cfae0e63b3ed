---------------------------- MODULE PartitionLog ----------------------------
(***************************************************************************)
(* One partition log on disk (volant-storage/src/log.rs, segment.rs):      *)
(* appends and rolls, fsync, DeleteRecords, retention, key compaction, a   *)
(* crash between any two file operations, and PartitionLog::open.          *)
(*                                                                         *)
(* The caller holds the topics lock for a whole operation, so operations   *)
(* do not interleave; a crash may fall between their file operations, each *)
(* of which is one action.  A segment is full when the code says so by its *)
(* size; here a roll may happen at any append to a non-empty segment.      *)
(***************************************************************************)
EXTENDS Integers, Sequences, FiniteSets, SequencesExt, Functions

CONSTANTS
    Keys,         \* record keys
    NoKey,        \* a record without a key
    Vals,         \* record values
    Tombstone,    \* the empty value
    MaxOffset,    \* bound: no offset beyond it is assigned
    MaxCrashes,   \* bound: crashes in a behaviour
    CrashDuring,  \* the operations in the middle of which a crash may fall
    PowerLoss,    \* whether a crash also loses what was not fsynced
    CompactPolicy, \* config.compact (cleanup.policy=compact)
    None          \* no pending message, no compacted segment

ASSUME PartitionLogAssumption ==
    /\ NoKey \notin Keys
    /\ Tombstone \notin Vals
    /\ MaxOffset \in Nat
    /\ MaxCrashes \in Nat
    /\ CrashDuring \subseteq {"roll", "delete", "compact"}
    /\ PowerLoss \in BOOLEAN
    /\ CompactPolicy \in BOOLEAN

Offsets == 0..MaxOffset

Messages == [key : Keys \cup {NoKey}, val : Vals \cup {Tombstone}]

Records == [off : Offsets, key : Keys \cup {NoKey}, val : Vals \cup {Tombstone}]

VARIABLES
    \* the partition directory
    disk,         \* the .log files: base offset -> contents
    index,        \* base offsets that have an .index file
    \* PartitionLog
    segments,     \* Vec<Segment>: [base, next, sealed]
    next_offset,
    \* where the running operation is
    status,       \* "up", "down", or "failed" when open returned an error
    op,           \* the next file operation of the running call, or "idle"
    during,       \* which call is running
    queue,        \* base offsets of the segments still to be deleted
    message,      \* the message append_one writes after a roll
    compacted,    \* the segment in the .compact directory, or None
    \* history
    owed,         \* records that were fsynced and never dropped on purpose
    acked,        \* one past the largest offset that was ever fsynced
    crashes

vars == <<disk, index, segments, next_offset, status, op, during, queue,
          message, compacted, owed, acked, crashes>>

memory == <<segments, next_offset>>
files  == <<disk, index>>
ghosts == <<owed, acked, crashes>>

-----------------------------------------------------------------------------
\* A file holds a header and records; its first `synced` parts (the header
\* counts as one) are on stable storage.
Parts(f) == IF f.hdr THEN 1 + Len(f.recs) ELSE 0

NewFile == [hdr |-> FALSE, recs |-> <<>>, synced |-> 0]

Synced(f) == [f EXCEPT !.synced = Parts(f)]

\* What a crash leaves of a file: its first n parts.
Truncated(f, n) ==
    [hdr |-> n > 0, recs |-> SubSeq(f.recs, 1, n - 1), synced |-> f.synced]

\* Mutant of RecoveredNext: one offset too many.
RecoveredNextSkipsOne(base, f) ==
    IF f.recs = <<>> THEN base ELSE Last(f.recs).off + 2

\* recover_and_index: the offset after the last record of the valid prefix.
RecoveredNext(base, f) ==
    IF f.recs = <<>> THEN base ELSE Last(f.recs).off + 1

\* list_segment_bases: the .log files in the order of their base offsets.
Bases == SetToSortSeq(DOMAIN disk, <)

Active == Last(segments)

\* read_bytes from the log start: what the segments hold, in order.
ReadAll ==
    FlattenSeq([i \in DOMAIN segments |-> disk[segments[i].base].recs])

LogStart == IF segments = <<>> THEN 0 ELSE Head(segments).base

-----------------------------------------------------------------------------
\* Mutant of Latest: a tombstone is kept like any value.
LatestKeepsTombstones(recs) ==
    FoldLeft(LAMBDA latest, r :
                IF r.key = NoKey THEN latest
                ELSE {s \in latest : s.key # r.key} \cup {r},
             {}, recs)

\* compact_sealed: the newest value of every key; a tombstone removes the key;
\* records without a key stay.
Latest(recs) ==
    FoldLeft(LAMBDA latest, r :
                IF r.key = NoKey THEN latest
                ELSE LET others == {s \in latest : s.key # r.key}
                     IN  IF r.val = Tombstone THEN others ELSE others \cup {r},
             {}, recs)

Survivors(recs) ==
    SetToSortSeq(Latest(recs) \cup {r \in ToSet(recs) : r.key = NoKey},
                 LAMBDA r, s : r.off < s.off)

\* What compaction may drop, said without the algorithm: a keyed record with a
\* newer record of its key among the sealed ones, and tombstones.
Droppable(recs) ==
    {r \in ToSet(recs) :
        /\ r.key # NoKey
        /\ \/ r.val = Tombstone
           \/ \E s \in ToSet(recs) : s.key = r.key /\ s.off > r.off}

-----------------------------------------------------------------------------
\* Append.

\* Segment::append of the next message: one record at next_offset.
WriteRecord(m, segs) ==
    LET r == [off |-> next_offset, key |-> m.key, val |-> m.val]
        b == Last(segs).base
    IN  /\ disk' = [disk EXCEPT ![b].recs = Append(@, r)]
        /\ segments' = [segs EXCEPT ![Len(segs)].next = next_offset + 1]
        /\ next_offset' = next_offset + 1

Ready == status = "up" /\ op = "idle"

\* append_one without a roll.
AppendOne(m) ==
    /\ Ready
    /\ next_offset < MaxOffset
    /\ segments # <<>>
    /\ ~Active.sealed
    /\ WriteRecord(m, segments)
    /\ UNCHANGED <<index, status, op, during, queue, message, compacted, ghosts>>

\* append_one with needs_roll: roll seals the active segment, which fsyncs it.
RollSeal(m) ==
    /\ Ready
    /\ next_offset < MaxOffset
    /\ segments # <<>>
    /\ Active.next # Active.base
    /\ segments' = [segments EXCEPT ![Len(segments)].sealed = TRUE]
    /\ disk' = [disk EXCEPT ![Active.base] = Synced(@)]
    /\ owed' = owed \cup ToSet(disk[Active.base].recs)
    /\ acked' = IF acked > next_offset THEN acked ELSE next_offset
    /\ op' = "create"
    /\ during' = "roll"
    /\ message' = m
    /\ UNCHANGED <<index, next_offset, status, queue, compacted, crashes>>

\* Segment::create_with_options: create_new of the .log file.
CreateLogFile ==
    /\ op = "create"
    /\ IF next_offset \in DOMAIN disk
       THEN /\ op' = "idle"
            /\ during' = "idle"
            /\ message' = None
            /\ UNCHANGED disk
       ELSE /\ disk' = [b \in DOMAIN disk \cup {next_offset} |->
                            IF b = next_offset THEN NewFile ELSE disk[b]]
            /\ op' = "header"
            /\ UNCHANGED <<during, message>>
    /\ UNCHANGED <<index, memory, status, queue, compacted, ghosts>>

\* The header, then create_new of the .index file; then the new segment is the
\* active one and a pending append writes its record.
CreateSegment ==
    LET segs == Append(segments, [base |-> next_offset, next |-> next_offset,
                                  sealed |-> FALSE])
        rec  == [off |-> next_offset, key |-> message.key, val |-> message.val]
    IN  /\ op = "header"
        /\ IF next_offset \in index
           THEN /\ disk' = [disk EXCEPT ![next_offset].hdr = TRUE]
                /\ UNCHANGED <<index, memory>>
           ELSE /\ index' = index \cup {next_offset}
                /\ IF message = None
                   THEN /\ segments' = segs
                        /\ disk' = [disk EXCEPT ![next_offset].hdr = TRUE]
                        /\ UNCHANGED next_offset
                   ELSE /\ disk' = [disk EXCEPT ![next_offset].hdr = TRUE,
                                                ![next_offset].recs = <<rec>>]
                        /\ segments' = [segs EXCEPT ![Len(segs)].next = @ + 1]
                        /\ next_offset' = next_offset + 1
        /\ op' = "idle"
        /\ during' = "idle"
        /\ message' = None
        /\ UNCHANGED <<status, queue, compacted, ghosts>>

\* Mutant of Flush: only the header and the first record reach the disk.
FlushFirstOnly ==
    /\ Ready
    /\ segments # <<>>
    /\ disk' = [disk EXCEPT ![Active.base].synced =
                    IF Parts(disk[Active.base]) > 2 THEN 2
                    ELSE Parts(disk[Active.base])]
    /\ owed' = owed \cup ToSet(disk[Active.base].recs)
    /\ acked' = IF acked > next_offset THEN acked ELSE next_offset
    /\ UNCHANGED <<index, memory, status, op, during, queue, message, compacted,
                   crashes>>

\* PartitionLog::flush: fsync of the active segment.
Flush ==
    /\ Ready
    /\ segments # <<>>
    /\ disk' = [disk EXCEPT ![Active.base] = Synced(@)]
    /\ owed' = owed \cup ToSet(disk[Active.base].recs)
    /\ acked' = IF acked > next_offset THEN acked ELSE next_offset
    /\ UNCHANGED <<index, memory, status, op, during, queue, message, compacted,
                   crashes>>

-----------------------------------------------------------------------------
\* DeleteRecords and retention.

\* Mutant of KeepFrom: segments that begin below the offset are dropped.
KeepFromByBase(before) ==
    CHOOSE n \in 0..Len(segments) :
        /\ \A i \in 1..n : segments[i].base < before
        /\ n < Len(segments) => segments[n + 1].base >= before

\* How many leading segments end at or below the offset.
KeepFrom(before) ==
    CHOOSE n \in 0..Len(segments) :
        /\ \A i \in 1..n : segments[i].next <= before
        /\ n < Len(segments) => segments[n + 1].next > before

\* The segments that KeepFrom gives leave the vector; their files are deleted
\* next.  The caller gave up the records below the offset, and no others.
Drop(before, what) ==
    LET n == KeepFrom(before)
    IN  /\ segments' = SubSeq(segments, n + 1, Len(segments))
        /\ queue' = [i \in 1..n |-> segments[i].base]
        /\ owed' = {r \in owed : r.off >= before}
        /\ op' = "deletelog"
        /\ during' = what

\* delete_records(before_offset).
DeleteRecords(before) ==
    /\ Ready
    /\ KeepFrom(before) > 0
    /\ Drop(before, "delete")
    /\ UNCHANGED <<files, next_offset, status, message, compacted, acked, crashes>>

\* apply_retention: the n oldest sealed segments are too old or too many, and
\* then compaction runs.
ApplyRetention(n) ==
    /\ Ready
    /\ n < Len(segments)
    /\ IF n = 0
       THEN /\ op' = "compact"
            /\ during' = "retention"
            /\ UNCHANGED <<segments, queue, owed>>
       ELSE Drop(segments[n + 1].base, "retention")
    /\ UNCHANGED <<files, next_offset, status, message, compacted, acked, crashes>>

\* Segment::delete_files: the .log file, then the .index file.
DeleteLogFile ==
    /\ op = "deletelog"
    /\ disk' = Restrict(disk, DOMAIN disk \ {Head(queue)})
    /\ op' = "deleteindex"
    /\ UNCHANGED <<index, memory, status, during, queue, message, compacted, ghosts>>

\* After the last file: delete_records recreates an active segment when none is
\* left, retention goes on to compaction, compaction moves its result.
DeleteIndexFile ==
    /\ op = "deleteindex"
    /\ index' = index \ {Head(queue)}
    /\ queue' = Tail(queue)
    /\ op' = CASE Tail(queue) # <<>>      -> "deletelog"
               [] compacted # None   -> "renamelog"
               [] segments = <<>>         -> "create"
               [] during = "retention"    -> "compact"
               [] OTHER                   -> "idle"
    /\ during' = IF op' = "idle" THEN "idle" ELSE during
    /\ UNCHANGED <<disk, memory, status, message, compacted, ghosts>>

-----------------------------------------------------------------------------
\* compact_sealed, at the end of apply_retention.

Sealed == SubSeq(segments, 1, Len(segments) - 1)

SealedRecords == FlattenSeq([i \in DOMAIN Sealed |-> disk[Sealed[i].base].recs])

NothingToCompact ==
    \/ ~CompactPolicy
    \/ Len(segments) < 2
    \/ SealedRecords = <<>>
    \/ Len(Sealed) = 1 /\ Len(Survivors(SealedRecords)) = Len(SealedRecords)

CompactNothing ==
    /\ op = "compact"
    /\ NothingToCompact
    /\ op' = "idle"
    /\ during' = "idle"
    /\ UNCHANGED <<files, memory, status, queue, message, compacted, ghosts>>

\* The survivors are written and sealed in the .compact directory, and the old
\* sealed segments leave the vector.
CompactWrite ==
    /\ op = "compact"
    /\ ~NothingToCompact
    /\ compacted' = [base |-> Head(segments).base,
                     recs |-> Survivors(SealedRecords)]
    /\ owed' = owed \ Droppable(SealedRecords)
    /\ queue' = [i \in DOMAIN Sealed |-> Sealed[i].base]
    /\ segments' = <<Active>>
    /\ op' = "deletelog"
    /\ during' = "compact"
    /\ UNCHANGED <<files, next_offset, status, message, acked, crashes>>

\* fs::rename of the .log file into the partition directory.
CompactRenameLog ==
    /\ op = "renamelog"
    /\ disk' = [b \in DOMAIN disk \cup {compacted.base} |->
                   IF b = compacted.base
                   THEN Synced([hdr |-> TRUE, recs |-> compacted.recs, synced |-> 0])
                   ELSE disk[b]]
    /\ op' = "renameindex"
    /\ UNCHANGED <<index, memory, status, during, queue, message, compacted, ghosts>>

\* Mutant of CompactRenameIndex: the compacted segment is pushed at the end.
CompactRenameIndexPushes ==
    /\ op = "renameindex"
    /\ index' = index \cup {compacted.base}
    /\ segments' = segments \o <<[base |-> compacted.base, next |-> Active.base,
                                  sealed |-> TRUE]>>
    /\ compacted' = None
    /\ op' = "idle"
    /\ during' = "idle"
    /\ UNCHANGED <<disk, next_offset, status, queue, message, ghosts>>

\* fs::rename of the .index file; the segment is opened, stretched to the active
\* base and put first.
CompactRenameIndex ==
    /\ op = "renameindex"
    /\ index' = index \cup {compacted.base}
    /\ segments' = <<[base |-> compacted.base, next |-> Active.base,
                      sealed |-> TRUE]>> \o segments
    /\ compacted' = None
    /\ op' = "idle"
    /\ during' = "idle"
    /\ UNCHANGED <<disk, next_offset, status, queue, message, ghosts>>

-----------------------------------------------------------------------------
\* Crash and restart.

\* The process dies, with the log open or after open has failed.  Rolls seal a
\* segment before they create the next one, so only the last file can hold
\* parts that are not on stable storage.  The .compact directory is never read
\* again.
Crash(n) ==
    /\ status # "down"
    /\ \/ op = "idle"
       \/ during \in CrashDuring
       \/ during = "retention" /\ "delete" \in CrashDuring
    /\ crashes < MaxCrashes
    /\ crashes' = crashes + 1
    /\ status' = "down"
    /\ IF DOMAIN disk = {}
       THEN n = 0 /\ UNCHANGED disk
       ELSE LET b == Last(Bases)
            IN  /\ n \in disk[b].synced..Parts(disk[b])
                /\ PowerLoss \/ n = Parts(disk[b])
                /\ disk' = [disk EXCEPT ![b] = Truncated(@, n)]
    /\ segments' = <<>>
    /\ next_offset' = 0
    /\ op' = "idle"
    /\ during' = "idle"
    /\ queue' = <<>>
    /\ message' = None
    /\ compacted' = None
    /\ UNCHANGED <<index, owed, acked>>

\* PartitionLog::open of an empty directory: a first segment at offset zero.
\* The log file and its header are written before create_new of the .index
\* file, which fails when a file of that name is left over.  A broker that
\* could not open the log tries again when it is started the next time.
OpenEmpty ==
    /\ status # "up"
    /\ DOMAIN disk = {}
    /\ disk' = [b \in {0} |-> [NewFile EXCEPT !.hdr = TRUE]]
    /\ index' = index \cup {0}
    /\ IF 0 \in index
       THEN status' = "failed" /\ UNCHANGED segments
       ELSE /\ segments' = <<[base |-> 0, next |-> 0, sealed |-> FALSE]>>
            /\ status' = "up"
    /\ UNCHANGED <<next_offset, op, during, queue, message, compacted, ghosts>>

\* The files are opened in the order of their bases, up to the first one that
\* has no header: there read_exact fails, and open with it.
Opened == {b \in DOMAIN disk : \A c \in DOMAIN disk : c <= b => disk[c].hdr}

RecoveredSegments ==
    [i \in DOMAIN Bases |-> [base |-> Bases[i],
                             next |-> RecoveredNext(Bases[i], disk[Bases[i]]),
                             sealed |-> i # Len(Bases)]]

\* "segment overlap": a segment ends beyond the base of the one after it.
Overlap(segs) == \E i \in 1..(Len(segs) - 1) : segs[i].next > segs[i + 1].base

\* Every opened segment is scanned, cut to its valid prefix and fsynced, and
\* its index written anew; the last one becomes the active segment.
OpenExisting ==
    /\ status # "up"
    /\ DOMAIN disk # {}
    /\ disk' = [b \in DOMAIN disk |-> IF b \in Opened THEN Synced(disk[b]) ELSE disk[b]]
    /\ index' = index \cup Opened
    /\ IF Opened # DOMAIN disk \/ Overlap(RecoveredSegments)
       THEN status' = "failed" /\ UNCHANGED memory
       ELSE /\ segments' = RecoveredSegments
            /\ next_offset' = Last(RecoveredSegments).next
            /\ status' = "up"
    /\ UNCHANGED <<op, during, queue, message, compacted, ghosts>>

-----------------------------------------------------------------------------
Init ==
    /\ disk = [b \in {0} |-> [NewFile EXCEPT !.hdr = TRUE]]
    /\ index = {0}
    /\ segments = <<[base |-> 0, next |-> 0, sealed |-> FALSE]>>
    /\ next_offset = 0
    /\ status = "up"
    /\ op = "idle"
    /\ during = "idle"
    /\ queue = <<>>
    /\ message = None
    /\ compacted = None
    /\ owed = {}
    /\ acked = 0
    /\ crashes = 0

Next ==
    \/ \E m \in Messages : AppendOne(m) \/ RollSeal(m)
    \/ CreateLogFile
    \/ CreateSegment
    \/ Flush
    \/ \E before \in Offsets : DeleteRecords(before)
    \/ \E n \in Offsets : ApplyRetention(n)
    \/ DeleteLogFile
    \/ DeleteIndexFile
    \/ CompactNothing
    \/ CompactWrite
    \/ CompactRenameLog
    \/ CompactRenameIndex
    \/ \E n \in 0..(MaxOffset + 1) : Crash(n)
    \/ OpenEmpty
    \/ OpenExisting

Spec == Init /\ [][Next]_vars
-----------------------------------------------------------------------------
\* Every variable has its type.
TypeOK ==
    /\ DOMAIN disk \subseteq Offsets
    /\ \A b \in DOMAIN disk :
          /\ disk[b].hdr \in BOOLEAN
          /\ ToSet(disk[b].recs) \subseteq Records
          /\ disk[b].synced \in 0..Parts(disk[b])
    /\ index \subseteq Offsets
    /\ \A s \in ToSet(segments) :
          s \in [base : Offsets, next : Offsets, sealed : BOOLEAN]
    /\ next_offset \in Offsets
    /\ status \in {"up", "down", "failed"}
    /\ op \in {"idle", "create", "header", "deletelog", "deleteindex", "compact",
              "renamelog", "renameindex"}
    /\ during \in {"idle", "roll", "delete", "retention", "compact"}
    /\ ToSet(queue) \subseteq Offsets
    /\ message \in Messages \cup {None}
    /\ compacted = None \/ compacted.base \in Offsets
    /\ owed \subseteq Records
    /\ acked \in Offsets
    /\ crashes \in 0..MaxCrashes

\* Whatever was fsynced and never dropped on purpose (DeleteRecords, retention,
\* a newer value of its key) can be read again: "Durable append log with crash
\* recovery".
DurableSurvives == Ready => owed \subseteq ToSet(ReadAll)

\* The vector of segments and the directory agree between operations, the
\* segments are in order and all but the last are sealed, and a read returns
\* offsets in increasing order below next_offset.
DiskMatchesMemory ==
    Ready =>
        /\ {s.base : s \in ToSet(segments)} = DOMAIN disk
        /\ segments # <<>> /\ Active.next = next_offset /\ ~Active.sealed
        /\ \A i \in 1..(Len(segments) - 1) :
              segments[i].sealed /\ segments[i].next <= segments[i + 1].base
        /\ \A i, j \in 1..Len(ReadAll) :
              i < j => ReadAll[i].off < ReadAll[j].off
        /\ \A r \in ToSet(ReadAll) : LogStart <= r.off /\ r.off < next_offset

\* An offset whose record was fsynced is never assigned again: "Recreate an
\* empty active segment at the high watermark".
OffsetsNotReused == Ready => acked <= next_offset

\* Wherever crashes fall, also inside a roll, a deletion or a compaction, they
\* leave no two overlapping segments: open fails for a file that has no header
\* yet, or for the .index file of a deleted first segment, and then the empty
\* log file it has just written makes the next open succeed.
OnlyKnownOpenErrors ==
    status = "failed" =>
        \/ \E b \in DOMAIN disk : ~disk[b].hdr
        \/ DOMAIN disk = {0} /\ disk[0].recs = <<>>

\* compact_sealed keeps one record per key, no tombstone, in offset order.
CompactedIsMinimal ==
    compacted # None =>
        /\ Droppable(compacted.recs) = {}
        /\ \A i, j \in DOMAIN compacted.recs :
              i < j => compacted.recs[i].off < compacted.recs[j].off
=============================================================================
