----------------------------- MODULE Recording -----------------------------
(* Segments on disk and their index (src/storage): Recorder with its         *)
(* RecordWriter, RecordIndex, the Indexer's queue and flush thread,          *)
(* StorageCleaner, a Playback client and CloudBackupService.  One channel is *)
(* recorded.  A statement of the index is one step, and so is the read of    *)
(* the id it gave to a row; the recorder, the cleaner, the flush threads and *)
(* the backup run between the statements of each other.  A path has the      *)
(* resolution of a second, as the clock here; sizes are in packets.          *)
EXTENDS Integers, Sequences, FiniteSets, SequencesExt

CONSTANTS
    SegmentDuration,    \* segment_duration_sec
    MaxSize, MaxAge,    \* max_size_gb and max_days of the quota
    CleanBatch,         \* rows the cleaner asks for at a time (5)
    kMaxRecentTasks,
    LastSecond,         \* bound: the clock
    MaxWrites,          \* bound: packets offered to the writer
    MaxSessions,        \* bound: recordings started
    MaxSegments,        \* bound: rows ever inserted
    MaxTriggers,        \* bound: event triggers
    MaxScans            \* bound: backup scans

ASSUME RecordingAssumption ==
    /\ SegmentDuration \in Nat \ {0} /\ MaxSize \in Nat /\ MaxAge \in Nat
    /\ CleanBatch \in Nat \ {0} /\ kMaxRecentTasks \in Nat
    /\ LastSecond \in Nat /\ MaxWrites \in Nat /\ MaxSessions \in Nat
    /\ MaxSegments \in Nat
    /\ MaxTriggers \in Nat /\ MaxScans \in Nat

NoPath == -1            \* a path is the second it was made in
NoSegment == -1

VARIABLES
    second,             \* the clock
    writes, sessions,   \* packets offered, recordings started
    recorder,           \* entry of recorders_, with its writer
    rows,               \* table recording_segments: id -> row
    nextRow,            \* its AUTOINCREMENT
    markers,            \* table recording_events
    nextEvent,          \* its AUTOINCREMENT
    last_insert_rowid,  \* of the one connection, whatever the table
    pending_ops_,       \* Indexer's queue
    flushing,           \* flusher -> operations it has taken
    indexing,           \* Indexer::running_
    files,              \* path -> packets in the file
    cleaner,            \* StorageCleaner's thread
    playback,           \* a client's Playback object
    backup,             \* CloudBackupService
    finalized,          \* history: rows whose end has been written
    misread             \* history: ids given to the recorder for another row

writerVars == <<second, writes, sessions, recorder>>
eventVars == <<markers, nextEvent>>
indexVars == <<rows, nextRow, eventVars, last_insert_rowid, finalized, misread>>
queueVars == <<pending_ops_, flushing, indexing>>
recVars == <<writerVars, indexVars, queueVars, files, cleaner, playback,
             backup>>

(* `inserted` is the row whose id the recorder has still to read.            *)
NotRecording == [recording |-> FALSE, segment |-> NoSegment,
                 inserted |-> NoSegment, open |-> FALSE, path |-> NoPath,
                 startPts |-> 0, total |-> 0]
CleanerIdle == [pc |-> "idle", total |-> 0, todo |-> <<>>, path |-> NoPath]
PlaybackIdle == [state |-> "kIdle", segments |-> <<>>, current |-> 1,
                 file |-> NoPath]
BackupOff == [running |-> "off", backend |-> FALSE, mode |-> "kEventOnly",
              scan |-> "none", left |-> {}, recent |-> 0, scans |-> 0]

-----------------------------------------------------------------------------
(* RecordIndex: queries.                                                    *)

Before(r, s) == \/ r.start_time < s.start_time
                \/ r.start_time = s.start_time /\ r.id < s.id

(* ORDER BY start_time: the k-th row is the one with k - 1 rows before it.  *)
ByStart(S) ==
    [k \in 1..Cardinality(S) |->
        CHOOSE r \in S : Cardinality({s \in S : Before(s, r)}) = k - 1]

AllRows == {rows[i] : i \in DOMAIN rows}

QuerySegments(from, to) ==
    ByStart({r \in AllRows : r.start_time <= to /\ r.end_time >= from})

QueryEvents(from, to) == {e \in markers : e.time >= from /\ e.time <= to}

GetChannelTotalSize == FoldSet(LAMBDA r, n : n + r.file_size, 0, AllRows)

(* Mutant: ORDER BY start_time DESC.                                        *)
GetNewestSegments(count) ==
    LET all == Reverse(ByStart(AllRows))
    IN  SubSeq(all, 1, IF Len(all) < count THEN Len(all) ELSE count)

GetOldestSegments(count) ==
    LET all == ByStart(AllRows)
    IN  SubSeq(all, 1, IF Len(all) < count THEN Len(all) ELSE count)

(* HandleGetTimeline: each segment with the events of its time span.        *)
Timeline(from, to) ==
    LET segments == QuerySegments(from, to)
    IN  [k \in DOMAIN segments |->
            [id |-> segments[k].id,
             events |-> {e \in QueryEvents(from, to) :
                            /\ e.time >= segments[k].start_time
                            /\ e.time <= segments[k].end_time}]]

-----------------------------------------------------------------------------
(* RecordIndex: statements.                                                 *)

InsertSegment(path) ==
    /\ rows' = [i \in DOMAIN rows \union {nextRow} |->
                   IF i \in DOMAIN rows THEN rows[i]
                   ELSE [id |-> nextRow, start_time |-> second,
                         end_time |-> second, file_path |-> path,
                         file_size |-> 0]]
    /\ nextRow' = nextRow + 1 /\ last_insert_rowid' = nextRow

UpdateSegmentEnd(op) ==
    /\ rows' = IF op.segment \in DOMAIN rows
               THEN [rows EXCEPT ![op.segment] =
                       [@ EXCEPT !.end_time = op.time, !.file_size = op.size]]
               ELSE rows
    /\ finalized' = finalized \union {op.segment}
    /\ UNCHANGED <<nextRow, eventVars, last_insert_rowid, misread>>

InsertEvent(op) ==
    /\ markers' = markers \union {[segment |-> op.segment, time |-> op.time]}
    /\ nextEvent' = nextEvent + 1 /\ last_insert_rowid' = nextEvent
    /\ UNCHANGED <<rows, nextRow, finalized, misread>>

(* The row and its events go.                                               *)
DeleteSegment(id) ==
    /\ rows' = [i \in DOMAIN rows \ {id} |-> rows[i]]
    /\ markers' = {e \in markers : e.segment # id}
    /\ UNCHANGED <<nextRow, nextEvent, last_insert_rowid, finalized, misread>>

-----------------------------------------------------------------------------
(* Recorder and RecordWriter.  mutex_ is held from the INSERT of a row to    *)
(* the read of its id, which no lock of the index covers.                    *)

Unlocked == recorder.inserted = NoSegment

StartRecording ==
    /\ Unlocked /\ ~recorder.recording /\ sessions < MaxSessions
    /\ sessions' = sessions + 1
    /\ recorder' = [NotRecording EXCEPT !.recording = TRUE]
    /\ UNCHANGED <<second, writes, indexVars, queueVars, files, cleaner,
                   playback, backup>>

QueueOp(type, segment, size) ==
    Append(pending_ops_, [type |-> type, segment |-> segment,
                          time |-> second, size |-> size])

(* Mutant: the end is the start of the segment.                             *)
FinalizeAtStart(segment, total) ==
    IF segment = NoSegment THEN pending_ops_
    ELSE Append(pending_ops_, [type |-> "update", segment |-> segment,
             time |-> IF segment \in DOMAIN rows THEN rows[segment].start_time
                      ELSE second,
             size |-> total])

FinalizeSegment(segment, total) ==
    IF segment = NoSegment THEN pending_ops_
    ELSE QueueOp("update", segment, total)

(* Also the body of StopAll for each channel.                               *)
StopRecording ==
    /\ Unlocked /\ recorder.recording
    /\ pending_ops_' = FinalizeSegment(recorder.segment, recorder.total)
    /\ recorder' = NotRecording
    /\ UNCHANGED <<second, writes, sessions, indexVars, flushing, indexing, files,
                   cleaner, playback, backup>>

(* Whether RecordWriter::WriteFrame opens a file for this packet: the first *)
(* keyframe, or a keyframe after the duration of the segment.               *)
OpensSegment(pts, key) ==
    key /\ (~recorder.open \/ pts - recorder.startPts >= SegmentDuration)

(* OpenSegment fails: the path has changed and no file is open.             *)
OpenFails(pts) ==
    /\ Unlocked /\ recorder.recording
    /\ OpensSegment(pts, TRUE) /\ writes < MaxWrites
    /\ writes' = writes + 1
    /\ recorder' = [recorder EXCEPT !.open = FALSE, !.path = second]
    /\ UNCHANGED <<second, sessions, indexVars, queueVars, files, cleaner,
                   playback, backup>>

(* The file of a new segment; one of the same second is truncated.          *)
OpenSegment(written) ==
    [p \in DOMAIN files \union {second} |->
        IF p = second THEN written ELSE files[p]]

(* av_interleaved_write_frame fails on the first packet of a segment: the   *)
(* caller returns before it looks at the path.                              *)
WriteFails(pts) ==
    /\ Unlocked /\ recorder.recording
    /\ OpensSegment(pts, TRUE) /\ writes < MaxWrites
    /\ writes' = writes + 1
    /\ recorder' = [recorder EXCEPT !.open = TRUE, !.path = second,
                                    !.startPts = pts]
    /\ files' = OpenSegment(0)
    /\ UNCHANGED <<second, sessions, indexVars, queueVars, cleaner, playback,
                   backup>>

(* Mutant: the new row is inserted before the old one is finalized.         *)
NewSegmentFirst(total) ==
    /\ InsertSegment(second)
    /\ pending_ops_' = IF recorder.path = NoPath THEN pending_ops_
                       ELSE FinalizeSegment(nextRow, total)

NewSegment(total) ==
    /\ InsertSegment(second)
    /\ pending_ops_' = IF recorder.path = NoPath THEN pending_ops_
                       ELSE FinalizeSegment(recorder.segment, total)

(* A packet is written.  A new segment is noticed by its path, after its    *)
(* first packet has been counted; its row is inserted.                      *)
WriteFrame(pts, key) ==
    LET opens == OpensSegment(pts, key)
        path == IF opens THEN second ELSE recorder.path
        total == recorder.total + 1
        rotated == path # recorder.path
    IN  /\ Unlocked /\ recorder.recording /\ (recorder.open \/ opens)
        /\ writes < MaxWrites /\ (rotated => nextRow <= MaxSegments)
        /\ writes' = writes + 1
        /\ recorder' = [recorder EXCEPT
                          !.open = TRUE, !.path = path, !.total = total,
                          !.startPts = IF opens THEN pts ELSE @,
                          !.segment = IF rotated THEN NoSegment ELSE @,
                          !.inserted = IF rotated THEN nextRow ELSE @]
        /\ files' = IF opens THEN OpenSegment(1)
                    ELSE [p \in DOMAIN files |->
                            files[p] + IF p = path THEN 1 ELSE 0]
        /\ IF rotated THEN NewSegment(total)
           ELSE UNCHANGED <<rows, nextRow, last_insert_rowid, pending_ops_>>
        /\ UNCHANGED <<second, sessions, eventVars, finalized, misread,
                       flushing, indexing, cleaner, playback, backup>>

(* sqlite3_last_insert_rowid after the INSERT: the id of the last row that   *)
(* any thread inserted, in any table.                                        *)
ReadRowId ==
    /\ recorder.inserted # NoSegment
    /\ recorder' = [recorder EXCEPT !.segment = last_insert_rowid,
                                    !.inserted = NoSegment]
    /\ misread' = misread \union ({last_insert_rowid} \ {recorder.inserted})
    /\ UNCHANGED <<second, writes, sessions, rows, nextRow, eventVars,
                   last_insert_rowid, finalized, queueVars, files, cleaner,
                   playback, backup>>

TriggerEventRecording ==
    /\ Unlocked /\ recorder.recording
    /\ Len(SelectSeq(pending_ops_, LAMBDA o : o.type = "event"))
          + nextEvent <= MaxTriggers
    /\ pending_ops_' = QueueOp("event", recorder.segment, 0)
    /\ UNCHANGED <<writerVars, indexVars, flushing, indexing, files, cleaner,
                   playback, backup>>

-----------------------------------------------------------------------------
(* Indexer.  The flush thread and any caller of Flush take the whole queue  *)
(* and apply it without a lock.                                             *)

Flushers == {"loop", "caller"}

IndexerStart ==
    /\ ~indexing
    /\ indexing' = TRUE
    /\ UNCHANGED <<writerVars, indexVars, pending_ops_, flushing, files,
                   cleaner, playback, backup>>

(* FlushPending takes the queue: FlushLoop after a time-out or a full batch *)
(* while the indexer runs, a caller of Flush or of Stop at any time.        *)
FlushPending(f) ==
    /\ pending_ops_ # <<>> /\ flushing[f] = <<>>
    /\ f = "loop" => indexing
    /\ flushing' = [flushing EXCEPT ![f] = pending_ops_]
    /\ pending_ops_' = <<>>
    /\ UNCHANGED <<writerVars, indexVars, indexing, files, cleaner, playback,
                   backup>>

ApplyOp(f) ==
    /\ flushing[f] # <<>>
    /\ LET op == Head(flushing[f])
       IN  IF op.type = "update" THEN UpdateSegmentEnd(op) ELSE InsertEvent(op)
    /\ flushing' = [flushing EXCEPT ![f] = Tail(@)]
    /\ UNCHANGED <<writerVars, pending_ops_, indexing, files, cleaner,
                   playback, backup>>

(* Stop returns when the thread has left and takes what is queued then.     *)
IndexerStop ==
    /\ indexing /\ flushing["loop"] = <<>> /\ flushing["caller"] = <<>>
    /\ indexing' = FALSE
    /\ flushing' = [flushing EXCEPT !["caller"] = pending_ops_]
    /\ pending_ops_' = <<>>
    /\ UNCHANGED <<writerVars, indexVars, files, cleaner, playback, backup>>

-----------------------------------------------------------------------------
(* StorageCleaner: RunCleanup for the channel with a quota.                 *)

CleanerGoto(pc) == cleaner' = [cleaner EXCEPT !.pc = pc]

CleanerRest == <<writerVars, queueVars, playback, backup>>

CleanBegin ==
    /\ cleaner.pc = "idle"
    /\ cleaner' = [cleaner EXCEPT
          !.total = GetChannelTotalSize,
          !.pc = IF GetChannelTotalSize * 10 > MaxSize * 9 THEN "size"
                                                           ELSE "age"]
    /\ UNCHANGED <<CleanerRest, indexVars, files>>

(* Until the total is under 80%, by batches.                                *)
CleanFetch ==
    /\ cleaner.pc = "size"
    /\ cleaner' = IF cleaner.total * 10 > MaxSize * 8 /\ DOMAIN rows # {}
                  THEN [cleaner EXCEPT !.pc = "sizeDelete",
                                       !.todo = GetOldestSegments(CleanBatch)]
                  ELSE [cleaner EXCEPT !.pc = "age"]
    /\ UNCHANGED <<CleanerRest, indexVars, files>>

CleanAge ==
    /\ cleaner.pc = "age"
    /\ cleaner' = [cleaner EXCEPT !.pc = "ageDelete",
                                  !.todo = QuerySegments(0, second - MaxAge)]
    /\ UNCHANGED <<CleanerRest, indexVars, files>>

(* The row first, its file in the next step.                                *)
CleanDelete ==
    /\ cleaner.pc \in {"sizeDelete", "ageDelete"}
    /\ cleaner.todo # <<>> /\ cleaner.path = NoPath
    /\ DeleteSegment(Head(cleaner.todo).id)
    /\ cleaner' = [cleaner EXCEPT !.path = Head(cleaner.todo).file_path]
    /\ UNCHANGED <<CleanerRest, files>>

(* The total goes down only when remove reports no error; a file that is    *)
(* not there is none.                                                       *)
CleanRemove(ok) ==
    /\ cleaner.path # NoPath
    /\ files' = IF ok THEN [p \in DOMAIN files \ {cleaner.path} |-> files[p]]
                ELSE files
    /\ cleaner' = [cleaner EXCEPT
          !.path = NoPath, !.todo = Tail(@),
          !.total = IF ok THEN @ - Head(cleaner.todo).file_size ELSE @]
    /\ UNCHANGED <<CleanerRest, indexVars>>

CleanBatchDone ==
    /\ cleaner.pc \in {"sizeDelete", "ageDelete"} /\ cleaner.todo = <<>>
    /\ cleaner' = IF cleaner.pc = "sizeDelete"
                  THEN [cleaner EXCEPT !.pc = "size"] ELSE CleanerIdle
    /\ UNCHANGED <<CleanerRest, indexVars, files>>

-----------------------------------------------------------------------------
(* Playback, used by one thread.                                            *)

PlaybackRest == <<writerVars, indexVars, queueVars, files, cleaner, backup>>

(* OpenSegmentFile of the k-th segment, `failed` being the state left when  *)
(* the file is gone.                                                        *)
AtSegment(segments, k, failed) ==
    LET there == k <= Len(segments) /\ segments[k].file_path \in DOMAIN files
    IN  [state |-> IF there THEN "kPlaying" ELSE failed,
         segments |-> segments, current |-> k,
         file |-> IF there THEN segments[k].file_path ELSE NoPath]

PlaybackOpen(from) ==
    /\ playback' = IF QuerySegments(from, second) = <<>>
                   THEN [PlaybackIdle EXCEPT !.state = "kError"]
                   ELSE AtSegment(QuerySegments(from, second), 1, "kError")
    /\ UNCHANGED PlaybackRest

PlaybackClose ==
    /\ playback' = PlaybackIdle
    /\ UNCHANGED PlaybackRest

(* Mutant: the state is not changed at the end of the last segment.         *)
AdvanceQuietly ==
    /\ playback.state = "kPlaying"
    /\ playback' = AtSegment(playback.segments, playback.current + 1,
                             "kPlaying")
    /\ UNCHANGED PlaybackRest

(* ReadNextPacket at the end of a file; reading a packet changes nothing    *)
(* modelled.  A file that was removed ends the playback.                    *)
ReadNextPacket ==
    /\ playback.state = "kPlaying"
    /\ playback' = AtSegment(playback.segments, playback.current + 1,
                             "kEndOfStream")
    /\ UNCHANGED PlaybackRest

(* A step pauses; a second step finds ReadNextPacket refusing.              *)
StepForward ==
    /\ playback.state = "kPlaying"
    /\ playback' = [playback EXCEPT !.state = "kPaused"]
    /\ UNCHANGED PlaybackRest

(* The segment that contains the time, else the last one that begins before *)
(* it, else the first.                                                      *)
SeekTarget(t) ==
    LET s == playback.segments
        inside == {k \in DOMAIN s : t >= s[k].start_time /\ t <= s[k].end_time}
        later == {k \in DOMAIN s : s[k].start_time > t}
    IN  IF inside # {} THEN Min(inside)
        ELSE IF later = {} THEN Len(s)
        ELSE IF Min(later) > 1 THEN Min(later) - 1 ELSE 1

(* Seek.  Without segments, or on the current segment after its file failed *)
(* to open, the code uses an index or a pointer that is not there.  When    *)
(* av_seek_frame fails the state of before comes back.                      *)
Seek(t, ok) ==
    /\ playback.state \notin {"kIdle", "undefined"}
    /\ LET k == SeekTarget(t)
           there == AtSegment(playback.segments, k, "kError")
       IN  playback' =
             IF k = 0 \/ (k = playback.current /\ playback.file = NoPath)
             THEN [playback EXCEPT !.state = "undefined"]
             ELSE IF k = playback.current
             THEN [playback EXCEPT !.state = IF ok THEN "kPlaying" ELSE @]
             ELSE IF ok \/ there.file = NoPath THEN there
             ELSE [there EXCEPT !.state = playback.state]
    /\ UNCHANGED PlaybackRest

-----------------------------------------------------------------------------
(* CloudBackupService.  mutex_ is held for a whole scan, by the loop or by  *)
(* a caller of TriggerBackup.                                               *)

BackupRest == <<writerVars, indexVars, queueVars, files, cleaner, playback>>

(* A failed Initialize leaves the backend behind.                           *)
BackupStart(ok) ==
    /\ backup.running = "off" /\ backup.scan = "none"
    /\ backup' = [backup EXCEPT !.backend = TRUE,
                                !.running = IF ok THEN "on" ELSE "off"]
    /\ UNCHANGED BackupRest

BackupStop ==
    /\ backup.running = "on"
    /\ backup' = [backup EXCEPT !.running = "stopping"]
    /\ UNCHANGED BackupRest

BackupJoin ==
    /\ backup.running = "stopping" /\ backup.scan # "loop"
    /\ backup' = [backup EXCEPT !.running = "off"]
    /\ UNCHANGED BackupRest

(* HandleUpdateBackupConfig and HandleTestBackupConnection wait for mutex_. *)
SetPolicy(mode) ==
    /\ backup.scan = "none"
    /\ backup' = [backup EXCEPT !.mode = mode]
    /\ UNCHANGED BackupRest

TestConnection ==
    /\ backup.scan = "none"
    /\ backup' = [backup EXCEPT !.backend = TRUE]
    /\ UNCHANGED BackupRest

ScanBegin(who) ==
    /\ backup.scan = "none" /\ backup.backend /\ backup.scans < MaxScans
    /\ who = "loop" => backup.running = "on"
    /\ backup' = [backup EXCEPT
          !.scan = who, !.scans = @ + 1,
          !.left = IF backup.mode = "kCustom" THEN {} ELSE DOMAIN files]
    /\ UNCHANGED BackupRest

(* UploadFile.  A file that the cleaner has removed since it was listed is  *)
(* entered without the test of the limit.                                   *)
UploadFile(path) ==
    /\ backup.scan # "none" /\ backup.running = "on"
    /\ path \in backup.left
    /\ backup' = [backup EXCEPT
          !.left = @ \ {path},
          !.recent = IF path \in DOMAIN files /\ @ + 1 > kMaxRecentTasks
                     THEN @ ELSE @ + 1]
    /\ UNCHANGED BackupRest

ScanEnd ==
    /\ backup.scan # "none"
    /\ backup.left = {} \/ backup.running # "on"
    /\ backup' = [backup EXCEPT !.scan = "none", !.left = {}]
    /\ UNCHANGED BackupRest

-----------------------------------------------------------------------------
NextSecond ==
    /\ second < LastSecond
    /\ second' = second + 1
    /\ UNCHANGED <<writes, sessions, recorder, indexVars, queueVars, files,
                   cleaner, playback, backup>>

(* The process dies: tables and files remain, the connection does not.      *)
RecordingCrash ==
    /\ last_insert_rowid' = 0
    /\ recorder' = NotRecording
    /\ pending_ops_' = <<>> /\ flushing' = [f \in Flushers |-> <<>>]
    /\ indexing' = FALSE
    /\ cleaner' = CleanerIdle /\ playback' = PlaybackIdle
    /\ backup' = [BackupOff EXCEPT !.scans = backup.scans]
    /\ UNCHANGED <<second, writes, sessions, rows, nextRow, eventVars,
                   finalized, misread, files>>

RecordingInit ==
    /\ second = 0 /\ writes = 0 /\ sessions = 0
    /\ recorder = NotRecording
    /\ rows = <<>> /\ nextRow = 1 /\ markers = {} /\ nextEvent = 1
    /\ last_insert_rowid = 0 /\ finalized = {} /\ misread = {}
    /\ pending_ops_ = <<>> /\ flushing = [f \in Flushers |-> <<>>]
    /\ indexing = FALSE
    /\ files = <<>>
    /\ cleaner = CleanerIdle /\ playback = PlaybackIdle /\ backup = BackupOff

RecorderNext ==
    \/ StartRecording \/ StopRecording \/ TriggerEventRecording
    \/ \E pts \in 0..SegmentDuration : \/ OpenFails(pts)
                                       \/ WriteFails(pts)
                                       \/ WriteFrame(pts, TRUE)
    \/ WriteFrame(0, FALSE) \/ ReadRowId

IndexerNext ==
    \/ IndexerStart \/ IndexerStop
    \/ \E f \in Flushers : FlushPending(f) \/ ApplyOp(f)

CleanerNext ==
    \/ CleanBegin \/ CleanFetch \/ CleanAge \/ CleanDelete \/ CleanBatchDone
    \/ \E ok \in BOOLEAN : CleanRemove(ok)

PlaybackNext ==
    \/ PlaybackClose \/ ReadNextPacket \/ StepForward
    \/ \E t \in 0..second : \/ PlaybackOpen(t)
                            \/ \E ok \in BOOLEAN : Seek(t, ok)

BackupNext ==
    \/ \E ok \in BOOLEAN : BackupStart(ok)
    \/ BackupStop \/ BackupJoin \/ TestConnection \/ ScanEnd
    \/ \E mode \in {"kFull", "kEventOnly", "kCustom"} : SetPolicy(mode)
    \/ \E who \in {"loop", "trigger"} : ScanBegin(who)
    \/ \E path \in backup.left : UploadFile(path)

RecordingNext ==
    \/ RecorderNext \/ IndexerNext \/ CleanerNext \/ PlaybackNext
    \/ BackupNext \/ NextSecond \/ RecordingCrash

RecordingSpec == RecordingInit /\ [][RecordingNext]_recVars

-----------------------------------------------------------------------------
(* StorageCleaner removes the oldest recordings first: when it removes a    *)
(* row for its size, no older one is left, although the recorder inserts    *)
(* and the indexer updates rows between the query and the delete.           *)
OldestFirst ==
    [][cleaner.pc = "sizeDelete" =>
         \A gone \in DOMAIN rows \ DOMAIN rows' : \A i \in DOMAIN rows' :
             rows[gone].start_time <= rows[i].start_time]_recVars

(* A row whose end and size have been written keeps them: the two flushers  *)
(* may apply their batches in either order, so no segment may ever be       *)
(* finalized twice.  Only a row whose id was given to the recorder for      *)
(* another row (SegmentIdReturned) gets the end of that row as well.        *)
EndsKept ==
    [][\A i \in (finalized \ misread) \intersect DOMAIN rows
                                      \intersect DOMAIN rows' :
         rows'[i] = rows[i]]_recVars

(* The timeline shows an event at the segment it was recorded in, once that *)
(* segment is finalized, whatever the order in which queue, rotation and    *)
(* flushers put the two into the index.  The events recorded under an id    *)
(* that is another row's are excepted, with those of that row.              *)
EventsInTimeline ==
    \A e \in markers :
        e.segment \in (finalized \ misread) \intersect DOMAIN rows =>
            \E k \in DOMAIN Timeline(0, second) :
                /\ Timeline(0, second)[k].id = e.segment
                /\ e \in Timeline(0, second)[k].events

(* RecordIndex::InsertSegment, record_index.h:59: "Insert a new segment     *)
(* record. Returns segment ID."  The id of another row is returned when a   *)
(* flush thread inserts an event between the INSERT and the read.           *)
SegmentIdReturned == misread = {}

(* A Playback object that reports kPlaying or kPaused has a file open, even *)
(* when the cleaner removes segments it is about to reach.                  *)
PlayingHasFile ==
    playback.state \in {"kPlaying", "kPaused"} => playback.file # NoPath
=============================================================================
