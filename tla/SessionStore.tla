---------------------------- MODULE SessionStore ----------------------------
(***************************************************************************)
(* The append-only JSONL log of one Session (crates/store/src/session.rs   *)
(* and factory.rs) under the transcript that owns it                       *)
(* (crates/kernel/src/runtime/session/transcript.rs).                      *)
(*                                                                         *)
(* Every mutation is one line.  A line goes through a BufWriter, so a      *)
(* failed write leaves bytes behind that the next flush completes; a sync  *)
(* makes what was flushed durable; a crash drops the buffer and, when the  *)
(* machine goes down, any unsynced suffix of the file.  Opening replays    *)
(* the lines, repairing a torn last one; but it first reads the file as    *)
(* text, and fails when some of the bytes are not: a line that stops       *)
(* inside a character, which is possible as lines hold any text.           *)
(*                                                                         *)
(* The header line is written and synced before the store exists and is    *)
(* left out.  Record identifiers are always fresh, so records only count.  *)
(* The Session has its main lane only.                                     *)
(***************************************************************************)
EXTENDS Naturals, Sequences, FiniteSets

CONSTANTS
    Entries,      \* identifiers of entries
    None,         \* the root of the tree: no entry
    Callers,      \* the parts of the kernel that use the transcript
    Failing,      \* the kinds of write that may fail: plain, commit, sync
    MaxSeq,       \* bound: mutations in the log, not counting those that undo one
    MaxFaults,    \* bound: failed writes and syncs
    MaxCrashes    \* bound: crashes

ASSUME StoreAssumption ==
    /\ None \notin Entries
    /\ Callers \subseteq {"run", "compaction", "queue", "settings", "rename",
                          "tree", "extension"}
    /\ Failing \subseteq {"plain", "commit", "sync"}
    /\ MaxSeq \in Nat /\ MaxFaults \in Nat /\ MaxCrashes \in Nat

VARIABLES
    store,        \* JsonlSessionStore and the file below it
    history,      \* SessionTranscriptState::history, as entry identifiers
    writeFailed,  \* SessionTranscriptState::write_failed
    live,         \* a runtime holds the store; otherwise it was sealed
    reply,        \* how the last tree navigation ended
    crashes       \* crashes left

vars == <<store, history, writeFailed, live, reply, crashes>>

(***************************************************************************)
(* Lines.                                                                  *)
(***************************************************************************)
Types == {"user", "reply", "custom", "summary", "compaction"}
Names == {"never", "title", "default", "cleared"}

EntryLine(s, e, t, p, kept) ==
    [kind |-> "entry", seq |-> s, id |-> e, type |-> t, parent |-> p, kept |-> kept]
LaneLine(s, e)     == [kind |-> "lane", seq |-> s, leaf |-> e]
RecordLine(s)      == [kind |-> "record", seq |-> s]
NameLine(s, n)     == [kind |-> "name", seq |-> s, name |-> n]
LabelLine(s, e, b) == [kind |-> "label", seq |-> s, id |-> e, set |-> b]

\* A line that is not JSON: bytes of two lines run together.
Garbage == [kind |-> "garbage", seq |-> 0]
\* The beginning of a line whose rest was never handed to the writer.
Torn    == [kind |-> "torn", seq |-> 0]
\* The same, where the last write stopped inside a character: a piece longer than
\* the writer's buffer goes straight to the file and may fail half-way.
Split   == [kind |-> "split", seq |-> 0]
\* Such a beginning with other bytes behind it.
Mangled == [kind |-> "mangled", seq |-> 0]

Begun == {Torn, Split}

(***************************************************************************)
(* SessionState: what replaying the lines yields.                          *)
(***************************************************************************)
EmptyState ==
    [seq |-> 0, entries |-> << >>, leaf |-> None, name |-> "never",
     labels |-> {}, records |-> 0]

Stored(st) == DOMAIN st.entries

\* JsonlSessionStore::validate.
Validate(st, line) ==
    /\ line.kind \notin {"garbage", "torn", "split", "mangled"}
    /\ line.seq = st.seq + 1
    /\ line.kind = "lane"  => line.leaf \in Stored(st) \cup {None}
    /\ line.kind = "label" => line.id \in Stored(st)
    /\ line.kind = "entry" => /\ line.id \notin Stored(st)
                              /\ line.parent = st.leaf

\* JsonlSessionStore::commit.
Commit(st, line) ==
    LET next == [st EXCEPT !.seq = line.seq]
    IN  CASE line.kind = "lane"   -> [next EXCEPT !.leaf = line.leaf]
          [] line.kind = "record" -> [next EXCEPT !.records = @ + 1]
          [] line.kind = "name"   -> [next EXCEPT !.name = line.name]
          [] line.kind = "label"  ->
               [next EXCEPT !.labels = IF line.set THEN @ \cup {line.id}
                                       ELSE @ \ {line.id}]
          [] line.kind = "entry"  ->
               [next EXCEPT !.leaf = line.id,
                            !.entries =
                  [e \in Stored(st) \cup {line.id} |->
                     IF e = line.id
                     THEN [type |-> line.type, parent |-> line.parent,
                           kept |-> line.kept]
                     ELSE st.entries[e]]]

\* The loop of JsonlStoreFactory::open over the lines of a file.
Replay(lines) ==
    LET R[k \in 0..Len(lines)] ==
          IF k = 0 THEN [ok |-> TRUE, state |-> EmptyState]
          ELSE LET before == R[k - 1]
               IN  IF before.ok /\ Validate(before.state, lines[k])
                   THEN [ok |-> TRUE, state |-> Commit(before.state, lines[k])]
                   ELSE [ok |-> FALSE, state |-> EmptyState]
    IN  R[Len(lines)]

\* JsonlSessionStore::branch: from the root to a leaf.
Branch(st, leaf) ==
    LET B[e \in Stored(st) \cup {None}] ==
          IF e = None THEN << >> ELSE Append(B[st.entries[e].parent], e)
    IN  B[leaf]

\* Kernel::history_from_store: messages in branch order; a compaction replaces
\* what came before by its summary and the messages it kept.
HistoryOf(st) ==
    LET branch == Branch(st, st.leaf)
        H[k \in 0..Len(branch)] ==
          IF k = 0 THEN << >>
          ELSE LET e == branch[k]
               IN  CASE st.entries[e].type \in {"user", "reply"} ->
                          Append(H[k - 1], e)
                     [] st.entries[e].type = "compaction" ->
                          <<e>> \o st.entries[e].kept
                     [] OTHER -> H[k - 1]
    IN  H[Len(branch)]

(***************************************************************************)
(* The file and the buffered writer.  A store is a record                  *)
(*   file     complete lines the operating system has                      *)
(*   pending  lines handed to the writer and not completed in the file     *)
(*   tail     how much of the first pending line is in the file            *)
(*   durable  number of lines known to be on disk                          *)
(*   mem      the SessionState in memory                                   *)
(*   faults   failures left (a bound)                                      *)
(***************************************************************************)
Parts == {"none", "torn", "split", "whole"}

\* Bytes handed to the writer run into the beginning of a line left before them.
Add(pending, line) ==
    IF pending # << >> /\ pending[Len(pending)] \in Begun
    THEN LET left == pending[Len(pending)]
             run  == CASE line \in Begun -> IF Split \in {left, line} THEN Split ELSE Torn
                       [] OTHER         -> IF left = Split THEN Mangled ELSE Garbage
         IN  Append(SubSeq(pending, 1, Len(pending) - 1), run)
    ELSE Append(pending, line)

\* The first n pending lines are complete, part t of the next one is written.
Written(d, pending, n, t) ==
    [d EXCEPT !.file = @ \o SubSeq(pending, 1, n),
              !.pending = SubSeq(pending, n + 1, Len(pending)),
              !.tail = t]

Flushed(d, pending) ==
    IF pending # << >> /\ pending[Len(pending)] \in Begun
    THEN Written(d, pending, Len(pending) - 1, pending[Len(pending)].kind)
    ELSE Written(d, pending, Len(pending), "none")

\* A write error after some bytes, perhaps inside a character; what is in the file
\* stays there.
Stuck(d, pending) ==
    {Written([d EXCEPT !.faults = @ - 1], pending, x[1], x[2]) :
        x \in {x \in (0..(Len(pending) - 1)) \X Parts :
                 /\ x[2] = "whole" => pending[x[1] + 1] \notin Begun
                 /\ x[2] = "torn" => pending[x[1] + 1] \notin {Split, Mangled}
                 /\ x[1] = 0 /\ d.tail # "none" => x[2] # "none"
                 /\ x[1] = 0 /\ d.tail = "whole" => x[2] = "whole"}}

\* What a failed append leaves behind: the line, its beginning, or a beginning that
\* went past the buffer and stops inside a character.
Failed(d, line) ==
    Stuck(d, Add(d.pending, line)) \cup Stuck(d, Add(d.pending, Torn))
      \cup {Flushed([d EXCEPT !.faults = @ - 1], Add(d.pending, Split))}

\* Mutant: the state advances before the append is known to have worked.
PersistStateFirst(d, line, class) ==
    {[ok |-> TRUE, d |-> [Flushed(d, Add(d.pending, line)) EXCEPT
                            !.mem = Commit(@, line)]]}
      \cup IF class \in Failing /\ d.faults > 0
           THEN {[ok |-> FALSE, d |-> [s EXCEPT !.mem = Commit(@, line)]] :
                    s \in Failed(d, line)}
           ELSE {}

\* JsonlSessionStore::persist, as the set of its outcomes: the line reaches the
\* file and the state, or an error leaves the state alone.
Persist(d, line, class) ==
    {[ok |-> TRUE, d |-> [Flushed(d, Add(d.pending, line)) EXCEPT
                            !.mem = Commit(@, line)]]}
      \cup IF class \in Failing /\ d.faults > 0
           THEN {[ok |-> FALSE, d |-> s] : s \in Failed(d, line)}
           ELSE {}

\* JsonlSessionStore::sync: flush, then fsync.
Sync(d) ==
    LET flushed == Flushed(d, d.pending)
    IN  {[ok |-> TRUE, d |-> [flushed EXCEPT !.durable = Len(flushed.file)]]}
          \cup IF "sync" \in Failing /\ d.faults > 0
               THEN {[ok |-> FALSE, d |-> s] :
                       s \in Stuck(d, d.pending)
                               \cup {[flushed EXCEPT !.faults = @ - 1]}}
               ELSE {}

\* Persist, then sync when that succeeded.
PersistAndSync(d, line, class) ==
    UNION {IF r.ok THEN Sync(r.d) ELSE {r} : r \in Persist(d, line, class)}

Room(n) == store.mem.seq + n <= MaxSeq
NextSeq(d) == d.mem.seq + 1
NewEntry(d, e, t, kept) == EntryLine(NextSeq(d), e, t, d.mem.leaf, kept)

Init ==
    /\ store = [file |-> << >>, pending |-> << >>, tail |-> "none",
                durable |-> 0, mem |-> EmptyState, faults |-> MaxFaults]
    /\ history = << >>
    /\ writeFailed = FALSE
    /\ live = TRUE
    /\ reply = "none"
    /\ crashes = MaxCrashes

(***************************************************************************)
(* SessionTranscript: writes that leave write_failed alone.                *)
(***************************************************************************)
Writable == live /\ ~writeFailed
Fresh(e) == e \notin Stored(store.mem)

\* append_context_message: the entry, then the model context.
AppendContextMessage(e, t) ==
    /\ Writable /\ Fresh(e) /\ Room(1)
    /\ \E r \in Persist(store, NewEntry(store, e, t, << >>), "plain") :
          /\ store' = r.d
          /\ history' = IF r.ok THEN Append(history, e) ELSE history
    /\ reply' = "none"
    /\ UNCHANGED <<writeFailed, live, crashes>>

\* append_store_only_entry, append_extension_entry.
AppendStoreOnlyEntry(e) ==
    /\ Writable /\ Fresh(e) /\ Room(1)
    /\ \E r \in Persist(store, NewEntry(store, e, "custom", << >>), "plain") :
          store' = r.d
    /\ reply' = "none"
    /\ UNCHANGED <<history, writeFailed, live, crashes>>

\* append_record, set_label.
AppendRecord ==
    /\ Writable /\ Room(1)
    /\ \E r \in Persist(store, RecordLine(NextSeq(store)), "plain") : store' = r.d
    /\ reply' = "none"
    /\ UNCHANGED <<history, writeFailed, live, crashes>>

SetLabel(e, b) ==
    /\ Writable /\ ~Fresh(e) /\ Room(1)
    /\ \E r \in Persist(store, LabelLine(NextSeq(store), e, b), "plain") :
          store' = r.d
    /\ reply' = "none"
    /\ UNCHANGED <<history, writeFailed, live, crashes>>

\* SessionRename::apply: the name fact and a sync; a default only fills in.
Rename(n) ==
    /\ Writable /\ Room(1)
    /\ n = "default" => store.mem.name = "never"
    /\ \E r \in PersistAndSync(store, NameLine(NextSeq(store), n), "plain") :
          store' = r.d
    /\ reply' = "none"
    /\ UNCHANGED <<history, writeFailed, live, crashes>>

\* commit_compaction: kept is cut from the context the summary was made of,
\* which was read before the summary was written.
CommitCompaction(e) ==
    /\ Writable /\ Fresh(e) /\ Room(1)
    /\ \E from \in 1..(Len(history) + 1), to \in 0..Len(history) :
         LET kept == SubSeq(history, from, to)
         IN  \E r \in Persist(store, NewEntry(store, e, "compaction", kept), "plain") :
               /\ store' = r.d
               /\ history' = IF r.ok THEN <<e>> \o kept ELSE history
    /\ reply' = "none"
    /\ UNCHANGED <<writeFailed, live, crashes>>

\* sync, which even an uncertain transcript may call.
SyncTranscript ==
    /\ live
    /\ \E r \in Sync(store) : store' = r.d
    /\ reply' = "none"
    /\ UNCHANGED <<history, writeFailed, live, crashes>>

(***************************************************************************)
(* Writes after whose failure nothing more is written until a reopening.   *)
(***************************************************************************)
CommitSetting(e) ==
    /\ Writable /\ Fresh(e) /\ Room(1)
    /\ \E r \in PersistAndSync(store, NewEntry(store, e, "custom", << >>), "commit") :
          /\ store' = r.d
          /\ writeFailed' = ~r.ok
    /\ reply' = "none"
    /\ UNCHANGED <<history, live, crashes>>

\* commit_records, with one record or two.
CommitRecords(n) ==
    /\ Writable /\ Room(n)
    /\ \E r \in Persist(store, RecordLine(NextSeq(store)), "commit") :
         \E q \in IF ~r.ok THEN {r}
                  ELSE IF n = 1 THEN Sync(r.d)
                  ELSE PersistAndSync(r.d, RecordLine(NextSeq(r.d)), "commit") :
           /\ store' = q.d
           /\ writeFailed' = ~q.ok
    /\ reply' = "none"
    /\ UNCHANGED <<history, live, crashes>>

\* commit_consumed: the entry, the model context, the consumption record.
CommitConsumed(e) ==
    /\ Writable /\ Fresh(e) /\ Room(2)
    /\ \E r \in Persist(store, NewEntry(store, e, "user", << >>), "commit") :
         \E q \in IF r.ok THEN Persist(r.d, RecordLine(NextSeq(r.d)), "commit")
                  ELSE {r} :
           /\ store' = q.d
           /\ writeFailed' = ~q.ok
           /\ history' = IF r.ok THEN Append(history, e) ELSE history
    /\ reply' = "none"
    /\ UNCHANGED <<live, crashes>>

(***************************************************************************)
(* Tree navigation, each in one transcript lock.                           *)
(***************************************************************************)
MoveLane(d, e) == Persist(d, LaneLine(NextSeq(d), e), "plain")
Done(d)        == {[ok |-> TRUE, d |-> d]}

\* Mutant: the context stays as it was when the lane could not be restored.
RestoreLaneOnly(d, old) ==
    /\ \E r \in MoveLane(d, old) :
         IF r.ok THEN \E y \in Sync(r.d) : store' = y.d
         ELSE store' = r.d
    /\ reply' = "failed"
    /\ UNCHANGED history

\* Undo a lane move; when even that fails the context follows the lane.
RestoreLane(d, old) ==
    /\ \E r \in MoveLane(d, old) :
         IF r.ok THEN /\ \E y \in Sync(r.d) : store' = y.d
                      /\ UNCHANGED history
         ELSE /\ store' = r.d
              /\ history' = HistoryOf(r.d.mem)
    /\ reply' = "failed"

\* clear_navigation: to the root.
ClearNavigation ==
    /\ Writable /\ Room(1)
    /\ \E m \in MoveLane(store, None) :
         IF ~m.ok THEN store' = m.d /\ reply' = "failed" /\ UNCHANGED history
         ELSE \E y \in Sync(m.d) :
                IF y.ok THEN store' = y.d /\ history' = << >> /\ reply' = "moved"
                ELSE RestoreLane(y.d, store.mem.leaf)
    /\ UNCHANGED <<writeFailed, live, crashes>>

\* Mutant: only the lane is put back.
UndoNavigationNotLabel(d, label) == RestoreLane(d, store.mem.leaf)

\* The error arm of commit_navigation before a summary was appended: the label
\* it touched and the lane are put back.
UndoNavigation(d, label) ==
    LET relabelled == IF label = None THEN Done(d)
                      ELSE Persist(d, LabelLine(NextSeq(d), label,
                                                label \in store.mem.labels), "plain")
    IN  \E l \in relabelled : RestoreLane(l.d, store.mem.leaf)

\* The error arm after it: the summary stays the leaf, and a retried sync may
\* still complete the navigation.
KeepSummary(d, reachedSync) ==
    /\ history' = HistoryOf(d.mem)
    /\ \E y \in Sync(d) :
         /\ store' = y.d
         /\ reply' = IF reachedSync /\ y.ok THEN "moved" ELSE "failed"

\* commit_navigation to new for the chosen target; summary is an entry to
\* append or None, label says whether a hook labels the summary or the target.
CommitNavigation(target, summary, label) ==
    LET new == IF store.mem.entries[target].type = "user"
               THEN store.mem.entries[target].parent ELSE target
        labelled == IF summary = None THEN target ELSE summary
    IN  \E m \in MoveLane(store, new) :
          IF ~m.ok THEN UndoNavigation(m.d, None)
          ELSE \E s \in IF summary = None THEN Done(m.d)
                        ELSE Persist(m.d, NewEntry(m.d, summary, "summary", << >>),
                                     "plain") :
            IF ~s.ok THEN UndoNavigation(s.d, None)
            ELSE \E l \in IF ~label THEN Done(s.d)
                          ELSE Persist(s.d, LabelLine(NextSeq(s.d), labelled, TRUE),
                                       "plain") :
              IF ~l.ok
              THEN IF summary # None THEN KeepSummary(l.d, FALSE)
                   ELSE UndoNavigation(l.d, labelled)
              ELSE \E y \in Sync(l.d) :
                IF y.ok THEN /\ store' = y.d
                             /\ history' = HistoryOf(y.d.mem)
                             /\ reply' = "moved"
                ELSE IF summary # None THEN KeepSummary(y.d, TRUE)
                ELSE UndoNavigation(y.d, IF label THEN labelled ELSE None)

\* navigate_session_with_summary.
Navigate(target, summary, label) ==
    /\ Writable /\ ~Fresh(target)
    /\ Room(1 + (IF summary = None THEN 0 ELSE 1) + (IF label THEN 1 ELSE 0))
    /\ target # store.mem.leaf
    /\ summary # None => Fresh(summary)
    /\ CommitNavigation(target, summary, label)
    /\ UNCHANGED <<writeFailed, live, crashes>>

(***************************************************************************)
(* Closing, crashing, opening.                                             *)
(***************************************************************************)

\* What is left of a store nobody holds: the bytes in the file.
Abandoned(d) ==
    [d EXCEPT !.pending = IF d.tail = "none" THEN << >> ELSE SubSeq(@, 1, 1),
              !.mem = EmptyState]

Released ==
    /\ history' = << >>
    /\ writeFailed' = FALSE
    /\ live' = FALSE
    /\ reply' = "none"

\* close_session syncs and seals; dropping the BufWriter flushes once more.
Close ==
    /\ live
    /\ \E r \in Sync(store) : \E f \in {r.d, Flushed(r.d, r.d.pending)} :
          store' = Abandoned(f)
    /\ Released
    /\ UNCHANGED crashes

\* The process dies and its buffer with it; when the machine goes down, of the
\* unsynced lines a prefix is left, perhaps with part of the line after it.
Crash ==
    /\ crashes > 0
    /\ LET lines == store.file \o store.pending
       IN  \E n \in store.durable..Len(store.file), t \in Parts :
             /\ n = Len(store.file) => t \in IF store.tail = "none" THEN {"none"}
                                             ELSE {"none", "torn", "split", store.tail}
             /\ store' = Abandoned([store EXCEPT
                            !.file = SubSeq(lines, 1, n), !.tail = t,
                            !.pending = SubSeq(lines, n + 1, Len(lines))])
    /\ crashes' = crashes - 1
    /\ Released

\* Whether the file is text: read_to_string fails on part of a character.
Legible(d) ==
    /\ d.tail # "split"
    /\ d.tail = "whole" => d.pending[1] # Mangled
    /\ \A k \in 1..Len(d.file) : d.file[k] # Mangled

\* Mutant: the repair cuts one valid line too many.
ReadableCutShort(d) ==
    LET lines == IF d.tail = "whole" THEN Append(d.file, d.pending[1]) ELSE d.file
    IN  IF d.tail = "torn" /\ lines # << >> THEN SubSeq(lines, 1, Len(lines) - 1)
        ELSE lines

\* The lines JsonlStoreFactory::open replays once it could read the file: a last
\* line that is not JSON is cut off, one that only lacks its newline is kept.
Readable(d) ==
    LET lines == IF d.tail = "whole" THEN Append(d.file, d.pending[1]) ELSE d.file
    IN  IF /\ d.tail \in {"none", "whole"}
           /\ lines # << >> /\ lines[Len(lines)] = Garbage
        THEN SubSeq(lines, 1, Len(lines) - 1)
        ELSE lines

\* The store that open builds from the file, if every line is valid.
Opened(d) ==
    [d EXCEPT !.file = Readable(d), !.pending = << >>, !.tail = "none",
              !.durable = IF @ > Len(Readable(d)) THEN Len(Readable(d)) ELSE @,
              !.mem = Replay(Readable(d)).state]

\* resume_session: open and SessionTranscript::restored.
Open ==
    /\ ~live
    /\ Legible(store) /\ Replay(Readable(store)).ok
    /\ store' = Opened(store)
    /\ history' = HistoryOf(Opened(store).mem)
    /\ writeFailed' = FALSE
    /\ live' = TRUE
    /\ reply' = "none"
    /\ UNCHANGED crashes

\* JsonlStoreFactory::set_name_at on a Session nobody holds: the last line
\* gives the sequence, and anything but a complete line falls back to open.
SetNameAt ==
    /\ ~live
    /\ Len(Readable(store)) < MaxSeq
    /\ LET last   == store.file[Len(store.file)]
           direct == store.tail = "none" /\ store.file # << >> /\ last \notin {Garbage, Mangled}
           d      == IF direct THEN [store EXCEPT !.mem.seq = last.seq]
                     ELSE Opened(store)
       IN  /\ direct \/ (Legible(store) /\ Replay(Readable(store)).ok)
           /\ \E r \in PersistAndSync(d, NameLine(NextSeq(d), "title"), "plain") :
                \E f \in IF direct THEN {r.d} ELSE {r.d, Flushed(r.d, r.d.pending)} :
                  store' = Abandoned(f)
    /\ UNCHANGED <<history, writeFailed, live, reply, crashes>>

\* Who writes: the Run its messages and records, the compaction, the queue its
\* records and the inputs it consumes, settings, renames, tree navigation, and
\* extensions their entries and labels.
Write ==
    \/ "run" \in Callers /\ (\/ AppendRecord
                             \/ \E e \in Entries, t \in {"user", "reply"} :
                                  AppendContextMessage(e, t))
    \/ "compaction" \in Callers /\ \E e \in Entries : CommitCompaction(e)
    \/ "queue" \in Callers /\ (\/ \E n \in 1..2 : CommitRecords(n)
                               \/ \E e \in Entries : CommitConsumed(e))
    \/ "settings" \in Callers /\ \E e \in Entries : CommitSetting(e)
    \/ "rename" \in Callers /\ (\/ \E n \in Names \ {"never"} : Rename(n)
                                \/ SetNameAt)
    \/ "tree" \in Callers /\ (\/ ClearNavigation
                              \/ \E e \in Entries, s \in Entries \cup {None},
                                   b \in BOOLEAN : Navigate(e, s, b))
    \/ "extension" \in Callers /\ \E e \in Entries :
                                    \/ AppendStoreOnlyEntry(e)
                                    \/ \E b \in BOOLEAN : SetLabel(e, b)

Next == Write \/ SyncTranscript \/ Close \/ Crash \/ Open

Spec == Init /\ [][Next]_vars

(***************************************************************************)
(* Properties.                                                             *)
(***************************************************************************)
Line ==
    [kind : {"entry"}, seq : 1..(MaxSeq + 2), id : Entries, type : Types,
     parent : Entries \cup {None}, kept : Seq(Entries)]
      \cup [kind : {"lane"}, seq : 1..(MaxSeq + 2), leaf : Entries \cup {None}]
      \cup [kind : {"record"}, seq : 1..(MaxSeq + 2)]
      \cup [kind : {"name"}, seq : 1..(MaxSeq + 2), name : Names]
      \cup [kind : {"label"}, seq : 1..(MaxSeq + 2), id : Entries, set : BOOLEAN]

StoreTypeOK ==
    /\ store.file \in Seq(Line \cup {Garbage, Mangled})
    /\ store.pending \in Seq(Line \cup Begun \cup {Garbage, Mangled})
    /\ store.tail \in Parts
    /\ store.tail # "none" => store.pending # << >>
    /\ store.durable \in 0..Len(store.file)
    /\ store.mem.seq \in 0..(MaxSeq + 2)
    /\ history \in Seq(Entries)
    /\ writeFailed \in BOOLEAN /\ live \in BOOLEAN
    /\ reply \in {"none", "moved", "failed"}
    /\ crashes \in 0..MaxCrashes

\* The model context that the transcript keeps up to date step by step is the
\* one a rebuild from the Store gives, after every failed or undone write too.
HistoryMatchesStore == live => history = HistoryOf(store.mem)

\* What the caller of a navigation is told is true: reported as done it is on disk,
\* reported as failed it left lane and labels as they were, unless it had appended a
\* summary, which then is the leaf, or its undoing failed too.
NavigationOutcomeIsTrue ==
    [][/\ reply' = "moved" => store'.durable = Len(store'.file) /\ store'.pending = << >>
       /\ reply' = "failed" /\ store'.faults >= store.faults - 1 =>
            \/ /\ store'.mem.leaf = store.mem.leaf
               /\ store'.mem.labels = store.mem.labels
            \/ \E e \in Stored(store'.mem) \ Stored(store.mem) : store'.mem.leaf = e]_vars

\* Whatever a failed write or a crash left behind, the log can be opened again and
\* that gives back the state in memory, except that a mutation whose write failed
\* may turn up: after a failed commit the caller was told it is uncertain.  One case
\* is not covered by the repair of a torn last line: when that line stops inside a
\* character the file cannot be read at all.
ReopeningRestores ==
    LET read == Replay(Readable(store)) IN
    /\ StoreTypeOK
    /\ ~Legible(store) => store.tail = "split"
    /\ Legible(store) =>
         /\ read.ok
         /\ live => \/ read.state = store.mem
                    \/ writeFailed /\ read.state.seq = store.mem.seq + 1

\* "Mutations are appended in consecutive order, so the final line holds the
\* highest sequence" (factory.rs, last_sequence).
ConsecutiveSequences == \A k \in 1..Len(store.file) : store.file[k].seq = k

\* The store implements the log its callers rely on.
Rest == CASE ~Legible(store)        -> "unreadable"
          [] store.pending # << >> -> "part"
          [] OTHER                 -> "none"
Log == INSTANCE DurableLog
         WITH log <- Readable(store), synced <- store.durable, open <- live, rest <- Rest
ImplementsDurableLog == Log!Spec
=============================================================================
