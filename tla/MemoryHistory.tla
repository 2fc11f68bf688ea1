---------------------------- MODULE MemoryHistory ----------------------------
(***************************************************************************)
(* bot/services/memory.py: the dialogue history of one group.  A bounded   *)
(* window in memory, its rows behind a write-behind queue, the compaction  *)
(* of old messages into a summary, the background deletion of rows that    *)
(* left the window, and the retention pass.                                *)
(***************************************************************************)
EXTENDS Naturals, FiniteSets

CONSTANTS
  MaxMessages,        \* bound on the messages of the group
  Window,             \* memory_recent_messages
  KeepRecent,         \* _COMPACTION_KEEP_RECENT_MESSAGES
  Auto, Manual,       \* the background compactor and /compact
  Unlocked,           \* the compaction lock is free
  MaxMemoryFaults,    \* bound on failed compressions, rows and deletions
  MaxMemoryRestarts,  \* bound on restarts of the process
  MaxExpiries         \* bound on retention passes and changed limits

Compactors == {Auto, Manual}
HistoryAssumption ==
  /\ Auto # Manual /\ Unlocked \notin Compactors /\ Window \in Nat \ {0}
  /\ {MaxMessages, KeepRecent, MaxMemoryFaults, MaxMemoryRestarts, MaxExpiries} \subseteq Nat

VARIABLES
  added,        \* messages so far are 1..added
  window,       \* messages in the working history
  loaded,       \* the history was read since the process started
  unwritten,    \* rows in the write-behind queue
  stored,       \* rows in the database
  doomed,       \* _history_prune_pending_ids: rows to delete
  deferred,     \* trimming waits for the compaction
  lock,         \* holder of _summary_locks[group]
  compactor,    \* of a compactor: "idle", "drained", "llm"
  snapshot,     \* of a compactor: messages it compresses
  summarised,   \* messages that the stored summary covers
  retired,      \* messages dropped by the window's limit or by their age
  missing,      \* messages whose row was lost
  overtaken,    \* a retention pass ran during a compression
  memoryFaults, restarts, expiries

ramVars == <<window, loaded, unwritten, doomed, deferred, lock, compactor, snapshot>>
bounds  == <<memoryFaults, restarts, expiries>>
memoryVars == <<added, ramVars, stored, summarised, retired, missing, overtaken, bounds>>

Messages == 1..MaxMessages

TypeOK ==
  /\ added \in 0..MaxMessages /\ loaded \in BOOLEAN /\ deferred \in BOOLEAN
  /\ {window, unwritten, stored, doomed, summarised, retired, missing} \subseteq SUBSET Messages
  /\ lock \in Compactors \cup {Unlocked}
  /\ compactor \in [Compactors -> {"idle", "drained", "llm"}]
  /\ snapshot \in [Compactors -> SUBSET Messages] /\ overtaken \in BOOLEAN
  /\ memoryFaults \in 0..MaxMemoryFaults /\ restarts \in 0..MaxMemoryRestarts
  /\ expiries \in 0..MaxExpiries

Init ==
  /\ added = 0 /\ window = {} /\ loaded = FALSE /\ unwritten = {} /\ stored = {} /\ doomed = {}
  /\ deferred = FALSE /\ lock = Unlocked /\ compactor = [c \in Compactors |-> "idle"]
  /\ snapshot = [c \in Compactors |-> {}] /\ summarised = {} /\ retired = {} /\ missing = {}
  /\ overtaken = FALSE /\ memoryFaults = 0 /\ restarts = 0 /\ expiries = 0

Fine  == UNCHANGED memoryFaults
Fault == memoryFaults < MaxMemoryFaults /\ memoryFaults' = memoryFaults + 1

\* The n oldest and the n newest of a set of messages, which are numbered by age.
Oldest(S, n) == {m \in S : Cardinality({k \in S : k < m}) < n}
Newest(S, n) == {m \in S : Cardinality({k \in S : k > m}) < n}

-----------------------------------------------------------------------------
(* The window *)

\* _ensure_history_loaded: the newest rows; older ones are deleted in the background.
Load ==
  /\ ~loaded /\ loaded' = TRUE /\ window' = Newest(stored, Window)
  /\ doomed' = stored \ window' /\ retired' = retired \cup doomed'
  /\ UNCHANGED <<added, unwritten, deferred, lock, compactor, snapshot, stored, summarised,
                 missing, overtaken, bounds>>

\* _replace_working_history: the newest of w stay, the rows of the others are doomed.
Cut(w) ==
  /\ window' = Newest(w, Window) /\ doomed' = doomed \cup (w \ window')
  /\ retired' = retired \cup (w \ window')

\* Mutant: trimming does not wait for the compaction.
TrimAnyway(w) == deferred' = FALSE /\ Cut(w)
\* _schedule_history_prune_if_needed: a window beyond its limit is trimmed, after
\* a compaction in progress.
Trim(w) ==
  IF Cardinality(w) > Window /\ lock # Unlocked
  THEN deferred' = TRUE /\ window' = w /\ UNCHANGED <<doomed, retired>>
  ELSE UNCHANGED deferred /\ Cut(w)

\* add_message with write-behind.
Add ==
  /\ loaded /\ added < MaxMessages /\ added' = added + 1
  /\ unwritten' = unwritten \cup {added + 1} /\ Trim(window \cup {added + 1})
  /\ UNCHANGED <<loaded, lock, compactor, snapshot, stored, summarised, missing, overtaken, bounds>>

\* The waiter on the compaction lock.
Resume ==
  /\ deferred /\ lock = Unlocked /\ deferred' = FALSE /\ Cut(window)
  /\ UNCHANGED <<added, loaded, unwritten, lock, compactor, snapshot, stored, summarised, missing,
                 overtaken, bounds>>

\* The rows of a message in the tables of the history and of the archive.
Written(m) == stored' = stored \cup {m} /\ UNCHANGED missing
Lost(m)    == missing' = missing \cup {m} /\ UNCHANGED stored

\* The write-behind worker; a locked database only delays it, a poison row is lost.
WriteRow(m) ==
  /\ m \in unwritten /\ unwritten' = unwritten \ {m}
  /\ (Fine /\ Written(m)) \/ (Fault /\ Lost(m))
  /\ UNCHANGED <<added, window, loaded, doomed, deferred, lock, compactor, snapshot, summarised,
                 retired, overtaken, restarts, expiries>>

\* The write-behind queue is drained first; failed deletions are queued again.
Drained == unwritten = {}
Delete ==
  /\ doomed # {} /\ doomed \cap unwritten = {}
  /\ \/ Fine /\ stored' = stored \ doomed /\ doomed' = {}
     \/ Fault /\ UNCHANGED <<stored, doomed>>
  /\ UNCHANGED <<added, window, loaded, unwritten, deferred, lock, compactor, snapshot, summarised,
                 retired, missing, overtaken, restarts, expiries>>

-----------------------------------------------------------------------------
(* Compaction *)

\* flush_pending_writes, then the lock: the background compactor gives way to one
\* in progress, the command waits.
Flush(c) ==
  /\ loaded /\ compactor[c] = "idle" /\ Drained /\ window # {}
  /\ compactor' = [compactor EXCEPT ![c] = "drained"]
  /\ UNCHANGED <<added, window, loaded, unwritten, doomed, deferred, lock, snapshot, stored,
                 summarised, retired, missing, overtaken, bounds>>

GiveWay ==
  /\ compactor[Auto] = "drained" /\ lock # Unlocked
  /\ compactor' = [compactor EXCEPT ![Auto] = "idle"]
  /\ UNCHANGED <<added, window, loaded, unwritten, doomed, deferred, lock, snapshot, stored,
                 summarised, retired, missing, overtaken, bounds>>

\* The command takes everything, the background compactor may keep a recent tail.
Heads(c) ==
  IF c = Auto /\ Cardinality(window) > KeepRecent
  THEN {window, Oldest(window, Cardinality(window) - KeepRecent)} ELSE {window}
Snapshot(c) ==
  /\ compactor[c] = "drained" /\ lock = Unlocked
  /\ IF window = {}
     THEN compactor' = [compactor EXCEPT ![c] = "idle"] /\ UNCHANGED <<lock, snapshot>>
     ELSE /\ compactor' = [compactor EXCEPT ![c] = "llm"] /\ lock' = c
          /\ \E S \in Heads(c) : snapshot' = [snapshot EXCEPT ![c] = S]
  /\ UNCHANGED <<added, window, loaded, unwritten, doomed, deferred, stored, summarised, retired,
                 missing, overtaken, bounds>>

\* The summary is stored and the source rows are deleted in one transaction.
Summarise(S) == summarised' = summarised \cup S /\ stored' = stored \ S

\* Then as many messages as the snapshot had leave the head of the window.
Publish(c) ==
  LET S == snapshot[c]
  IN /\ compactor[c] = "llm"
     /\ \/ Fine /\ Summarise(S) /\ window' = window \ Oldest(window, Cardinality(S))
        \/ Fault /\ UNCHANGED <<summarised, stored, window>>
     /\ compactor' = [compactor EXCEPT ![c] = "idle"] /\ lock' = Unlocked
     /\ snapshot' = [snapshot EXCEPT ![c] = {}]
     /\ UNCHANGED <<added, loaded, unwritten, doomed, deferred, retired, missing, overtaken,
                    restarts, expiries>>

-----------------------------------------------------------------------------
(* Retention and configuration *)

\* The retention deletes rows and window entries by age, whoever compacts.
Retire(old) ==
  /\ stored' = stored \ old /\ window' = window \ old
  /\ retired' = retired \cup (window \cap old) \cup (stored \cap old)
  /\ overtaken' = (overtaken \/ (lock # Unlocked /\ window \cap old # {}))

\* A pass over the group or over all groups, after the queue was drained.
Expire(n) ==
  /\ expiries < MaxExpiries /\ expiries' = expiries + 1
  /\ LET old == {m \in 1..added : m <= n}
     IN old \cap unwritten = {} /\ Retire(old)
  /\ UNCHANGED <<added, loaded, unwritten, doomed, deferred, lock, compactor, snapshot, summarised,
                 missing, memoryFaults, restarts>>

\* reconfigure: a shorter retention, applied later while a compaction runs.
Reconfigure(n) ==
  /\ expiries < MaxExpiries /\ expiries' = expiries + 1 /\ loaded
  /\ IF lock # Unlocked
     THEN deferred' = TRUE /\ UNCHANGED <<window, doomed, retired>>
     ELSE LET old == {m \in window : m <= n}
          IN /\ window' = window \ old /\ doomed' = doomed \cup old /\ retired' = retired \cup old
             /\ UNCHANGED deferred
  /\ UNCHANGED <<added, loaded, unwritten, lock, compactor, snapshot, stored, summarised, missing,
                 overtaken, memoryFaults, restarts>>

Restart ==
  /\ restarts < MaxMemoryRestarts /\ restarts' = restarts + 1
  /\ missing' = missing \cup unwritten /\ window' = {} /\ loaded' = FALSE /\ unwritten' = {}
  /\ doomed' = {} /\ deferred' = FALSE /\ lock' = Unlocked
  /\ compactor' = [c \in Compactors |-> "idle"] /\ snapshot' = [c \in Compactors |-> {}]
  /\ UNCHANGED <<added, stored, summarised, retired, overtaken, memoryFaults, expiries>>

Compact(c) == Flush(c) \/ Snapshot(c) \/ Publish(c)
Next ==
  \/ Load \/ Add \/ Resume \/ Delete \/ GiveWay \/ Restart
  \/ \E c \in Compactors : Compact(c)
  \/ \E m \in Messages : WriteRow(m) \/ Expire(m) \/ Reconfigure(m)

Spec == Init /\ [][Next]_memoryVars

-----------------------------------------------------------------------------
(* Properties *)

Kept == window \cup summarised \cup retired \cup missing \cup (IF loaded THEN {} ELSE stored)
\* A message leaves the history only into the summary, by its age or by the limit
\* of the window; a compaction takes nothing that arrived meanwhile.
NothingForgotten == overtaken \/ 1..added \subseteq Kept

\* A restart finds the window again: its rows are stored or on their way.
WindowBacked == overtaken \/ window \subseteq stored \cup unwritten \cup missing

HistorySound == NothingForgotten /\ WindowBacked

\* Messages that arrive during the compression are kept (memory.py:3663-3664).
ArrivalsKept == 1..added \subseteq Kept

\* A published summary deletes exactly its source rows (memory.py:3391).
SourcesDeleted == Drained => summarised \cap stored = {}

=============================================================================
