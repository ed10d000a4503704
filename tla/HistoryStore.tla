---------------------------- MODULE HistoryStore ----------------------------
(***************************************************************************)
(* The persistent command history of agsh (agsh-store/src/history.rs): one *)
(* JSONL log shared by every interactive shell of the user.  A shell loads *)
(* the log at start-up, compacts it when it alone holds the advisory lock, *)
(* keeps a bounded copy in memory, and appends one line per finished       *)
(* command under the lock.  Shells start, crash and clear their memory at  *)
(* any point; an append may stop half way (a full disk) and leave a line   *)
(* without its newline.                                                    *)
(*                                                                         *)
(* An entry is its identity and its size in abstract bytes; the same size  *)
(* stands for the JSON line and for the memory the entry is charged.       *)
(***************************************************************************)
EXTENDS Naturals, Sequences, SequencesExt, FiniteSets

CONSTANTS
  Shells,        \* interactive shells sharing the log
  MaxEntries,           \* entries retained (max)
  MemoryLimit,   \* MAX_HISTORY_MEMORY_BYTES
  FileLimit,     \* MAX_HISTORY_FILE_BYTES, also the load limit
  LineLimit,     \* MAX_HISTORY_LINE_BYTES
  Sizes,         \* sizes a command's line may have
  MaxCommands,   \* bound: commands recorded in a behaviour
  OldLogs        \* logs left by earlier or foreign writers

NoShell == "none"

VARIABLES
  log,     \* the log: lines [id, size, ok]; ok is false when it does not parse
  torn,    \* whether the last line lacks its newline
  lock,    \* holder of the advisory lock
  pc,      \* what each shell is doing
  guard,   \* whether the loading shell got the lock without waiting
  mem,     \* the entries each shell holds in memory, [id, size]
  temp,    \* the rewrite file of a compacting shell
  next,    \* identity of the next command
  acked    \* ghost: entries appended to a log ending in a newline, in order

vars == <<log, torn, lock, pc, guard, mem, temp, next, acked>>

Line(e) == [id |-> e.id, size |-> e.size, ok |-> TRUE]
Entry(l) == [id |-> l.id, size |-> l.size]

\* The bytes charged to a sequence of entries or lines.
Bytes(s) == FoldSeq(LAMBDA e, n : e.size + n, 0, s)

\* The newest n elements of s.
Newest(s, n) == IF Len(s) <= n THEN s ELSE SubSeq(s, Len(s) - n + 1, Len(s))

\* The longest suffix of s that is charged at most limit bytes.
NewestWithin(s, limit) ==
  LET fits == {k \in 0..Len(s) : Bytes(SubSeq(s, k + 1, Len(s))) <= limit}
      drop == CHOOSE k \in fits : \A j \in fits : k <= j
  IN SubSeq(s, drop + 1, Len(s))

\* Nothing is dropped within the limit; past it, down to nine tenths.
TrimEntriesToBytes(s) ==
  IF Bytes(s) <= MemoryLimit THEN s ELSE NewestWithin(s, (MemoryLimit * 9) \div 10)

-----------------------------------------------------------------------------
(* Loading.                                                                *)

\* The bounded tail of an oversized log, its first partial line discarded.
LoadWindow == IF Bytes(log) <= FileLimit THEN log ELSE NewestWithin(log, FileLimit)

\* One line of the log: skipped when oversized or unreadable, else retained.
LoadLine(l, acc) ==
  IF l.size > LineLimit \/ ~l.ok THEN [acc EXCEPT !.needs = TRUE]
  ELSE LET grown == Append(acc.entries, Entry(l))
           kept == IF Len(grown) > 2 * MaxEntries THEN Newest(grown, MaxEntries) ELSE grown
       IN [entries |-> TrimEntriesToBytes(kept), total |-> acc.total + 1,
           needs |-> acc.needs]

LoadBounded ==
  LET start == [entries |-> <<>>, total |-> 0, needs |-> Bytes(log) > FileLimit]
      end == FoldLeft(LAMBDA acc, l : LoadLine(l, acc), start, LoadWindow)
  IN [end EXCEPT !.entries = Newest(@, MaxEntries)]

\* Only a shell that holds the lock may compact, and only a log that has
\* outgrown the retained window or holds lines it could not read.
MustRewrite(loaded) == loaded.needs \/ loaded.total > 2 * MaxEntries

-----------------------------------------------------------------------------
Init ==
  /\ log \in OldLogs
  /\ torn = FALSE
  /\ lock = NoShell
  /\ pc = [s \in Shells |-> "off"]
  /\ guard = [s \in Shells |-> FALSE]
  /\ mem = [s \in Shells |-> <<>>]
  /\ temp = [s \in Shells |-> <<>>]
  /\ next = 1
  /\ acked = <<>>

Unlock(s) == lock' = IF lock = s THEN NoShell ELSE lock

\* The guard is only tested, not kept: the lock is free again before the load.
TryLockMutant(s) ==
  /\ pc[s] = "off"
  /\ guard' = [guard EXCEPT ![s] = (lock = NoShell)]
  /\ pc' = [pc EXCEPT ![s] = "load"]
  /\ UNCHANGED <<log, torn, lock, mem, temp, next, acked>>

\* with_file, first half: the lock is tried and never waited for.
TryLock(s) ==
  /\ pc[s] = "off"
  /\ guard' = [guard EXCEPT ![s] = (lock = NoShell)]
  /\ lock' = IF lock = NoShell THEN s ELSE lock
  /\ pc' = [pc EXCEPT ![s] = "load"]
  /\ UNCHANGED <<log, torn, mem, temp, next, acked>>

\* with_file, second half: load, then compact or drop the guard.
Load(s) ==
  /\ pc[s] = "load"
  /\ mem' = [mem EXCEPT ![s] = LoadBounded.entries]
  /\ IF guard[s] /\ MustRewrite(LoadBounded)
     THEN /\ pc' = [pc EXCEPT ![s] = "rewrite"]
          /\ UNCHANGED lock
     ELSE /\ pc' = [pc EXCEPT ![s] = "idle"]
          /\ Unlock(s)
  /\ UNCHANGED <<log, torn, guard, temp, next, acked>>

\* rewrite: the retained entries go to a fresh file and are synced.
WriteTemp(s) ==
  /\ pc[s] = "rewrite"
  /\ temp' = [temp EXCEPT ![s] = SelectSeq([i \in DOMAIN mem[s] |-> Line(mem[s][i])],
                                           LAMBDA l : l.size <= LineLimit)]
  /\ pc' = [pc EXCEPT ![s] = "rename"]
  /\ UNCHANGED <<log, torn, lock, guard, mem, next, acked>>

\* rewrite: the file replaces the log in one rename, then the guard is dropped.
Rename(s) ==
  /\ pc[s] = "rename"
  /\ log' = temp[s]
  /\ torn' = FALSE
  /\ pc' = [pc EXCEPT ![s] = "idle"]
  /\ temp' = [temp EXCEPT ![s] = <<>>]
  /\ Unlock(s)
  /\ UNCHANGED <<guard, mem, next, acked>>

\* rewrite: any error removes the temporary file and keeps the log.
RewriteFails(s) ==
  /\ pc[s] \in {"rewrite", "rename"}
  /\ pc' = [pc EXCEPT ![s] = "idle"]
  /\ temp' = [temp EXCEPT ![s] = <<>>]
  /\ Unlock(s)
  /\ UNCHANGED <<log, torn, guard, mem, next, acked>>

\* record_history, push: the entry of a starting command, both memory bounds.
Record(s, size) ==
  /\ pc[s] = "idle" /\ next <= MaxCommands
  /\ mem' = [mem EXCEPT ![s] =
       TrimEntriesToBytes(Newest(Append(@, [id |-> next, size |-> size]), MaxEntries))]
  /\ next' = next + 1
  /\ pc' = [pc EXCEPT ![s] = "running"]
  /\ UNCHANGED <<log, torn, lock, guard, temp, acked>>

\* history -c, run by the command itself: memory only, the log is kept.
Clear(s) ==
  /\ pc[s] = "running"
  /\ mem' = [mem EXCEPT ![s] = <<>>]
  /\ UNCHANGED <<log, torn, lock, pc, guard, temp, next, acked>>

\* finalize_last: without an entry there is nothing to persist.
Finalize(s) ==
  /\ pc[s] = "running"
  /\ pc' = [pc EXCEPT ![s] = IF mem[s] = <<>> THEN "idle" ELSE "wait"]
  /\ UNCHANGED <<log, torn, lock, guard, mem, temp, next, acked>>

\* persist: waits for the lock.
LockToAppend(s) ==
  /\ pc[s] = "wait" /\ lock = NoShell
  /\ lock' = s
  /\ pc' = [pc EXCEPT ![s] = "append"]
  /\ UNCHANGED <<log, torn, guard, mem, temp, next, acked>>

\* The line is dropped when it alone, or the log with it, would be too large.
Fits(e) == e.size <= LineLimit /\ Bytes(log) + e.size <= FileLimit

\* What the log holds after bytes are appended: they continue a line that has
\* no newline, and such a joined line does not parse.
Appended(l) ==
  IF torn THEN SubSeq(log, 1, Len(log) - 1)
               \o <<[Last(log) EXCEPT !.size = @ + l.size, !.ok = FALSE]>>
  ELSE Append(log, l)

\* persist: one write of the whole line, then the lock is dropped.
AppendLine(s) ==
  /\ pc[s] = "append"
  /\ LET e == Last(mem[s]) IN
       IF Fits(e)
       THEN /\ log' = Appended(Line(e))
            /\ torn' = FALSE
            /\ acked' = IF torn THEN acked ELSE Append(acked, e)
       ELSE UNCHANGED <<log, torn, acked>>
  /\ pc' = [pc EXCEPT ![s] = "idle"]
  /\ Unlock(s)
  /\ UNCHANGED <<guard, mem, temp, next>>

\* persist: the write stops half way; its error is ignored.
AppendTorn(s) ==
  /\ pc[s] = "append" /\ Fits(Last(mem[s])) /\ Last(mem[s]).size > 1
  /\ log' = Appended([id |-> Last(mem[s]).id, size |-> 1, ok |-> FALSE])
  /\ torn' = TRUE
  /\ pc' = [pc EXCEPT ![s] = "idle"]
  /\ Unlock(s)
  /\ UNCHANGED <<guard, mem, temp, next, acked>>

\* The shell ends, cleanly or not: the kernel drops its lock, a temporary file
\* it was writing is left behind and never read again.
End(s) ==
  /\ pc[s] # "off"
  /\ pc' = [pc EXCEPT ![s] = "off"]
  /\ mem' = [mem EXCEPT ![s] = <<>>]
  /\ temp' = [temp EXCEPT ![s] = <<>>]
  /\ guard' = [guard EXCEPT ![s] = FALSE]
  /\ Unlock(s)
  /\ UNCHANGED <<log, torn, next, acked>>

Next ==
  \E s \in Shells :
    \/ TryLock(s) \/ Load(s)
    \/ WriteTemp(s) \/ Rename(s) \/ RewriteFails(s)
    \/ \E size \in Sizes : Record(s, size)
    \/ Clear(s) \/ Finalize(s) \/ LockToAppend(s)
    \/ AppendLine(s) \/ AppendTorn(s)
    \/ End(s)

Spec == Init /\ [][Next]_vars

-----------------------------------------------------------------------------
(* What must hold.                                                         *)

Readable == {log[i].id : i \in {j \in DOMAIN log : log[j].ok}}

\* Compaction never costs another shell its commands: an entry whose append
\* completed on a whole log (history.rs, persist_with_file_limit) stays
\* readable until the retained window has moved past it, whichever shells
\* load, rewrite, append, crash or clear meanwhile (with_file_load_limit holds
\* the rewrite guard from before its load until after its rename).
RecentCommandsKept ==
  \A i \in DOMAIN acked :
    \/ acked[i].id \in Readable
    \/ Len(acked) - i >= MaxEntries
    \/ Bytes(SubSeq(acked, i, Len(acked))) > (MemoryLimit * 9) \div 10


=============================================================================
