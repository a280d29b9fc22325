------------------------- MODULE AtomicJsonlWriter -------------------------
(***************************************************************************)
(* append_record of src/ingestion/writer.py: several processes append to   *)
(* one .jsonl file and keep its .meta sidecar, under one lock file.        *)
(*                                                                         *)
(* Every call that reaches the file system is an action, because a process *)
(* can die, or the call can raise, between any two of them.  Both leave    *)
(* the same files behind (the with statement or the operating system frees *)
(* the lock), so Abort stands for both.                                    *)
(***************************************************************************)
EXTENDS Integers, Sequences, FiniteSets

CONSTANTS
    Procs,       \* the processes that write (ingest, preprocess, pull)
    Faults,      \* subset of {"abort", "torn"}
    None,
    Corrupt,     \* a line, or a sidecar, that is not one whole JSON object
    MaxAppends,  \* bound: calls of append_record
    MaxAborts    \* bound: calls that die

ASSUME ProcsAssumption  == None \notin Procs
ASSUME FaultsAssumption == Faults \subseteq {"abort", "torn"}
ASSUME BoundsAssumption == MaxAppends \in Nat /\ MaxAborts \in Nat

\* A record is the number of its append; its trade id and its timestamp are
\* both told apart by that number.
Records == [n : 1..MaxAppends, kind : {"trade", "kline"}]

ASSUME ValuesAssumption == None \notin Nat \cup Records /\ Corrupt \notin Records

VARIABLES
    pc,          \* pc[p]: the next call of process p inside append_record
    record,      \* record[p]: the argument of that append_record
    meta_buf,    \* meta_buf[p]: its local variable meta
    holder,      \* the process that holds the .lock file
    lines,       \* the .jsonl file
    tail_open,   \* its last line has no newline yet
    meta,        \* the .meta file
    tmp,         \* the .meta.tmp file
    calls,       \* number of calls so far
    aborts,      \* number of calls that died
    acked        \* history: records whose append_record returned

files   == <<lines, tail_open, meta, tmp>>
history == <<calls, aborts, acked>>
vars    == <<pc, record, meta_buf, holder, files, history>>

Log == INSTANCE AppendLog WITH log <- lines, sidecar <- meta, deaths <- aborts

Sidecar ==
    [record_count : Nat, last_trade_id : Nat \cup {None}, last_ts : Nat \cup {None}]

Critical == {"write", "read_meta", "write_tmp", "replace"}
Wrote    == {"read_meta", "write_tmp", "replace"}

TypeOK ==
    /\ pc \in [Procs -> {"idle", "lock"} \cup Critical]
    /\ record \in [Procs -> Records \cup {None}]
    /\ meta_buf \in [Procs -> Sidecar]
    /\ holder \in Procs \cup {None}
    /\ lines \in Seq(Records \cup {Corrupt})
    /\ tail_open \in BOOLEAN
    /\ meta \in Sidecar
    /\ tmp \in Sidecar \cup {None, Corrupt}
    /\ calls \in 0..MaxAppends
    /\ aborts \in 0..MaxAborts
    /\ acked \subseteq Records

Init ==
    /\ pc = [p \in Procs |-> "idle"]
    /\ record = [p \in Procs |-> None]
    /\ meta_buf = [p \in Procs |-> Log!EmptySidecar]
    /\ holder = None
    /\ lines = <<>>
    /\ tail_open = FALSE
    /\ meta = Log!EmptySidecar
    /\ tmp = None
    /\ calls = 0
    /\ aborts = 0
    /\ acked = {}

-----------------------------------------------------------------------------
Goto(p, l) == pc' = [pc EXCEPT ![p] = l]

Call(p, kind) ==
    /\ pc[p] = "idle"
    /\ calls < MaxAppends
    /\ calls' = calls + 1
    /\ record' = [record EXCEPT ![p] = [n |-> calls + 1, kind |-> kind]]
    /\ Goto(p, "lock")
    /\ UNCHANGED <<meta_buf, holder, files, aborts, acked>>

\* Mutation: the lock does not exclude the other processes.
LockFreeAlways == TRUE

LockFree == holder = None

Acquire(p) ==
    /\ pc[p] = "lock"
    /\ LockFree
    /\ holder' = p
    /\ Goto(p, "write")
    /\ UNCHANGED <<record, meta_buf, files, history>>

\* portalocker gives up after lock_timeout_seconds and raises.
LockTimeout(p) ==
    /\ pc[p] = "lock"
    /\ ~LockFree
    /\ Goto(p, "idle")
    /\ UNCHANGED <<record, meta_buf, holder, files, history>>

\* Mutation: the file is opened for writing, not for appending.
AppendedAfresh(r) == <<r>>

\* The file after one more line.  After a torn line it has no line of its
\* own: both make one line, which is no record.
Appended(r) == IF tail_open THEN lines ELSE Append(lines, r)

\* The line is written, flushed and synced.
Write(p) ==
    /\ pc[p] = "write"
    /\ lines' = Appended(record[p])
    /\ tail_open' = FALSE
    /\ Goto(p, "read_meta")
    /\ UNCHANGED <<record, meta_buf, holder, meta, tmp, calls, aborts, acked>>

\* Mutation: the old meta is changed and the count is not.
UpdatedMetaUncounted(p) ==
    [Log!Account(meta, record[p]) EXCEPT !.record_count = meta.record_count]

\* The new contents of the sidecar, from the file and the record.
UpdatedMeta(p) == Log!Account(meta, record[p])

ReadMeta(p) ==
    /\ pc[p] = "read_meta"
    /\ meta_buf' = [meta_buf EXCEPT ![p] = UpdatedMeta(p)]
    /\ Goto(p, "write_tmp")
    /\ UNCHANGED <<record, holder, files, history>>

WriteTmp(p) ==
    /\ pc[p] = "write_tmp"
    /\ tmp' = meta_buf[p]
    /\ Goto(p, "replace")
    /\ UNCHANGED <<record, meta_buf, holder, lines, tail_open, meta, history>>

\* os.replace, and the end of the with statement.
Replace(p) ==
    /\ pc[p] = "replace"
    /\ meta' = tmp
    /\ tmp' = None
    /\ holder' = None
    /\ acked' = acked \cup {record[p]}
    /\ Goto(p, "idle")
    /\ UNCHANGED <<record, meta_buf, lines, tail_open, calls, aborts>>

\* What an interrupted json.dump to the .tmp file leaves in the sidecar.
MetaAfterTornWrite == meta

LockAfterAbort(p) == IF holder = p THEN None ELSE holder

\* The call raises, or its process dies and restarts, before its next step.
Abort(p) ==
    /\ "abort" \in Faults
    /\ aborts < MaxAborts
    /\ pc[p] \in Critical
    /\ aborts' = aborts + 1
    /\ holder' = LockAfterAbort(p)
    /\ Goto(p, "idle")
    /\ UNCHANGED <<record, meta_buf, files, calls, acked>>

\* The call dies inside a write: a part of the line or of the .tmp is there.
AbortTorn(p) ==
    /\ "torn" \in Faults
    /\ aborts < MaxAborts
    /\ aborts' = aborts + 1
    /\ holder' = LockAfterAbort(p)
    /\ \/ /\ pc[p] = "write"
          /\ lines' = Appended(Corrupt)
          /\ tail_open' = TRUE
          /\ UNCHANGED <<meta, tmp>>
       \/ /\ pc[p] = "write_tmp"
          /\ tmp' = Corrupt
          /\ meta' = MetaAfterTornWrite
          /\ UNCHANGED <<lines, tail_open>>
    /\ Goto(p, "idle")
    /\ UNCHANGED <<record, meta_buf, calls, acked>>

Step(p) ==
    \/ Acquire(p) \/ LockTimeout(p) \/ Write(p) \/ ReadMeta(p) \/ WriteTmp(p) \/ Replace(p)

Next ==
    \E p \in Procs :
        \/ \E kind \in {"trade", "kline"} : Call(p, kind)
        \/ Step(p) \/ Abort(p) \/ AbortTorn(p)

Spec == Init /\ [][Next]_vars

-----------------------------------------------------------------------------
(* Properties. *)

\* The line of the lock holder that the sidecar does not count yet.
InFlight == holder # None /\ pc[holder] \in Wrote

\* The sidecar counts no line that is not there, and every line that is there
\* but the one in flight and one for each call that died: no two appends
\* count as one and none counts twice (lines 41-48 and 86).
CountBounds ==
    LET counted == meta.record_count + (IF InFlight THEN 1 ELSE 0)
    IN  counted <= Len(lines) /\ Len(lines) <= counted + aborts

\* One process at a time is between the lock and the end of the with
\* statement, and it is the one that holds the lock file.
OneWriter == \A p \in Procs : pc[p] \in Critical <=> holder = p

\* A record whose append_record returned can be read from its own line, but
\* for one record after each call that died: the torn line of that call has
\* no newline, and the next record is glued to it (line 43).
AckedReadable ==
    Cardinality({r \in acked : \A i \in DOMAIN lines : lines[i] # r}) <= aborts

\* The line in flight is not yet part of the log the abstract promise shows.
VisibleLog == IF InFlight THEN SubSeq(lines, 1, Len(lines) - 1) ELSE lines

AbstractLog == INSTANCE AppendLog WITH log <- VisibleLog, sidecar <- meta, deaths <- aborts

\* Until a call dies, line and sidecar change in one step for a reader that
\* takes the lock, and the sidecar is what the whole history makes it.
ImplementsAppendLog == AbstractLog!Spec
=============================================================================
