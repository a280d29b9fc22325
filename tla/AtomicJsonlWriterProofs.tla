---------------------- MODULE AtomicJsonlWriterProofs ----------------------
(***************************************************************************)
(* Theorems about AtomicJsonlWriter for any processes, bounds and faults,  *)
(* and the refinement of AppendLog.                                        *)
(***************************************************************************)
EXTENDS AtomicJsonlWriter, SequenceTheorems, FiniteSetTheorems, TLAPS

\* The call under way has its record, and computed the sidecar from the one
\* that is in the file: nobody else replaced it in between.
RecordInHand == \A p \in Procs : pc[p] # "idle" => record[p] \in Records

SidecarComputed ==
    \A p \in Procs :
        /\ pc[p] = "write_tmp" => meta_buf[p] = UpdatedMeta(p)
        /\ pc[p] = "replace" => tmp = UpdatedMeta(p)

\* CountBounds, with the torn line that has not been charged yet.
CountInv ==
    LET counted == meta.record_count + (IF InFlight THEN 1 ELSE 0)
    IN  /\ counted + (IF tail_open THEN 1 ELSE 0) <= Len(lines)
        /\ Len(lines) <= counted + aborts
        /\ ~(tail_open /\ InFlight)

TypeInv == TypeOK /\ RecordInHand /\ OneWriter /\ SidecarComputed

WriterInv == TypeInv /\ CountInv

-----------------------------------------------------------------------------
\* The sidecar of one more record is a sidecar and counts one more.
LEMMA UpdatedMetaType ==
    ASSUME TypeInv, NEW p \in Procs, pc[p] # "idle"
    PROVE  /\ UpdatedMeta(p) \in Sidecar
           /\ UpdatedMeta(p).record_count = meta.record_count + 1
<1>1. record[p] \in Records /\ meta \in Sidecar
  BY DEF TypeInv, TypeOK, RecordInHand
<1>2. record[p].n \in Nat
  BY <1>1, BoundsAssumption DEF Records
<1> QED
  BY <1>1, <1>2 DEF UpdatedMeta, Log!Account, Sidecar

\* The file stays a sequence of lines, and grows by one unless a torn line
\* is completed.
LEMMA AppendedType ==
    ASSUME TypeOK, NEW r \in Records \cup {Corrupt}
    PROVE  /\ Appended(r) \in Seq(Records \cup {Corrupt})
           /\ Len(Appended(r)) = Len(lines) + (IF tail_open THEN 0 ELSE 1)
<1>1. lines \in Seq(Records \cup {Corrupt})
  BY DEF TypeOK
<1>2. Len(Append(lines, r)) = Len(lines) + 1 /\ Append(lines, r) \in Seq(Records \cup {Corrupt})
  BY <1>1, AppendProperties
<1>3. Len(lines) \in Nat
  BY <1>1, LenProperties
<1> QED
  BY <1>1, <1>2, <1>3 DEF Appended

\* Before the first call.
LEMMA InitInv == Init => WriterInv
<1> SUFFICES ASSUME Init PROVE WriterInv
  OBVIOUS
<1>1. Log!EmptySidecar \in Sidecar /\ Log!EmptySidecar.record_count = 0
  BY DEF Log!EmptySidecar, Sidecar
<1>2. /\ calls \in 0..MaxAppends /\ aborts \in 0..MaxAborts /\ aborts = 0
      /\ lines \in Seq(Records \cup {Corrupt}) /\ Len(lines) = 0
  BY BoundsAssumption DEF Init
<1>3. tail_open \in BOOLEAN /\ ~tail_open
  BY DEF Init
<1>4. TypeOK
  BY <1>1, <1>2, <1>3 DEF Init, TypeOK
<1>5. RecordInHand /\ OneWriter /\ SidecarComputed
  BY ProcsAssumption DEF Init, RecordInHand, OneWriter, SidecarComputed, Critical
<1>6. CountInv
  BY <1>1, <1>2, <1>3 DEF Init, CountInv, InFlight
<1> QED
  BY <1>4, <1>5, <1>6 DEF WriterInv, TypeInv

\* Every step keeps types, the lock discipline and the computed sidecar.
LEMMA NextType == TypeInv /\ [Next]_vars => TypeInv'
<1> SUFFICES ASSUME TypeInv, [Next]_vars PROVE TypeInv'
  OBVIOUS
<1> USE DEF files, history, Goto
<1>1. ASSUME NEW p \in Procs, NEW kind \in {"trade", "kline"}, Call(p, kind)
      PROVE  TypeInv'
  <2>1. [n |-> calls + 1, kind |-> kind] \in Records /\ calls' \in 0..MaxAppends
    BY <1>1, BoundsAssumption DEF Call, Records, TypeInv, TypeOK
  <2>2. TypeOK'
    BY <1>1, <2>1 DEF Call, TypeInv, TypeOK
  <2>3. RecordInHand'
    BY <1>1, <2>1 DEF Call, TypeInv, TypeOK, RecordInHand
  <2>4. OneWriter'
    BY <1>1 DEF Call, TypeInv, TypeOK, OneWriter, Critical
  <2>5. SidecarComputed'
    BY <1>1 DEF Call, TypeInv, TypeOK, SidecarComputed, UpdatedMeta
  <2> QED
    BY <2>2, <2>3, <2>4, <2>5 DEF TypeInv
<1>2. ASSUME NEW p \in Procs, Acquire(p) PROVE TypeInv'
  <2>1. TypeOK'
    BY <1>2 DEF Acquire, TypeInv, TypeOK, Critical
  <2>2. OneWriter'
    BY <1>2, ProcsAssumption DEF Acquire, LockFree, TypeInv, TypeOK, OneWriter, Critical
  <2>3. (RecordInHand /\ SidecarComputed)'
    BY <1>2 DEF Acquire, TypeInv, TypeOK, RecordInHand, SidecarComputed, UpdatedMeta
  <2> QED
    BY <2>1, <2>2, <2>3 DEF TypeInv
<1>3. ASSUME NEW p \in Procs, LockTimeout(p) PROVE TypeInv'
  <2>1. TypeOK'
    BY <1>3 DEF LockTimeout, TypeInv, TypeOK
  <2>2. (RecordInHand /\ OneWriter /\ SidecarComputed)'
    BY <1>3 DEF LockTimeout, TypeInv, TypeOK, RecordInHand, OneWriter, SidecarComputed,
                UpdatedMeta, Critical
  <2> QED
    BY <2>1, <2>2 DEF TypeInv
<1>4. ASSUME NEW p \in Procs, Write(p) PROVE TypeInv'
  <2>1. Appended(record[p]) \in Seq(Records \cup {Corrupt})
    BY <1>4, AppendedType DEF Write, TypeInv, TypeOK, RecordInHand
  <2>2. TypeOK'
    BY <1>4, <2>1 DEF Write, TypeInv, TypeOK, Critical
  <2>3. (RecordInHand /\ OneWriter /\ SidecarComputed)'
    BY <1>4 DEF Write, TypeInv, TypeOK, RecordInHand, OneWriter, SidecarComputed,
                UpdatedMeta, Critical
  <2> QED
    BY <2>2, <2>3 DEF TypeInv
<1>5. ASSUME NEW p \in Procs, ReadMeta(p) PROVE TypeInv'
  <2>1. UpdatedMeta(p) \in Sidecar
    BY <1>5, UpdatedMetaType DEF ReadMeta
  <2>2. TypeOK'
    BY <1>5, <2>1 DEF ReadMeta, TypeInv, TypeOK, Critical
  <2>3. (RecordInHand /\ OneWriter)'
    BY <1>5 DEF ReadMeta, TypeInv, TypeOK, RecordInHand, OneWriter, Critical
  <2>4. SidecarComputed'
    BY <1>5 DEF ReadMeta, TypeInv, TypeOK, SidecarComputed, UpdatedMeta
  <2> QED
    BY <2>2, <2>3, <2>4 DEF TypeInv
<1>6. ASSUME NEW p \in Procs, WriteTmp(p) PROVE TypeInv'
  <2>1. TypeOK'
    BY <1>6 DEF WriteTmp, TypeInv, TypeOK, Critical
  <2>2. (RecordInHand /\ OneWriter)'
    BY <1>6 DEF WriteTmp, TypeInv, TypeOK, RecordInHand, OneWriter, Critical
  <2>3. SidecarComputed'
    BY <1>6 DEF WriteTmp, TypeInv, TypeOK, SidecarComputed, UpdatedMeta, OneWriter, Critical
  <2> QED
    BY <2>1, <2>2, <2>3 DEF TypeInv
<1>7. ASSUME NEW p \in Procs, Replace(p) PROVE TypeInv'
  <2>1. tmp \in Sidecar /\ record[p] \in Records
    BY <1>7, UpdatedMetaType DEF Replace, TypeInv, SidecarComputed, RecordInHand
  <2>2. TypeOK'
    BY <1>7, <2>1 DEF Replace, TypeInv, TypeOK
  <2>3. (RecordInHand /\ OneWriter)'
    BY <1>7, ProcsAssumption DEF Replace, TypeInv, TypeOK, RecordInHand, OneWriter, Critical
  <2>4. SidecarComputed'
    BY <1>7 DEF Replace, TypeInv, TypeOK, SidecarComputed, OneWriter, Critical
  <2> QED
    BY <2>2, <2>3, <2>4 DEF TypeInv
<1>8. ASSUME NEW p \in Procs, Abort(p) PROVE TypeInv'
  <2>1. TypeOK'
    BY <1>8, BoundsAssumption DEF Abort, LockAfterAbort, TypeInv, TypeOK
  <2>2. (RecordInHand /\ OneWriter)'
    BY <1>8, ProcsAssumption
    DEF Abort, LockAfterAbort, TypeInv, TypeOK, RecordInHand, OneWriter, Critical
  <2>3. SidecarComputed'
    BY <1>8 DEF Abort, TypeInv, TypeOK, SidecarComputed, UpdatedMeta
  <2> QED
    BY <2>1, <2>2, <2>3 DEF TypeInv
<1>9. ASSUME NEW p \in Procs, AbortTorn(p) PROVE TypeInv'
  <2>1. Appended(Corrupt) \in Seq(Records \cup {Corrupt})
    BY AppendedType DEF TypeInv
  <2>2. pc[p] \in Critical /\ meta' = meta /\ holder' = LockAfterAbort(p)
    BY <1>9 DEF AbortTorn, MetaAfterTornWrite, Critical
  <2>3. TypeOK'
    <3>1. /\ lines' \in Seq(Records \cup {Corrupt})
          /\ tail_open' \in BOOLEAN
          /\ tmp' \in Sidecar \cup {None, Corrupt}
      BY <1>9, <2>1 DEF AbortTorn, TypeInv, TypeOK
    <3>2. aborts' \in 0..MaxAborts
      BY <1>9, BoundsAssumption DEF AbortTorn, TypeInv, TypeOK
    <3>3. holder' \in Procs \cup {None}
      BY <2>2 DEF LockAfterAbort, TypeInv, TypeOK
    <3> QED
      BY <1>9, <2>2, <3>1, <3>2, <3>3 DEF AbortTorn, TypeInv, TypeOK
  <2>4. (RecordInHand /\ OneWriter)'
    BY <1>9, <2>2, ProcsAssumption
    DEF AbortTorn, LockAfterAbort, TypeInv, TypeOK, RecordInHand, OneWriter, Critical
  <2>5. SidecarComputed'
    BY <1>9, <2>2
    DEF AbortTorn, TypeInv, TypeOK, SidecarComputed, UpdatedMeta, OneWriter, Critical
  <2> QED
    BY <2>3, <2>4, <2>5 DEF TypeInv
<1>10. CASE UNCHANGED vars
  BY <1>10 DEF vars, TypeInv, TypeOK, RecordInHand, OneWriter, SidecarComputed, UpdatedMeta
<1> QED
  BY <1>1, <1>2, <1>3, <1>4, <1>5, <1>6, <1>7, <1>8, <1>9, <1>10 DEF Next, Step

-----------------------------------------------------------------------------
\* Every count is a number.
LEMMA Counts ==
    ASSUME TypeInv
    PROVE  /\ Len(lines) \in Nat /\ meta.record_count \in Nat /\ aborts \in Nat
           /\ tail_open \in BOOLEAN
<1>1. Len(lines) \in Nat
  BY LenProperties DEF TypeInv, TypeOK
<1>2. meta.record_count \in Nat /\ aborts \in Nat /\ tail_open \in BOOLEAN
  BY BoundsAssumption DEF TypeInv, TypeOK, Sidecar
<1> QED
  BY <1>1, <1>2

\* The lock holder is the process in the critical section, so InFlight says
\* where that process is.
LEMMA Holder ==
    ASSUME TypeInv, NEW p \in Procs, pc[p] \in Critical
    PROVE  holder = p /\ (InFlight <=> pc[p] \in Wrote)
  BY ProcsAssumption DEF TypeInv, OneWriter, InFlight

\* Every step keeps CountInv: a line is in flight from its write to its
\* replace, and a call that dies in between leaves it uncounted.
LEMMA NextCount == TypeInv /\ CountInv /\ [Next]_vars => CountInv'
<1> SUFFICES ASSUME TypeInv, CountInv, [Next]_vars PROVE CountInv'
  OBVIOUS
<1> USE Counts DEF files, history, Goto
<1>0. TypeInv'
  BY NextType
<1>1. ASSUME NEW p \in Procs, pc[p] \notin Critical, pc'[p] \notin Wrote,
             \A q \in Procs \ {p} : pc'[q] = pc[q],
             holder' = holder \/ (holder = None /\ holder' = p),
             UNCHANGED <<files, aborts>>
      PROVE  CountInv'
  <2>1. holder # p
    BY <1>1 DEF TypeInv, OneWriter
  <2>2. InFlight' <=> InFlight
    BY <1>1, <2>1 DEF InFlight, TypeInv, TypeOK
  <2> QED
    BY <1>1, <2>2 DEF CountInv
<1>2. ASSUME NEW p \in Procs, NEW kind \in {"trade", "kline"}, Call(p, kind)
      PROVE  CountInv'
  BY <1>1, <1>2 DEF Call, TypeInv, TypeOK, Critical, Wrote
<1>3. ASSUME NEW p \in Procs, Acquire(p) PROVE CountInv'
  BY <1>1, <1>3 DEF Acquire, LockFree, TypeInv, TypeOK, Critical, Wrote
<1>4. ASSUME NEW p \in Procs, LockTimeout(p) PROVE CountInv'
  BY <1>1, <1>4 DEF LockTimeout, TypeInv, TypeOK, Critical, Wrote
<1>5. ASSUME NEW p \in Procs, Write(p) PROVE CountInv'
  <2>1. pc[p] = "write" /\ pc'[p] = "read_meta"
    BY <1>5 DEF Write, TypeInv, TypeOK
  <2>2. holder = p /\ holder' = p
    BY <1>5, <2>1, Holder DEF Write, Critical
  <2>3. ~InFlight /\ InFlight'
    BY <2>1, <2>2, ProcsAssumption DEF Wrote, InFlight
  <2>4. Len(lines') = Len(lines) + (IF tail_open THEN 0 ELSE 1)
    BY <1>5, <2>1, AppendedType DEF Write, TypeInv, RecordInHand
  <2>5. tail_open' = FALSE /\ UNCHANGED <<meta, aborts>>
    BY <1>5 DEF Write
  <2> QED
    BY <2>3, <2>4, <2>5 DEF CountInv
<1>6. ASSUME NEW p \in Procs, ReadMeta(p) \/ WriteTmp(p) PROVE CountInv'
  <2>1. pc[p] \in Wrote /\ pc'[p] \in Wrote /\ holder' = holder
    BY <1>6 DEF ReadMeta, WriteTmp, TypeInv, TypeOK, Wrote
  <2>2. InFlight /\ InFlight'
    BY <2>1, Holder DEF Critical, Wrote, InFlight
  <2>3. UNCHANGED <<lines, tail_open, meta, aborts>>
    BY <1>6 DEF ReadMeta, WriteTmp
  <2> QED
    BY <2>2, <2>3 DEF CountInv
<1>7. ASSUME NEW p \in Procs, Replace(p) PROVE CountInv'
  <2>1. InFlight /\ ~InFlight'
    BY <1>7, Holder DEF Replace, Critical, Wrote, InFlight
  <2>2. meta'.record_count = meta.record_count + 1
    BY <1>7, UpdatedMetaType DEF Replace, TypeInv, SidecarComputed
  <2>3. UNCHANGED <<lines, tail_open, aborts>>
    BY <1>7 DEF Replace
  <2> QED
    BY <2>1, <2>2, <2>3 DEF CountInv
<1>8. ASSUME NEW p \in Procs, Abort(p) PROVE CountInv'
  <2>1. ~InFlight' /\ aborts' = aborts + 1 /\ UNCHANGED <<lines, tail_open, meta>>
    BY <1>8, Holder DEF Abort, LockAfterAbort, InFlight
  <2> QED
    BY <2>1 DEF CountInv
<1>9. ASSUME NEW p \in Procs, AbortTorn(p) PROVE CountInv'
  <2>1. ~InFlight' /\ aborts' = aborts + 1 /\ meta' = meta
    BY <1>9, Holder DEF AbortTorn, MetaAfterTornWrite, LockAfterAbort, InFlight, Critical
  <2>2. CASE pc[p] = "write"
    <3>1. ~InFlight
      BY <2>2, Holder DEF Critical, Wrote
    <3>2. /\ Len(lines') = Len(lines) + (IF tail_open THEN 0 ELSE 1)
          /\ tail_open' = TRUE
      BY <1>9, <2>2, AppendedType DEF AbortTorn, TypeInv
    <3> QED
      BY <2>1, <3>1, <3>2 DEF CountInv
  <2>3. CASE pc[p] = "write_tmp"
    <3>1. UNCHANGED <<lines, tail_open>>
      BY <1>9, <2>3 DEF AbortTorn
    <3> QED
      BY <2>1, <3>1 DEF CountInv
  <2> QED
    BY <1>9, <2>2, <2>3 DEF AbortTorn
<1>10. CASE UNCHANGED vars
  BY <1>10 DEF vars, CountInv, InFlight
<1> QED
  BY <1>2, <1>3, <1>4, <1>5, <1>6, <1>7, <1>8, <1>9, <1>10 DEF Next, Step

\* WriterInv holds in every reachable state.
LEMMA Invariance == Spec => []WriterInv
<1>1. Init => WriterInv
  BY InitInv
<1>2. WriterInv /\ [Next]_vars => WriterInv'
  BY NextType, NextCount DEF WriterInv
<1> QED
  BY <1>1, <1>2, PTL DEF Spec

\* Types; in particular the sidecar is never a part of one, although it is
\* read without the lock (lines 77-86, scripts/verify_raw.py).
THEOREM TypeCorrect == Spec => []TypeOK
<1>1. WriterInv => TypeOK
  BY DEF WriterInv, TypeInv
<1> QED
  BY <1>1, Invariance, PTL

\* Only the holder of the lock file is inside the with statement (line 41).
THEOREM MutualExclusion == Spec => []OneWriter
<1>1. WriterInv => OneWriter
  BY DEF WriterInv, TypeInv
<1> QED
  BY <1>1, Invariance, PTL

\* The sidecar never counts a line that is not there, and misses at most the
\* one in flight and one per call that died (lines 41-66).
THEOREM SidecarCounts == Spec => []CountBounds
<1>1. WriterInv => CountBounds
  <2> SUFFICES ASSUME WriterInv PROVE CountBounds
    OBVIOUS
  <2>1. TypeInv /\ CountInv
    BY DEF WriterInv
  <2> QED
    BY <2>1, Counts DEF CountInv, CountBounds
<1> QED
  BY <1>1, Invariance, PTL

-----------------------------------------------------------------------------
(* The records that cannot be read back.                                   *)

\* A record that was written, acknowledged or not, and has no line of its own.
Written == acked \cup {record[p] : p \in {q \in Procs : pc[q] \in Wrote}}

Glued == {r \in Written : \A i \in DOMAIN lines : lines[i] # r}

\* Each died call cost one record at most, and the one whose part of a line
\* still ends the file has yet to cost it: the next record will be glued to it.
GluedInv ==
    /\ IsFiniteSet(Glued)
    /\ Cardinality(Glued) + (IF tail_open THEN 1 ELSE 0) <= aborts

\* A file that is appended to keeps every line, and one that ended with a
\* whole line has the new one on a line of its own.
LEMMA AppendedLines ==
    ASSUME TypeOK, NEW x \in Records \cup {Corrupt}
    PROVE  /\ \A i \in DOMAIN lines :
                 i \in DOMAIN Appended(x) /\ Appended(x)[i] = lines[i]
           /\ ~tail_open => \E i \in DOMAIN Appended(x) : Appended(x)[i] = x
<1>1. lines \in Seq(Records \cup {Corrupt}) /\ Len(lines) \in Nat
  BY LenProperties DEF TypeOK
<1>2. DOMAIN lines = 1..Len(lines) /\ DOMAIN Append(lines, x) = 1..(Len(lines) + 1)
  BY <1>1
<1>3. /\ \A i \in 1..Len(lines) : Append(lines, x)[i] = lines[i]
      /\ Append(lines, x)[Len(lines) + 1] = x
  BY <1>1, AppendProperties
<1> QED
  BY <1>1, <1>2, <1>3 DEF Appended

\* A record is glued only by the step that writes it.
LEMMA GluedShrinks ==
    ASSUME TypeInv, GluedInv, Glued' \subseteq Glued, aborts' \in Nat,
           \/ aborts' = aborts /\ (tail_open' => tail_open)
           \/ aborts' = aborts + 1
    PROVE  GluedInv'
<1>1. /\ IsFiniteSet(Glued') /\ Cardinality(Glued') <= Cardinality(Glued)
      /\ Cardinality(Glued') \in Nat /\ Cardinality(Glued) \in Nat
  BY FS_Subset, FS_CardinalityType DEF GluedInv
<1>2. aborts \in Nat /\ tail_open \in BOOLEAN
  BY Counts
<1>3. Cardinality(Glued) + (IF tail_open THEN 1 ELSE 0) <= aborts
  BY DEF GluedInv
<1>4. Cardinality(Glued') + (IF tail_open' THEN 1 ELSE 0) <= aborts'
  BY <1>1, <1>2, <1>3
<1> QED
  BY <1>1, <1>4 DEF GluedInv

\* Every step keeps GluedInv: a torn line is paid for by the call that died.
LEMMA NextGlued == TypeInv /\ GluedInv /\ [Next]_vars => GluedInv'
<1> SUFFICES ASSUME TypeInv, GluedInv, [Next]_vars PROVE GluedInv'
  OBVIOUS
<1> USE DEF files, history, Goto
<1>0. aborts \in Nat /\ tail_open \in BOOLEAN /\ TypeOK
  BY Counts DEF TypeInv
<1>1. ASSUME Written' \subseteq Written, lines' = lines PROVE Glued' \subseteq Glued
  BY <1>1 DEF Glued
<1>2. ASSUME NEW p \in Procs, pc'[p] \notin Wrote,
             \A q \in Procs \ {p} : pc'[q] = pc[q] /\ record'[q] = record[q],
             acked' = acked
      PROVE  Written' \subseteq Written
  BY <1>2 DEF Written
<1>3. ASSUME NEW p \in Procs, NEW kind \in {"trade", "kline"}, Call(p, kind)
      PROVE  GluedInv'
  <2>1. Written' \subseteq Written
    BY <1>2, <1>3 DEF Call, TypeInv, TypeOK, Wrote
  <2> QED
    BY <1>0, <1>1, <1>3, <2>1, GluedShrinks DEF Call
<1>4. ASSUME NEW p \in Procs, Acquire(p) \/ LockTimeout(p) PROVE GluedInv'
  <2>1. Written' \subseteq Written
    BY <1>2, <1>4 DEF Acquire, LockTimeout, TypeInv, TypeOK, Wrote
  <2> QED
    BY <1>0, <1>1, <1>4, <2>1, GluedShrinks DEF Acquire, LockTimeout
<1>5. ASSUME NEW p \in Procs, Write(p) PROVE GluedInv'
  <2>1. /\ pc[p] = "write" /\ lines' = Appended(record[p]) /\ tail_open' = FALSE
        /\ pc' = [pc EXCEPT ![p] = "read_meta"]
        /\ record' = record /\ acked' = acked /\ aborts' = aborts
    BY <1>5 DEF Write
  <2>2. record[p] \in Records
    BY <2>1 DEF TypeInv, RecordInHand
  <2>3. Written' \subseteq Written \cup {record[p]}
    BY <2>1 DEF Written, TypeInv, TypeOK
  <2>4. /\ \A i \in DOMAIN lines : i \in DOMAIN lines' /\ lines'[i] = lines[i]
        /\ ~tail_open => \E i \in DOMAIN lines' : lines'[i] = record[p]
    BY <1>0, <2>1, <2>2, AppendedLines
  <2>5. Glued' \subseteq Glued \cup {record[p]}
    BY <2>3, <2>4 DEF Glued
  <2>6. CASE tail_open
    <3>1. IsFiniteSet(Glued) /\ Cardinality(Glued) \in Nat
      BY FS_CardinalityType DEF GluedInv
    <3>2. /\ IsFiniteSet(Glued \cup {record[p]})
          /\ Cardinality(Glued \cup {record[p]}) =
                IF record[p] \in Glued THEN Cardinality(Glued) ELSE Cardinality(Glued) + 1
      BY <3>1, FS_AddElement
    <3>3. IsFiniteSet(Glued') /\ Cardinality(Glued') <= Cardinality(Glued \cup {record[p]})
      BY <2>5, <3>2, FS_Subset
    <3>4. Cardinality(Glued') \in Nat
      BY <3>3, FS_CardinalityType
    <3> QED
      BY <1>0, <2>1, <2>6, <3>1, <3>2, <3>3, <3>4 DEF GluedInv
  <2>7. CASE ~tail_open
    <3>1. Glued' \subseteq Glued
      BY <2>3, <2>4, <2>7 DEF Glued
    <3> QED
      BY <1>0, <2>1, <2>7, <3>1, GluedShrinks
  <2> QED
    BY <2>6, <2>7
<1>6. ASSUME NEW p \in Procs, ReadMeta(p) \/ WriteTmp(p) PROVE GluedInv'
  <2>1. /\ pc[p] \in Wrote /\ record' = record /\ acked' = acked
        /\ \A q \in Procs \ {p} : pc'[q] = pc[q]
    BY <1>6 DEF ReadMeta, WriteTmp, TypeInv, TypeOK, Wrote
  <2>2. Written' \subseteq Written
    BY <2>1 DEF Written
  <2> QED
    BY <1>0, <1>1, <1>6, <2>2, GluedShrinks DEF ReadMeta, WriteTmp
<1>7. ASSUME NEW p \in Procs, Replace(p) PROVE GluedInv'
  <2>1. /\ pc[p] \in Wrote /\ pc'[p] \notin Wrote /\ record' = record
        /\ acked' = acked \cup {record[p]}
        /\ \A q \in Procs \ {p} : pc'[q] = pc[q]
    BY <1>7 DEF Replace, TypeInv, TypeOK, Wrote
  <2>2. Written' \subseteq Written
    BY <2>1 DEF Written
  <2> QED
    BY <1>0, <1>1, <1>7, <2>2, GluedShrinks DEF Replace
<1>8. ASSUME NEW p \in Procs, Abort(p) PROVE GluedInv'
  <2>1. Written' \subseteq Written
    BY <1>2, <1>8 DEF Abort, TypeInv, TypeOK, Wrote
  <2> QED
    BY <1>0, <1>1, <1>8, <2>1, GluedShrinks DEF Abort
<1>9. ASSUME NEW p \in Procs, AbortTorn(p) PROVE GluedInv'
  <2>1. /\ aborts' = aborts + 1
        /\ \/ lines' = Appended(Corrupt) /\ tail_open' = TRUE
           \/ lines' = lines /\ tail_open' = tail_open
    BY <1>9 DEF AbortTorn
  <2>2. Written' \subseteq Written
    BY <1>2, <1>9 DEF AbortTorn, TypeInv, TypeOK, Wrote
  <2>3. \A i \in DOMAIN lines : i \in DOMAIN lines' /\ lines'[i] = lines[i]
    BY <1>0, <2>1, AppendedLines
  <2>4. Glued' \subseteq Glued
    BY <2>2, <2>3 DEF Glued
  <2> QED
    BY <1>0, <2>1, <2>4, GluedShrinks
<1>10. CASE UNCHANGED vars
  BY <1>10 DEF vars, GluedInv, Glued, Written
<1> QED
  BY <1>3, <1>4, <1>5, <1>6, <1>7, <1>8, <1>9, <1>10 DEF Next, Step

\* What append_record acknowledged can be read back from a line of its own,
\* but for one record for each call that died (lines 41-66).
THEOREM Readable == Spec => []AckedReadable
<1>1. Init => GluedInv
  <2> SUFFICES ASSUME Init PROVE GluedInv
    OBVIOUS
  <2>1. Glued = {}
    BY DEF Init, Glued, Written, Wrote
  <2> QED
    BY <2>1, FS_EmptySet DEF Init, GluedInv
<1>2. WriterInv /\ GluedInv /\ [Next]_vars => GluedInv'
  BY NextGlued DEF WriterInv
<1>3. WriterInv /\ GluedInv => AckedReadable
  <2> SUFFICES ASSUME WriterInv, GluedInv PROVE AckedReadable
    OBVIOUS
  <2> DEFINE Lost == {r \in acked : \A i \in DOMAIN lines : lines[i] # r}
  <2>1. Lost \subseteq Glued
    BY DEF Glued, Written
  <2>2. /\ Cardinality(Lost) <= Cardinality(Glued)
        /\ Cardinality(Lost) \in Nat /\ Cardinality(Glued) \in Nat
    BY <2>1, FS_Subset, FS_CardinalityType DEF GluedInv
  <2>3. aborts \in Nat /\ tail_open \in BOOLEAN
    BY Counts DEF WriterInv
  <2> QED
    BY <2>2, <2>3 DEF GluedInv, AckedReadable
<1> QED
  BY <1>1, <1>2, <1>3, Invariance, PTL DEF Spec

-----------------------------------------------------------------------------
(* The writer implements AppendLog.                                        *)

\* Deaths are counted, and a sidecar is only replaced by one that counts more.
LEMMA CountsGrow ==
    ASSUME TypeInv, [Next]_vars
    PROVE  /\ aborts' \in Nat /\ aborts' >= aborts
           /\ meta'.record_count >= meta.record_count
<1> USE DEF files, history, Goto
<1>1. aborts \in Nat /\ meta.record_count \in Nat
  BY Counts
<1>2. ASSUME NEW p \in Procs, NEW kind \in {"trade", "kline"},
             \/ Call(p, kind) \/ Acquire(p) \/ LockTimeout(p)
             \/ Write(p) \/ ReadMeta(p) \/ WriteTmp(p)
      PROVE  aborts' = aborts /\ meta' = meta
  BY <1>2 DEF Call, Acquire, LockTimeout, Write, ReadMeta, WriteTmp
<1>3. ASSUME NEW p \in Procs, Replace(p)
      PROVE  aborts' = aborts /\ meta'.record_count = meta.record_count + 1
  <2>1. pc[p] # "idle" /\ meta' = UpdatedMeta(p) /\ aborts' = aborts
    BY <1>3 DEF Replace, TypeInv, SidecarComputed
  <2> QED
    BY <2>1, UpdatedMetaType
<1>4. ASSUME NEW p \in Procs, Abort(p) \/ AbortTorn(p)
      PROVE  aborts' = aborts + 1 /\ meta' = meta
  BY <1>4 DEF Abort, AbortTorn, MetaAfterTornWrite
<1>5. CASE UNCHANGED vars
  BY <1>1, <1>5 DEF vars
<1> QED
  BY <1>1, <1>2, <1>3, <1>4, <1>5 DEF Next, Step

\* The line in flight is the last one, and it is the record in hand.
LastLineInFlight ==
    /\ tail_open = FALSE
    /\ \A p \in Procs :
          pc[p] \in Wrote => Len(lines) > 0 /\ lines[Len(lines)] = record[p]

\* Until a death no line is torn, and the last line is stable in flight.
LEMMA NextLastLine ==
    ASSUME aborts' = 0, TypeInv, LastLineInFlight, [Next]_vars
    PROVE  LastLineInFlight'
<1> USE DEF files, history, Goto
<1>0. ASSUME NEW p \in Procs, Abort(p) \/ AbortTorn(p) PROVE FALSE
  BY <1>0, Counts DEF Abort, AbortTorn
<1>1. ASSUME NEW p \in Procs, pc'[p] \notin Wrote \/ pc[p] \in Wrote,
             \A q \in Procs \ {p} : pc'[q] = pc[q],
             pc[p] = "idle" \/ record'[p] = record[p],
             \A q \in Procs \ {p} : record'[q] = record[q],
             pc'[p] \in Wrote => record'[p] = record[p],
             UNCHANGED <<lines, tail_open>>
      PROVE  LastLineInFlight'
  BY <1>1 DEF LastLineInFlight
<1>2. ASSUME NEW p \in Procs, NEW kind \in {"trade", "kline"}, Call(p, kind)
      PROVE  LastLineInFlight'
  BY <1>1, <1>2 DEF Call, TypeInv, TypeOK, Wrote
<1>3. ASSUME NEW p \in Procs,
             Acquire(p) \/ LockTimeout(p) \/ ReadMeta(p) \/ WriteTmp(p) \/ Replace(p)
      PROVE  LastLineInFlight'
  BY <1>1, <1>3
  DEF Acquire, LockTimeout, ReadMeta, WriteTmp, Replace, TypeInv, TypeOK, Wrote
<1>4. ASSUME NEW p \in Procs, Write(p) PROVE LastLineInFlight'
  <2>1. lines' = Append(lines, record[p]) /\ tail_open' = FALSE /\ record' = record
    BY <1>4 DEF Write, Appended, LastLineInFlight
  <2>2. lines \in Seq(Records \cup {Corrupt}) /\ record[p] \in Records
    BY <1>4 DEF Write, TypeInv, TypeOK, RecordInHand
  <2>3. Len(lines') = Len(lines) + 1 /\ lines'[Len(lines) + 1] = record[p]
    BY <2>1, <2>2, AppendProperties
  <2>4. Len(lines) \in Nat
    BY Counts
  <2>5. \A q \in Procs : pc'[q] \in Wrote => q = p
    BY <1>4, ProcsAssumption DEF Write, TypeInv, TypeOK, OneWriter, Wrote, Critical
  <2> QED
    BY <2>1, <2>3, <2>4, <2>5 DEF LastLineInFlight
<1>5. CASE UNCHANGED vars
  BY <1>5 DEF vars, LastLineInFlight
<1> QED
  BY <1>0, <1>2, <1>3, <1>4, <1>5 DEF Next, Step

\* Only Replace is visible, and it appends the record in hand.
LEMMA StepSimulation ==
    ASSUME aborts' = 0, TypeInv, LastLineInFlight, [Next]_vars
    PROVE  [\E r \in Records : AbstractLog!AppendRecord(r)]_<<VisibleLog, meta, aborts>>
<1> USE DEF files, history, Goto
<1>0. ASSUME NEW p \in Procs, Abort(p) \/ AbortTorn(p) PROVE FALSE
  BY <1>0, Counts DEF Abort, AbortTorn
<1>a. aborts = 0
  BY Counts, CountsGrow
<1>1. lines \in Seq(Records \cup {Corrupt}) /\ Len(lines) \in Nat
  BY Counts DEF TypeInv, TypeOK
<1>2. ASSUME NEW p \in Procs, pc[p] \notin Critical, pc'[p] \notin Wrote,
             \A q \in Procs \ {p} : pc'[q] = pc[q],
             holder' = holder \/ (holder = None /\ holder' = p),
             UNCHANGED files
      PROVE  UNCHANGED <<VisibleLog, meta>>
  <2>1. holder # p
    BY <1>2 DEF TypeInv, OneWriter
  <2>2. InFlight' <=> InFlight
    BY <1>2, <2>1 DEF InFlight, TypeInv, TypeOK
  <2> QED
    BY <1>2, <2>2 DEF VisibleLog
<1>3. ASSUME NEW p \in Procs, NEW kind \in {"trade", "kline"}, Call(p, kind)
      PROVE  UNCHANGED <<VisibleLog, meta>>
  BY <1>2, <1>3 DEF Call, TypeInv, TypeOK, Critical, Wrote
<1>4. ASSUME NEW p \in Procs, Acquire(p) \/ LockTimeout(p)
      PROVE  UNCHANGED <<VisibleLog, meta>>
  BY <1>2, <1>4 DEF Acquire, LockTimeout, LockFree, TypeInv, TypeOK, Critical, Wrote
<1>5. ASSUME NEW p \in Procs, Write(p) PROVE UNCHANGED <<VisibleLog, meta>>
  <2>1. pc[p] = "write" /\ pc'[p] = "read_meta" /\ holder' = holder /\ meta' = meta
    BY <1>5 DEF Write, TypeInv, TypeOK
  <2>2. holder = p
    BY <2>1, Holder DEF Critical
  <2>3. ~InFlight /\ InFlight'
    BY <2>1, <2>2, ProcsAssumption DEF Wrote, InFlight
  <2>4. record[p] \in Records /\ lines' = Append(lines, record[p])
    BY <1>5, <2>1 DEF Write, Appended, LastLineInFlight, TypeInv, RecordInHand
  <2>5. SubSeq(Append(lines, record[p]), 1, Len(lines)) = lines
    BY <1>1, <2>4
  <2>6. Len(lines') = Len(lines) + 1
    BY <1>1, <2>4, AppendProperties
  <2>7. VisibleLog' = SubSeq(lines', 1, Len(lines))
    BY <1>1, <2>3, <2>6 DEF VisibleLog
  <2> QED
    BY <2>1, <2>3, <2>4, <2>5, <2>7 DEF VisibleLog
<1>6. ASSUME NEW p \in Procs, ReadMeta(p) \/ WriteTmp(p)
      PROVE  UNCHANGED <<VisibleLog, meta>>
  <2>1. pc[p] \in Wrote /\ pc'[p] \in Wrote /\ UNCHANGED <<holder, lines, meta>>
    BY <1>6 DEF ReadMeta, WriteTmp, TypeInv, TypeOK, Wrote
  <2>2. InFlight /\ InFlight'
    BY <2>1, Holder DEF Critical, Wrote, InFlight
  <2> QED
    BY <2>1, <2>2 DEF VisibleLog
<1>7. ASSUME NEW p \in Procs, Replace(p)
      PROVE  AbstractLog!AppendRecord(record[p]) /\ record[p] \in Records
  <2>1. pc[p] = "replace" /\ record[p] \in Records /\ lines' = lines
    BY <1>7 DEF Replace, TypeInv, RecordInHand
  <2>2. InFlight /\ ~InFlight'
    BY <1>7, Holder DEF Replace, Critical, Wrote, InFlight
  <2>3. Len(lines) > 0 /\ lines[Len(lines)] = record[p]
    BY <2>1 DEF LastLineInFlight, Wrote
  <2>4. lines = Append(SubSeq(lines, 1, Len(lines) - 1), record[p])
    BY <1>1, <2>3
  <2>5. VisibleLog' = Append(VisibleLog, record[p])
    BY <2>1, <2>2, <2>4 DEF VisibleLog
  <2>6. meta' = AbstractLog!Account(meta, record[p])
    BY <1>7, <2>1
    DEF Replace, TypeInv, SidecarComputed, UpdatedMeta, Log!Account, AbstractLog!Account
  <2> QED
    BY <1>7, <1>a, <2>1, <2>5, <2>6 DEF Replace, AbstractLog!AppendRecord
<1>8. CASE UNCHANGED vars
  BY <1>8 DEF vars, VisibleLog, InFlight
<1>9. aborts' = aborts
  BY <1>a
<1> QED
  BY <1>0, <1>3, <1>4, <1>5, <1>6, <1>7, <1>8, <1>9 DEF Next, Step

\* What append_record promises on line 30 holds until a call dies: for a
\* reader that takes the lock, record and sidecar change in one step.
THEOREM Refinement == Spec => ImplementsAppendLog
<1> DEFINE Inv == TypeInv /\ (aborts = 0 => LastLineInFlight)
           AbstractStep == AbstractLog!Spoiled \/ \E r \in Records : AbstractLog!AppendRecord(r)
<1>1. Init => Inv
  BY InitInv DEF WriterInv, Init, LastLineInFlight, Wrote
<1>2. Inv /\ [Next]_vars => Inv'
  <2> SUFFICES ASSUME Inv, [Next]_vars PROVE Inv'
    OBVIOUS
  <2>1. aborts' = 0 => aborts = 0
    BY Counts, CountsGrow
  <2> QED
    BY <2>1, NextType, NextLastLine
<1>3. Init => AbstractLog!Init
  BY DEF Init, VisibleLog, InFlight, AbstractLog!Init, AbstractLog!EmptySidecar,
         Log!EmptySidecar
<1>4. Inv /\ [Next]_vars => [AbstractStep]_<<VisibleLog, meta, aborts>>
  <2> SUFFICES ASSUME Inv, [Next]_vars
               PROVE  [AbstractStep]_<<VisibleLog, meta, aborts>>
    OBVIOUS
  <2>1. /\ aborts \in Nat /\ aborts' \in Nat /\ aborts' >= aborts
        /\ meta'.record_count >= meta.record_count
    BY Counts, CountsGrow
  <2>2. CASE aborts' = 0
    BY <2>1, <2>2, StepSimulation
  <2>3. CASE aborts' # 0
    BY <2>1, <2>3 DEF AbstractLog!Spoiled
  <2> QED
    BY <2>2, <2>3
<1> QED
  BY <1>1, <1>2, <1>3, <1>4, PTL DEF Spec, ImplementsAppendLog, AbstractLog!Spec
=============================================================================
