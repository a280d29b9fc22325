----------------------------- MODULE AppendLog -----------------------------
(***************************************************************************)
(* What append_record of src/ingestion/writer.py promises: "append one     *)
(* JSON record and update the paired .meta sidecar atomically".  The log   *)
(* and the sidecar that describes it change in one step, until a call      *)
(* dies; from then on only the count of the sidecar is known to grow.      *)
(***************************************************************************)
EXTENDS Naturals, Sequences

CONSTANTS Records, None

VARIABLES log, sidecar, deaths

\* The sidecar of an empty log; a missing file reads as this one.
EmptySidecar == [record_count |-> 0, last_trade_id |-> None, last_ts |-> None]

\* The sidecar after one more record: a kline keeps the last trade id.
Account(meta, r) ==
    [record_count  |-> meta.record_count + 1,
     last_trade_id |-> IF r.kind = "trade" THEN r.n ELSE meta.last_trade_id,
     last_ts       |-> r.n]

Init == log = <<>> /\ sidecar = EmptySidecar /\ deaths = 0

AppendRecord(r) ==
    /\ deaths = 0
    /\ log' = Append(log, r)
    /\ sidecar' = Account(sidecar, r)
    /\ UNCHANGED deaths

\* A call dies, or has died.
Spoiled ==
    /\ deaths' > 0 /\ deaths' >= deaths
    /\ sidecar'.record_count >= sidecar.record_count

Spec == Init /\ [][Spoiled \/ \E r \in Records : AppendRecord(r)]_<<log, sidecar, deaths>>
=============================================================================
