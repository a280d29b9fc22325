----------------------------- MODULE KeyClaims -----------------------------
(***************************************************************************)
(* What the dedup keys promise to the code that takes one before it works  *)
(* on a record: _is_duplicate of src/features/cleaning.py and              *)
(* _is_duplicate_kline of src/ingestion/rest_client.py.  A key is taken    *)
(* once, by one taker, which has one key at a time.  Its record is done or *)
(* lost, and either of them for good.                                      *)
(***************************************************************************)
CONSTANTS Keys, Takers, None

VARIABLES
    fate,  \* fate[k]: "free", "taken", "done" or "lost"
    held   \* held[t]: the key that t works on

vars == <<fate, held>>

\* What another program has done before counts as done.
Init ==
    /\ fate \in [Keys -> {"free", "done"}]
    /\ held = [t \in Takers |-> None]

Take(t, k) ==
    /\ held[t] = None
    /\ fate[k] = "free"
    /\ fate' = [fate EXCEPT ![k] = "taken"]
    /\ held' = [held EXCEPT ![t] = k]

\* The taker has done its work, or it dies or rejects the record.
Settle(t, outcome) ==
    /\ held[t] # None
    /\ fate' = [fate EXCEPT ![held[t]] = outcome]
    /\ held' = [held EXCEPT ![t] = None]

Next ==
    \E t \in Takers :
        (\E k \in Keys : Take(t, k)) \/ (\E outcome \in {"done", "lost"} : Settle(t, outcome))

Spec == Init /\ [][Next]_vars
=============================================================================
