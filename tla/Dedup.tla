------------------------------- MODULE Dedup -------------------------------
(***************************************************************************)
(* Deduplication: DataCleaner._is_duplicate and the REST client's          *)
(* _is_duplicate_kline over PersistentBloomRegistry (src/utils/bloom.py).  *)
(* A key is first claimed in Redis (SET NX with a time to live) and then   *)
(* looked up in a Bloom filter.  A process has two registries of filters,  *)
(* the cleaner's and the REST client's, each with a file of its own behind *)
(* the one Redis key of a candle; a trade goes through the cleaner's only. *)
(* Each process has its own copy of both filters and takes no lock on      *)
(* their files.  The model follows one symbol; the records of a process    *)
(* come one after the other (its loop also runs the backfill).             *)
(***************************************************************************)
EXTENDS Integers, FiniteSets

CONSTANTS
    Procs,          \* processes that may use the same .bloom files
    Keys,           \* dedup keys of the symbol
    AutosaveEvery,  \* additions between two saves
    Faults,         \* failures that may be among those of a behaviour
    None,
    MaxOffers       \* bound: records offered

\* "expire": the time to live of a Redis key runs out, or Redis loses it.
\* "crash": a process dies, or a claim is cut off.  "io": a file cannot be
\* written or read.  "false_positive": a filter claims a key it was not given.
AllFaults == {"expire", "crash", "io", "false_positive"}

\* <dedup_bloom_dir>/cleaner and <dedup_bloom_dir>/rest.
Registries == {"cleaner", "rest"}

\* A registry in the memory of a process.
Copies == Procs \X Registries

ASSUME FaultsAssumption   == Faults \subseteq AllFaults
ASSUME NoneAssumption     == None \notin Keys
ASSUME BoundsAssumption   == MaxOffers \in Nat /\ AutosaveEvery \in Nat \ {0}

VARIABLES
    faults,    \* the failures of this behaviour
    running,   \* the processes of this behaviour
    pc,        \* pc[p]: "idle", the registry to look the claimed key up in,
               \* or "closing" between the saves of the two at the end
    key,       \* key[p]: the key of the record in hand
    loaded,    \* copies that hold the filter of the symbol
    mem,       \* mem[c]: the keys in that filter
    dirty,     \* dirty[c]: additions since the last save
    disk,      \* disk[r]: keys in the .bloom file of the registry
    claimed,   \* the live Redis keys
    admitted,  \* history: admitted[r][k] says how often r found k to be new
    offers     \* history: number of records offered

setting == <<faults, running>>
vars    == <<setting, pc, key, loaded, mem, dirty, disk, claimed, admitted, offers>>

\* A counter that reaches AutosaveEvery is saved away, where saves work.
DirtyCounts == IF "io" \in faults THEN Nat ELSE 0..(AutosaveEvery - 1)

TypeOK ==
    /\ faults \subseteq Faults
    /\ running \subseteq Procs
    /\ pc \in [Procs -> {"idle", "closing"} \cup Registries]
    /\ key \in [Procs -> Keys \cup {None}]
    /\ loaded \subseteq Copies
    /\ mem \in [Copies -> SUBSET Keys]
    /\ dirty \in [Copies -> DirtyCounts]
    /\ disk \in [Registries -> SUBSET Keys]
    /\ claimed \subseteq Keys
    /\ admitted \in [Registries -> [Keys -> Nat]]
    /\ offers \in 0..MaxOffers

Init ==
    /\ faults \in SUBSET Faults
    /\ running \in SUBSET Procs
    /\ pc = [p \in Procs |-> "idle"]
    /\ key = [p \in Procs |-> None]
    /\ loaded = {}
    /\ mem = [c \in Copies |-> {}]
    /\ dirty = [c \in Copies |-> 0]
    /\ disk = [r \in Registries |-> {}]
    /\ claimed = {}
    /\ admitted = [r \in Registries |-> [k \in Keys |-> 0]]
    /\ offers = 0

-----------------------------------------------------------------------------
\* Mutation: the claim is set without NX.
ClaimIsNewAlways(k) == TRUE

ClaimIsNew(k) == k \notin claimed

\* SET key NX EX ttl, by the cleaner or the REST client of p: a key that is
\* there makes the record a duplicate.
Claim(p, r, k) ==
    /\ pc[p] = "idle"
    /\ offers < MaxOffers
    /\ offers' = offers + 1
    /\ IF ClaimIsNew(k)
       THEN /\ claimed' = claimed \cup {k}
            /\ pc' = [pc EXCEPT ![p] = r]
            /\ key' = [key EXCEPT ![p] = k]
       ELSE UNCHANGED <<claimed, pc, key>>
    /\ UNCHANGED <<setting, loaded, mem, dirty, disk, admitted>>

\* The reply to the claim is lost, or the task is cancelled at its await: the
\* key is set, and the filter is not asked.
CutOff(p) ==
    /\ "crash" \in faults
    /\ pc[p] \in Registries
    /\ pc' = [pc EXCEPT ![p] = "idle"]
    /\ key' = [key EXCEPT ![p] = None]
    /\ UNCHANGED <<setting, loaded, mem, dirty, disk, claimed, admitted, offers>>

\* Mutation: the file is ignored, a fresh filter is used.
FilesReadableNever(r) == {{}}

\* What _get_or_load can find in the file of r: a load that fails gives an
\* empty filter.
FileContents(r) == {disk[r]} \cup (IF "io" \in faults THEN {{}} ELSE {})

\* The possible filters of p: the one in memory, else one from the file.
Loaded(p, r) == IF <<p, r>> \in loaded THEN {mem[<<p, r>>]} ELSE FileContents(r)

\* The file of r after a save of this filter, which replaces it or fails.
SaveOutcomes(r, filter) == {filter} \cup (IF "io" \in faults THEN {disk[r]} ELSE {})

\* Mutation: the key is added before it is looked up.
InFilterAfterAdd(filter, k) == TRUE

InFilter(filter, k) == k \in filter

\* Mutation: one addition too many between two saves.
SaveDueLate(writes) == writes > AutosaveEvery

SaveDue(writes) == writes >= AutosaveEvery

\* check_and_add, in one go: it holds no await.
CheckAndAdd(p, r) ==
    /\ pc[p] = r
    /\ pc' = [pc EXCEPT ![p] = "idle"]
    /\ key' = [key EXCEPT ![p] = None]
    /\ loaded' = loaded \cup {<<p, r>>}
    /\ \E filter \in Loaded(p, r) :
          \/ /\ InFilter(filter, key[p]) \/ "false_positive" \in faults
             /\ mem' = [mem EXCEPT ![<<p, r>>] = filter]
             /\ dirty' = [dirty EXCEPT ![<<p, r>>] = IF <<p, r>> \in loaded THEN @ ELSE 0]
             /\ UNCHANGED <<disk, admitted>>
          \/ /\ ~InFilter(filter, key[p])
             /\ mem' = [mem EXCEPT ![<<p, r>>] = filter \cup {key[p]}]
             /\ admitted' = [admitted EXCEPT ![r][key[p]] = @ + 1]
             /\ LET writes == (IF <<p, r>> \in loaded THEN dirty[<<p, r>>] ELSE 0) + 1
                IN  IF ~SaveDue(writes)
                    THEN /\ dirty' = [dirty EXCEPT ![<<p, r>>] = writes]
                         /\ UNCHANGED disk
                    ELSE \E saved \in SaveOutcomes(r, filter \cup {key[p]}) :
                             /\ disk' = [disk EXCEPT ![r] = saved]
                             /\ dirty' = [dirty EXCEPT ![<<p, r>>] =
                                    IF saved = filter \cup {key[p]} THEN 0 ELSE writes]
    /\ UNCHANGED <<setting, claimed, offers>>

\* A save with the process going on: flush_state by the midnight watcher, a
\* task of its own, at any time, and flush_symbol at the end of a sync.
Flush(p, r) ==
    /\ r = "rest" => pc[p] = "idle"
    /\ <<p, r>> \in loaded
    /\ \E saved \in SaveOutcomes(r, mem[<<p, r>>]) :
          /\ disk' = [disk EXCEPT ![r] = saved]
          /\ dirty' = [dirty EXCEPT ![<<p, r>>] = IF saved = mem[<<p, r>>] THEN 0 ELSE @]
    /\ UNCHANGED <<setting, pc, key, loaded, mem, claimed, admitted, offers>>

\* Mutation: nothing is saved at the end.
SavedAtCloseNothing(p, r) == {disk[r]}

\* flush_all saves the filters that were loaded.
SavedAtClose(p, r) ==
    IF <<p, r>> \in loaded THEN SaveOutcomes(r, mem[<<p, r>>]) ELSE {disk[r]}

SaveAndUnload(p, r) ==
    /\ \E saved \in SavedAtClose(p, r) : disk' = [disk EXCEPT ![r] = saved]
    /\ loaded' = loaded \ {<<p, r>>}
    /\ mem' = [mem EXCEPT ![<<p, r>>] = {}]
    /\ dirty' = [dirty EXCEPT ![<<p, r>>] = 0]
    /\ UNCHANGED <<setting, key, claimed, admitted, offers>>

\* A process ends in an orderly way: it saves the cleaner's filter ...
Stop(p) ==
    /\ pc[p] = "idle"
    /\ pc' = [pc EXCEPT ![p] = "closing"]
    /\ SaveAndUnload(p, "cleaner")

\* ... and then that of the REST client; it may be started again.
Close(p) ==
    /\ pc[p] = "closing"
    /\ pc' = [pc EXCEPT ![p] = "idle"]
    /\ SaveAndUnload(p, "rest")

\* A process dies, perhaps between its claim and the filter.
Crash(p) ==
    /\ "crash" \in faults
    /\ pc' = [pc EXCEPT ![p] = "idle"]
    /\ key' = [key EXCEPT ![p] = None]
    /\ loaded' = {c \in loaded : c[1] # p}
    /\ mem' = [c \in Copies |-> IF c[1] = p THEN {} ELSE mem[c]]
    /\ dirty' = [c \in Copies |-> IF c[1] = p THEN 0 ELSE dirty[c]]
    /\ UNCHANGED <<setting, disk, claimed, admitted, offers>>

Expire(k) ==
    /\ "expire" \in faults
    /\ k \in claimed
    /\ claimed' = claimed \ {k}
    /\ UNCHANGED <<setting, pc, key, loaded, mem, dirty, disk, admitted, offers>>

Next ==
    \/ \E p \in running :
          \/ \E r \in Registries :
                (\E k \in Keys : Claim(p, r, k)) \/ CheckAndAdd(p, r) \/ Flush(p, r)
          \/ CutOff(p) \/ Stop(p) \/ Close(p) \/ Crash(p)
    \/ \E k \in Keys : Expire(k)

Spec == Init /\ [][Next]_vars

-----------------------------------------------------------------------------
(* Properties. *)

OneProcess == \A p, q \in running : p = q

Admissions(k) == admitted["cleaner"][k] + admitted["rest"][k]

\* "Restart-safe deduplication": while Redis keeps its keys, a key is found to
\* be new at most once by all processes and both registries together, whatever
\* crashes and files do.  Although Redis drops keys, one process that ends in
\* an orderly way finds it new at most once in each registry: the cleaner's
\* and the REST client's do not know of each other.
AdmitOnce ==
    \A k \in Keys :
        /\ "expire" \notin faults => Admissions(k) <= 1
        /\ OneProcess /\ faults \cap {"crash", "io"} = {} =>
               \A r \in Registries : admitted[r][k] <= 1

\* A key that Redis holds was admitted, or is about to be looked up: without
\* a death no record is rejected as the duplicate of one that nobody took.
NoOrphanClaim ==
    faults \cap {"crash", "false_positive"} = {} =>
        \A k \in claimed :
            Admissions(k) > 0 \/ \E p \in running : pc[p] \in Registries /\ key[p] = k

\* With one process, fewer keys than AutosaveEvery are in the memory of a
\* registry only: that is what a crash can lose (autosave_every).
UnsavedBounded ==
    OneProcess /\ "io" \notin faults =>
        \A p \in running, r \in Registries :
            Cardinality(mem[<<p, r>>] \ disk[r]) < AutosaveEvery

\* With one process a file only grows: what was saved stays saved, also by
\* the process that comes after a crash.
SavedKeysStay ==
    [][OneProcess /\ "io" \notin faults =>
           \A r \in Registries : disk[r] \subseteq disk'[r]]_vars
-----------------------------------------------------------------------------
(* Deduplication implements KeyClaims. *)

FateOf(k) ==
    IF Admissions(k) > 1 THEN "twice"
    ELSE IF Admissions(k) = 1 THEN "done"
    ELSE IF \E p \in Procs : key[p] = k THEN "taken"
    ELSE IF k \in claimed THEN "lost" ELSE "free"

Claims == INSTANCE KeyClaims WITH
    Takers <- Procs,
    fate   <- [k \in Keys |-> FateOf(k)],
    held   <- key

\* While Redis keeps its keys, each step takes or settles one key: whatever
\* the filters and their files do, a key that a crash or a false positive
\* made nobody's stays nobody's (_is_duplicate).
ImplementsKeyClaims ==
    Claims!Init /\ [][("expire" \notin faults) => [Claims!Next]_(Claims!vars)]_vars

=============================================================================
