---------------------------- MODULE DedupProofs ----------------------------
(***************************************************************************)
(* Theorems about Dedup: the two ways in which a key is admitted once, by  *)
(* Redis as long as it keeps its keys, and by each registry as long as one *)
(* process uses it and ends in an orderly way; that no claim is left       *)
(* behind without a death; and what one process keeps in its files.        *)
(***************************************************************************)
EXTENDS Dedup, TLAPS, FiniteSetTheorems

\* Whoever is between the claim and the filter has a key in hand.
Pending(p, k) == pc[p] \in Registries /\ key[p] = k

KeyInHand == \A p \in Procs : pc[p] \in Registries => key[p] \in Keys

TypeInv == TypeOK /\ KeyInHand /\ loaded \subseteq running \X Registries

\* What a behaviour may meet is settled at its start.
LEMMA SameSetting == [Next]_vars => faults' = faults /\ running' = running
  BY DEF Next, vars, setting, Claim, CutOff, CheckAndAdd, Flush, Stop, Close, SaveAndUnload,
         Crash, Expire

\* A file that can be saved or loaded holds keys.
LEMMA FileTypes ==
    ASSUME TypeInv, NEW p \in Procs, NEW r \in Registries
    PROVE  /\ \A filter \in Loaded(p, r) : filter \subseteq Keys
           /\ \A filter \in SUBSET Keys : SaveOutcomes(r, filter) \subseteq SUBSET Keys
           /\ SavedAtClose(p, r) \subseteq SUBSET Keys
<1>1. <<p, r>> \in Copies
  BY DEF Copies
<1>2. mem[<<p, r>>] \subseteq Keys /\ disk[r] \subseteq Keys
  BY <1>1 DEF TypeInv, TypeOK
<1> QED
  BY <1>2 DEF Loaded, FileContents, SaveOutcomes, SavedAtClose

\* A counter may be reset, and counts on until a save is due.
LEMMA Counting ==
    /\ 0 \in DirtyCounts /\ DirtyCounts \subseteq Nat
    /\ \A writes \in Nat : "io" \in faults \/ ~SaveDue(writes) => writes \in DirtyCounts
  BY BoundsAssumption DEF DirtyCounts, SaveDue

LEMMA InitType == Init => TypeInv
<1> SUFFICES ASSUME Init PROVE TypeInv
  OBVIOUS
<1>1. /\ pc \in [Procs -> {"idle", "closing"} \cup Registries]
      /\ key \in [Procs -> Keys \cup {None}] /\ loaded = {}
      /\ mem \in [Copies -> SUBSET Keys] /\ disk \in [Registries -> SUBSET Keys]
  BY DEF Init
<1>2. dirty \in [Copies -> DirtyCounts] /\ admitted \in [Registries -> [Keys -> Nat]]
  BY Counting DEF Init
<1>3. /\ faults \subseteq Faults /\ running \subseteq Procs /\ claimed \subseteq Keys
      /\ offers \in 0..MaxOffers
  BY BoundsAssumption DEF Init
<1>4. KeyInHand
  BY DEF Init, KeyInHand, Registries
<1> QED
  BY <1>1, <1>2, <1>3, <1>4 DEF TypeInv, TypeOK

\* What all registries admitted, and what one of them did.
LEMMA Admission ==
    ASSUME TypeInv, NEW k \in Keys
    PROVE  /\ Admissions(k) \in Nat
           /\ \A r \in Registries : admitted[r][k] \in Nat /\ admitted[r][k] <= Admissions(k)
<1>1. admitted["cleaner"] \in [Keys -> Nat] /\ admitted["rest"] \in [Keys -> Nat]
  BY DEF TypeInv, TypeOK, Registries
<1>2. Admissions(k) \in Nat
  BY <1>1 DEF Admissions
<1>3. ASSUME NEW r \in Registries PROVE admitted[r][k] \in Nat /\ admitted[r][k] <= Admissions(k)
  BY <1>1 DEF Admissions, Registries
<1> QED
  BY <1>2, <1>3

\* The registry finds the key to be new.
AdmittedBy(r, k) == admitted' = [admitted EXCEPT ![r][k] = @ + 1]

\* One more admission of a key by a registry is one more in all.
LEMMA OneMoreAdmission ==
    ASSUME TypeInv, NEW r \in Registries, NEW k \in Keys, AdmittedBy(r, k)
    PROVE  /\ admitted' \in [Registries -> [Keys -> Nat]]
           /\ Admissions(k)' = Admissions(k) + 1
           /\ \A j \in Keys : j # k => Admissions(j)' = Admissions(j)
<1>1. admitted["cleaner"] \in [Keys -> Nat] /\ admitted["rest"] \in [Keys -> Nat]
  BY DEF TypeInv, TypeOK, Registries
<1>2. admitted \in [Registries -> [Keys -> Nat]]
  BY DEF TypeInv, TypeOK
<1>3. /\ admitted'[r] = [admitted[r] EXCEPT ![k] = @ + 1]
      /\ \A s \in Registries : s # r => admitted'[s] = admitted[s]
  BY <1>2 DEF AdmittedBy
<1>4. admitted' \in [Registries -> [Keys -> Nat]]
  BY <1>2 DEF AdmittedBy
<1>5. CASE r = "cleaner"
  <2>1. admitted'["cleaner"] = [admitted["cleaner"] EXCEPT ![k] = @ + 1] /\ admitted'["rest"] = admitted["rest"]
    BY <1>3, <1>5 DEF Registries
  <2> QED
    BY <1>1, <1>4, <2>1 DEF Admissions
<1>6. CASE r = "rest"
  <2>1. admitted'["rest"] = [admitted["rest"] EXCEPT ![k] = @ + 1] /\ admitted'["cleaner"] = admitted["cleaner"]
    BY <1>3, <1>6 DEF Registries
  <2>2. /\ admitted'["rest"][k] = admitted["rest"][k] + 1
        /\ \A j \in Keys : j # k => admitted'["rest"][j] = admitted["rest"][j]
    BY <1>1, <2>1
  <2>3. Admissions(k)' = Admissions(k) + 1
    BY <1>1, <2>1, <2>2 DEF Admissions
  <2>4. \A j \in Keys : j # k => Admissions(j)' = Admissions(j)
    BY <2>1, <2>2 DEF Admissions
  <2> QED
    BY <1>4, <2>3, <2>4
<1> QED
  BY <1>5, <1>6 DEF Registries

\* The two verdicts on the key in hand, over what was in the filter.
Before(p, r) == IF <<p, r>> \in loaded THEN dirty[<<p, r>>] ELSE 0

IsFound(p, r, filter) ==
    /\ InFilter(filter, key[p]) \/ "false_positive" \in faults
    /\ mem' = [mem EXCEPT ![<<p, r>>] = filter]
    /\ dirty' = [dirty EXCEPT ![<<p, r>>] = Before(p, r)]
    /\ disk' = disk /\ admitted' = admitted

IsAdmitted(p, r, filter, saved, count) ==
    /\ ~InFilter(filter, key[p])
    /\ mem' = [mem EXCEPT ![<<p, r>>] = filter \cup {key[p]}]
    /\ dirty' = [dirty EXCEPT ![<<p, r>>] = count]
    /\ disk' = [disk EXCEPT ![r] = saved]
    /\ AdmittedBy(r, key[p])
    /\ \/ saved = disk[r] /\ count = Before(p, r) + 1
       \/ saved = filter \cup {key[p]} /\ count = 0

\* What a lookup does to the filter, the file and the verdict.
LEMMA Lookup ==
    ASSUME TypeInv, NEW p \in running, NEW r \in Registries, CheckAndAdd(p, r)
    PROVE  /\ p \in Procs /\ <<p, r>> \in Copies /\ key[p] \in Keys /\ Before(p, r) \in DirtyCounts
           /\ \E filter \in Loaded(p, r) :
                 /\ filter \subseteq Keys
                 /\ \/ IsFound(p, r, filter)
                    \/ \E saved \in SUBSET Keys, count \in DirtyCounts :
                          IsAdmitted(p, r, filter, saved, count)
<1>0. p \in Procs /\ <<p, r>> \in Copies /\ key[p] \in Keys
  BY DEF CheckAndAdd, TypeInv, TypeOK, KeyInHand, Copies
<1>1. Before(p, r) \in DirtyCounts /\ Before(p, r) \in Nat
  <2>1. dirty[<<p, r>>] \in DirtyCounts
    BY <1>0 DEF TypeInv, TypeOK
  <2>2. 0 \in DirtyCounts /\ DirtyCounts \subseteq Nat
    BY Counting
  <2> QED
    BY <2>1, <2>2 DEF Before
<1>2. disk = [disk EXCEPT ![r] = disk[r]] /\ disk[r] \subseteq Keys
  BY DEF TypeInv, TypeOK
<1> DEFINE Due(filter, writes) ==
               IF ~SaveDue(writes)
               THEN dirty' = [dirty EXCEPT ![<<p, r>>] = writes] /\ UNCHANGED disk
               ELSE \E saved \in SaveOutcomes(r, filter \cup {key[p]}) :
                        /\ disk' = [disk EXCEPT ![r] = saved]
                        /\ dirty' = [dirty EXCEPT ![<<p, r>>] =
                               IF saved = filter \cup {key[p]} THEN 0 ELSE writes]
           New(filter) ==
               /\ ~InFilter(filter, key[p])
               /\ mem' = [mem EXCEPT ![<<p, r>>] = filter \cup {key[p]}]
               /\ AdmittedBy(r, key[p])
<1>3. PICK filter \in Loaded(p, r) : IsFound(p, r, filter) \/ (New(filter) /\ Due(filter, Before(p, r) + 1))
  BY DEF CheckAndAdd, IsFound, Before, AdmittedBy
<1>4. filter \subseteq Keys /\ filter \cup {key[p]} \in SUBSET Keys
  BY <1>0, FileTypes
<1>5. ASSUME New(filter), Due(filter, Before(p, r) + 1)
      PROVE  \E saved \in SUBSET Keys, count \in DirtyCounts : IsAdmitted(p, r, filter, saved, count)
  <2> DEFINE writes == Before(p, r) + 1
  <2>1. writes \in Nat
    BY <1>1
  <2>2. CASE ~SaveDue(writes)
    <3>1. writes \in DirtyCounts
      BY <2>1, <2>2, Counting
    <3>2. IsAdmitted(p, r, filter, disk[r], writes)
      BY <1>2, <1>5, <2>2 DEF IsAdmitted
    <3> QED
      BY <1>2, <3>1, <3>2
  <2>3. CASE SaveDue(writes)
    <3>1. PICK saved \in SaveOutcomes(r, filter \cup {key[p]}) :
             /\ disk' = [disk EXCEPT ![r] = saved]
             /\ dirty' = [dirty EXCEPT ![<<p, r>>] = IF saved = filter \cup {key[p]} THEN 0 ELSE writes]
      BY <1>5, <2>3
    <3>2. CASE saved = filter \cup {key[p]}
      <4>1. IsAdmitted(p, r, filter, saved, 0)
        BY <1>5, <3>1, <3>2 DEF IsAdmitted
      <4> QED
        BY <1>4, <3>2, <4>1, Counting
    <3>3. CASE saved # filter \cup {key[p]}
      <4>1. saved = disk[r] /\ "io" \in faults
        BY <3>3 DEF SaveOutcomes
      <4>2. writes \in DirtyCounts
        BY <2>1, <4>1, Counting
      <4>3. IsAdmitted(p, r, filter, saved, writes)
        BY <1>5, <3>1, <3>3, <4>1 DEF IsAdmitted
      <4> QED
        BY <1>2, <4>1, <4>2, <4>3
    <3> QED
      BY <3>2, <3>3
  <2> QED
    BY <2>2, <2>3
<1> HIDE DEF New, Due
<1> QED
  BY <1>0, <1>1, <1>3, <1>4, <1>5

\* Every step keeps the types.
LEMMA NextType == TypeInv /\ [Next]_vars => TypeInv'
<1> SUFFICES ASSUME TypeInv, [Next]_vars PROVE TypeInv'
  OBVIOUS
<1>0. /\ faults' = faults /\ running' = running /\ running \subseteq Procs
      /\ DirtyCounts' = DirtyCounts
  BY SameSetting DEF TypeInv, TypeOK, DirtyCounts
<1>c. \A p \in running, r \in Registries : <<p, r>> \in Copies /\ <<p, r>> \in running \X Registries
  BY <1>0 DEF Copies
<1> USE <1>0
<1>1. ASSUME NEW p \in running, NEW r \in Registries, NEW k \in Keys, Claim(p, r, k) PROVE TypeInv'
  BY <1>1, BoundsAssumption DEF Claim, TypeInv, TypeOK, KeyInHand
<1>2. ASSUME NEW p \in running, NEW r \in Registries, CheckAndAdd(p, r) PROVE TypeInv'
  <2>0. p \in Procs /\ <<p, r>> \in Copies /\ key[p] \in Keys /\ Before(p, r) \in DirtyCounts
    BY <1>2, Lookup
  <2>1. PICK filter \in Loaded(p, r) :
           /\ filter \subseteq Keys
           /\ \/ IsFound(p, r, filter)
              \/ \E saved \in SUBSET Keys, count \in DirtyCounts : IsAdmitted(p, r, filter, saved, count)
    BY <1>2, Lookup
  <2>2. mem' \in [Copies -> SUBSET Keys]
    <3>1. \E f \in SUBSET Keys : mem' = [mem EXCEPT ![<<p, r>>] = f]
      <4>1. filter \in SUBSET Keys /\ filter \cup {key[p]} \in SUBSET Keys
        BY <2>0, <2>1
      <4>2. mem' = [mem EXCEPT ![<<p, r>>] = filter] \/ mem' = [mem EXCEPT ![<<p, r>>] = filter \cup {key[p]}]
        BY <2>1 DEF IsFound, IsAdmitted
      <4> QED
        BY <4>1, <4>2
    <3> QED
      BY <2>0, <3>1 DEF TypeInv, TypeOK
  <2>3. dirty' \in [Copies -> DirtyCounts]
    BY <2>0, <2>1 DEF IsFound, IsAdmitted, TypeInv, TypeOK
  <2>4. disk' \in [Registries -> SUBSET Keys]
    BY <2>0, <2>1 DEF IsFound, IsAdmitted, TypeInv, TypeOK
  <2>5. admitted' \in [Registries -> [Keys -> Nat]]
    <3>1. admitted' = admitted \/ AdmittedBy(r, key[p])
      BY <2>1 DEF IsFound, IsAdmitted
    <3> QED
      BY <2>0, <3>1, OneMoreAdmission DEF TypeInv, TypeOK
  <2>6. /\ pc' \in [Procs -> {"idle", "closing"} \cup Registries]
        /\ key' \in [Procs -> Keys \cup {None}]
        /\ claimed' \subseteq Keys /\ offers' \in 0..MaxOffers
    BY <1>2 DEF CheckAndAdd, TypeInv, TypeOK
  <2>7. loaded' \subseteq Copies /\ loaded' \subseteq running \X Registries
    BY <1>2, <1>c DEF CheckAndAdd, TypeInv, TypeOK
  <2>8. KeyInHand'
    BY <1>2, <2>0 DEF CheckAndAdd, TypeInv, TypeOK, KeyInHand, Registries
  <2> QED
    BY <2>2, <2>3, <2>4, <2>5, <2>6, <2>7, <2>8 DEF TypeInv, TypeOK
<1>3. ASSUME NEW p \in running, NEW r \in Registries, Flush(p, r) PROVE TypeInv'
  <2>1. mem[<<p, r>>] \in SUBSET Keys /\ <<p, r>> \in Copies /\ dirty[<<p, r>>] \in DirtyCounts
    BY <1>c DEF TypeInv, TypeOK
  <2>2. PICK saved \in SaveOutcomes(r, mem[<<p, r>>]) :
           /\ disk' = [disk EXCEPT ![r] = saved]
           /\ dirty' = [dirty EXCEPT ![<<p, r>>] = IF saved = mem[<<p, r>>] THEN 0 ELSE @]
    BY <1>3 DEF Flush
  <2>3. saved \subseteq Keys
    BY <2>1, FileTypes
  <2>4. disk' \in [Registries -> SUBSET Keys]
    BY <2>2, <2>3 DEF TypeInv, TypeOK
  <2>5. dirty' \in [Copies -> DirtyCounts]
    BY <2>1, <2>2, Counting DEF TypeInv, TypeOK
  <2> QED
    BY <1>3, <2>4, <2>5 DEF Flush, TypeInv, TypeOK, KeyInHand
<1>4. ASSUME NEW p \in running, NEW r \in Registries, SaveAndUnload(p, r),
             NEW next \in {"idle", "closing"}, pc' = [pc EXCEPT ![p] = next]
      PROVE  TypeInv'
  <2>1. PICK saved \in SavedAtClose(p, r) : disk' = [disk EXCEPT ![r] = saved]
    BY <1>4 DEF SaveAndUnload
  <2>2. saved \subseteq Keys
    BY FileTypes
  <2>3. disk' \in [Registries -> SUBSET Keys]
    BY <2>1, <2>2 DEF TypeInv, TypeOK
  <2>4. mem' \in [Copies -> SUBSET Keys]
    BY <1>4 DEF SaveAndUnload, TypeInv, TypeOK
  <2>5. dirty' \in [Copies -> DirtyCounts]
    BY <1>4, Counting DEF SaveAndUnload, TypeInv, TypeOK
  <2>6. pc' \in [Procs -> {"idle", "closing"} \cup Registries] /\ KeyInHand'
    BY <1>4 DEF SaveAndUnload, TypeInv, TypeOK, KeyInHand, Registries
  <2> QED
    BY <1>4, <2>3, <2>4, <2>5, <2>6 DEF SaveAndUnload, setting, TypeInv, TypeOK
<1>5. ASSUME NEW p \in running, CutOff(p) \/ Stop(p) \/ Close(p) PROVE TypeInv'
  <2>1. CASE CutOff(p)
    BY <2>1 DEF CutOff, TypeInv, TypeOK, KeyInHand, Registries
  <2> QED
    BY <1>4, <1>5, <2>1 DEF Stop, Close, Registries
<1>6. ASSUME NEW p \in running, Crash(p) PROVE TypeInv'
  <2>1. mem' \in [Copies -> SUBSET Keys]
    BY <1>6 DEF Crash, TypeInv, TypeOK
  <2>2. dirty' \in [Copies -> DirtyCounts]
    BY <1>6, Counting DEF Crash, TypeInv, TypeOK
  <2>3. pc' \in [Procs -> {"idle", "closing"} \cup Registries] /\ KeyInHand'
    BY <1>6 DEF Crash, TypeInv, TypeOK, KeyInHand, Registries
  <2> QED
    BY <1>6, <2>1, <2>2, <2>3 DEF Crash, setting, TypeInv, TypeOK
<1>7. ASSUME NEW k \in Keys, Expire(k) PROVE TypeInv'
  BY <1>7 DEF Expire, TypeInv, TypeOK, KeyInHand
<1>8. CASE UNCHANGED vars
  BY <1>8 DEF vars, TypeInv, TypeOK, KeyInHand
<1> QED
  BY <1>1, <1>2, <1>3, <1>5, <1>6, <1>7, <1>8 DEF Next

-----------------------------------------------------------------------------
(***************************************************************************)
(* While Redis keeps the keys.  The claim decides alone, for both          *)
(* registries: a key that is not claimed was never admitted, and at most   *)
(* one process is between its claim and the filter, which has not admitted *)
(* it yet.                                                                 *)
(***************************************************************************)
ClaimInv ==
    \A k \in Keys :
        /\ Admissions(k) <= 1
        /\ k \notin claimed => Admissions(k) = 0 /\ \A p \in Procs : ~Pending(p, k)
        /\ \A p \in Procs : Pending(p, k) => Admissions(k) = 0
        /\ \A p, q \in Procs : Pending(p, k) /\ Pending(q, k) => p = q

\* A step that leaves the admissions alone, and takes at most a key out of hand.
LEMMA ClaimKept ==
    ASSUME ClaimInv, admitted' = admitted, claimed' = claimed,
           \A q \in Procs, k \in Keys : Pending(q, k)' => Pending(q, k)
    PROVE  ClaimInv'
<1>1. \A k \in Keys : Admissions(k)' = Admissions(k)
  BY DEF Admissions
<1> HIDE DEF Pending
<1> QED
  BY <1>1 DEF ClaimInv

\* Only an expiry takes a claim back.
LEMMA NextClaim ==
    ASSUME "expire" \notin faults, TypeInv, ClaimInv, [Next]_vars
    PROVE  ClaimInv'
<1>0. running \subseteq Procs
  BY DEF TypeInv, TypeOK
<1> USE <1>0
<1>1. ASSUME NEW p \in running, NEW r \in Registries, NEW k \in Keys, Claim(p, r, k) PROVE ClaimInv'
  <2>1. CASE k \in claimed
    <3>1. UNCHANGED <<pc, key, claimed, admitted>>
      BY <1>1, <2>1 DEF Claim, ClaimIsNew
    <3> QED
      BY <3>1, ClaimKept DEF Pending
  <2>2. CASE k \notin claimed
    <3>1. /\ pc' = [pc EXCEPT ![p] = r] /\ key' = [key EXCEPT ![p] = k]
          /\ claimed' = claimed \cup {k} /\ admitted' = admitted /\ pc[p] = "idle"
      BY <1>1, <2>2 DEF Claim, ClaimIsNew
    <3>2. \A j \in Keys : Admissions(j)' = Admissions(j)
      BY <3>1 DEF Admissions
    <3>3. \A q \in Procs, j \in Keys : Pending(q, j)' <=> ((q = p /\ j = k) \/ (q # p /\ Pending(q, j)))
      BY <3>1 DEF Pending, TypeInv, TypeOK, Registries
    <3>4. Admissions(k) = 0 /\ \A q \in Procs : ~Pending(q, k)
      BY <2>2 DEF ClaimInv
    <3> HIDE DEF Pending
    <3> QED
      BY <3>1, <3>2, <3>3, <3>4 DEF ClaimInv
  <2> QED
    BY <2>1, <2>2
<1>2. ASSUME NEW p \in running, NEW r \in Registries, CheckAndAdd(p, r) PROVE ClaimInv'
  <2>1. /\ key[p] \in Keys /\ pc[p] \in Registries
        /\ admitted' = admitted \/ AdmittedBy(r, key[p])
        /\ claimed' = claimed
        /\ pc' = [pc EXCEPT ![p] = "idle"]
        /\ key' = [key EXCEPT ![p] = None]
    <3>1. \E filter \in Loaded(p, r) :
              \/ IsFound(p, r, filter)
              \/ \E saved \in SUBSET Keys, count \in DirtyCounts : IsAdmitted(p, r, filter, saved, count)
      BY <1>2, Lookup
    <3> QED
      BY <1>2, <3>1, Lookup DEF CheckAndAdd, IsFound, IsAdmitted
  <2>2. Pending(p, key[p])
    BY <2>1 DEF Pending
  <2>3. Admissions(key[p]) = 0 /\ key[p] \in claimed
    BY <2>1, <2>2 DEF ClaimInv
  <2>4. \A k \in Keys : Admissions(k)' = Admissions(k) \/ (k = key[p] /\ Admissions(k)' = 1)
    <3>1. CASE admitted' = admitted
      BY <3>1 DEF Admissions
    <3>2. CASE AdmittedBy(r, key[p])
      BY <2>1, <2>3, <3>2, OneMoreAdmission
    <3> QED
      BY <2>1, <3>1, <3>2
  <2>5. \A q \in Procs, k \in Keys : Pending(q, k)' <=> q # p /\ Pending(q, k)
    BY <2>1 DEF Pending, TypeInv, TypeOK, Registries
  <2>6. \A q \in Procs : q # p => ~Pending(q, key[p])
    BY <2>1, <2>2 DEF ClaimInv
  <2> QED
    BY <2>1, <2>3, <2>4, <2>5, <2>6 DEF ClaimInv
<1>3. ASSUME NEW p \in running, NEW r \in Registries, Flush(p, r) PROVE ClaimInv'
  BY <1>3, ClaimKept DEF Flush, Pending
<1>4. ASSUME NEW p \in running, CutOff(p) \/ Stop(p) \/ Close(p) \/ Crash(p) PROVE ClaimInv'
  <2>1. /\ admitted' = admitted /\ claimed' = claimed /\ (key' = key \/ key' = [key EXCEPT ![p] = None])
        /\ pc' = [pc EXCEPT ![p] = "idle"] \/ pc' = [pc EXCEPT ![p] = "closing"]
    BY <1>4 DEF CutOff, Stop, Close, SaveAndUnload, Crash
  <2>2. \A q \in Procs, k \in Keys : Pending(q, k)' => Pending(q, k)
    BY <2>1 DEF Pending, TypeInv, TypeOK, Registries
  <2> QED
    BY <2>1, <2>2, ClaimKept
<1>5. ASSUME NEW k \in Keys, Expire(k) PROVE ClaimInv'
  BY <1>5 DEF Expire
<1>6. CASE UNCHANGED vars
  BY <1>6, ClaimKept DEF vars, Pending
<1> QED
  BY <1>1, <1>2, <1>3, <1>4, <1>5, <1>6 DEF Next

-----------------------------------------------------------------------------
(***************************************************************************)
(* Without Redis.  One process that ends in an orderly way and whose files *)
(* work carries the keys that a registry admitted from one life to the     *)
(* next.  Nothing carries them from one registry to the other.             *)
(***************************************************************************)
FilterInv(r) ==
    /\ \A p \in Procs : <<p, r>> \in loaded => disk[r] \subseteq mem[<<p, r>>]
    /\ \A k \in Keys :
        /\ admitted[r][k] <= 1
        /\ admitted[r][k] = 1 =>
              /\ (\A p \in Procs : <<p, r>> \notin loaded) => k \in disk[r]
              /\ \A p \in Procs : <<p, r>> \in loaded => k \in mem[<<p, r>>]

\* What registry s does is no business of registry r.
LEMMA OtherRegistry ==
    ASSUME TypeInv, NEW r \in Registries, FilterInv(r),
           NEW p \in Procs, NEW s \in Registries, s # r,
           NEW file, disk' = [disk EXCEPT ![s] = file],
           NEW filter, mem' = [mem EXCEPT ![<<p, s>>] = filter],
           loaded' = loaded \cup {<<p, s>>} \/ loaded' = loaded \ {<<p, s>>} \/ loaded' = loaded,
           admitted'[r] = admitted[r]
    PROVE  FilterInv(r)'
<1>1. disk'[r] = disk[r]
  BY DEF TypeInv, TypeOK
<1>2. \A q \in Procs : <<q, r>> # <<p, s>> /\ <<q, r>> \in Copies
  BY DEF Copies
<1>3. \A q \in Procs : mem'[<<q, r>>] = mem[<<q, r>>] /\ (<<q, r>> \in loaded' <=> <<q, r>> \in loaded)
  BY <1>2 DEF TypeInv, TypeOK
<1> QED
  BY <1>1, <1>3 DEF FilterInv

\* A load or a save by the one process that there is.
LEMMA SameRegistry ==
    ASSUME TypeInv, OneProcess, NEW r \in Registries, NEW p \in running,
           NEW file \in SUBSET Keys, disk' = [disk EXCEPT ![r] = file],
           NEW filter, mem' = [mem EXCEPT ![<<p, r>>] = filter],
           \/ loaded' = loaded \cup {<<p, r>>} /\ file \subseteq filter
           \/ loaded' = loaded \ {<<p, r>>},
           \A k \in Keys :
               /\ admitted'[r][k] <= 1
               /\ admitted'[r][k] = 1 => k \in (IF <<p, r>> \in loaded' THEN filter ELSE file)
    PROVE  FilterInv(r)'
<1>1. p \in Procs /\ <<p, r>> \in Copies
  BY DEF TypeInv, TypeOK, Copies
<1>2. \A q \in Procs : <<q, r>> \in loaded' => q = p
  BY DEF TypeInv, OneProcess
<1>3. disk'[r] = file /\ mem'[<<p, r>>] = filter
  BY <1>1 DEF TypeInv, TypeOK
<1>4. <<p, r>> \in loaded' => file \subseteq filter
  OBVIOUS
<1> QED
  BY <1>1, <1>2, <1>3, <1>4 DEF FilterInv

\* Neither an expiry nor a restart makes the filter of a registry forget.
LEMMA NextFilter ==
    ASSUME faults \cap {"crash", "io"} = {}, OneProcess, TypeInv, [Next]_vars,
           NEW r \in Registries, FilterInv(r)
    PROVE  FilterInv(r)'
<1>0. running \subseteq Procs /\ disk[r] \subseteq Keys
  BY DEF TypeInv, TypeOK
<1> USE <1>0
<1>f. ASSUME NEW s \in Registries
      PROVE  FileContents(s) = {disk[s]}
  BY DEF FileContents
<1>k. ASSUME NEW p \in running
      PROVE  /\ <<p, r>> \in loaded => disk[r] \subseteq mem[<<p, r>>] /\ mem[<<p, r>>] \in SUBSET Keys
             /\ \A k \in Keys :
                   /\ admitted[r][k] \in Nat /\ admitted[r][k] <= 1
                   /\ admitted[r][k] = 1 =>
                         k \in (IF <<p, r>> \in loaded THEN mem[<<p, r>>] ELSE disk[r])
  <2>1. <<p, r>> \in Copies /\ \A q \in Procs : <<q, r>> \in loaded => q = p
    BY DEF Copies, TypeInv, OneProcess
  <2>2. mem[<<p, r>>] \in SUBSET Keys /\ \A k \in Keys : admitted[r][k] \in Nat
    BY <2>1 DEF TypeInv, TypeOK
  <2> QED
    BY <2>1, <2>2 DEF FilterInv
<1>1. ASSUME NEW p \in running, NEW s \in Registries, NEW k \in Keys, Claim(p, s, k) PROVE FilterInv(r)'
  BY <1>1 DEF Claim, FilterInv
<1>2. ASSUME NEW p \in running, NEW s \in Registries, CheckAndAdd(p, s) PROVE FilterInv(r)'
  <2>0. p \in Procs /\ <<p, s>> \in Copies /\ key[p] \in Keys
    BY <1>2, Lookup
  <2>1. PICK filter \in Loaded(p, s) :
           /\ filter \subseteq Keys
           /\ \/ IsFound(p, s, filter)
              \/ \E saved \in SUBSET Keys, count \in DirtyCounts : IsAdmitted(p, s, filter, saved, count)
    BY <1>2, Lookup
  <2>2. loaded' = loaded \cup {<<p, s>>}
    BY <1>2 DEF CheckAndAdd
  <2>3. CASE s # r
    <3>1. \E file, f : disk' = [disk EXCEPT ![s] = file] /\ mem' = [mem EXCEPT ![<<p, s>>] = f]
      <4>1. disk = [disk EXCEPT ![s] = disk[s]]
        BY DEF TypeInv, TypeOK
      <4> QED
        BY <2>1, <4>1 DEF IsFound, IsAdmitted
    <3>2. admitted'[r] = admitted[r]
      <4>1. admitted' = admitted \/ admitted' = [admitted EXCEPT ![s][key[p]] = @ + 1]
        BY <2>1 DEF IsFound, IsAdmitted, AdmittedBy
      <4> QED
        BY <2>3, <4>1 DEF TypeInv, TypeOK
    <3> QED
      BY <2>0, <2>2, <2>3, <3>1, <3>2, OtherRegistry
  <2>4. CASE s = r
    <3>1. filter = (IF <<p, r>> \in loaded THEN mem[<<p, r>>] ELSE disk[r])
      BY <1>f, <2>1, <2>4 DEF Loaded
    <3>2. /\ disk[r] \subseteq filter
          /\ \A k \in Keys : /\ admitted[r][k] \in Nat /\ admitted[r][k] <= 1
                             /\ admitted[r][k] = 1 => k \in filter
      BY <1>k, <3>1
    <3>3. <<p, r>> \in loaded'
      BY <2>2, <2>4
    <3>4. CASE IsFound(p, r, filter)
      <4>1. disk' = [disk EXCEPT ![r] = disk[r]] /\ admitted' = admitted
        BY <3>4 DEF IsFound, TypeInv, TypeOK
      <4>2. mem' = [mem EXCEPT ![<<p, r>>] = filter]
        BY <3>4 DEF IsFound
      <4> QED
        BY <2>2, <2>4, <3>2, <3>3, <4>1, <4>2, SameRegistry
    <3>5. ASSUME NEW saved \in SUBSET Keys, NEW count \in DirtyCounts,
                 IsAdmitted(p, r, filter, saved, count)
          PROVE  FilterInv(r)'
      <4>1. /\ key[p] \notin filter /\ saved \subseteq filter \cup {key[p]}
            /\ mem' = [mem EXCEPT ![<<p, r>>] = filter \cup {key[p]}]
            /\ disk' = [disk EXCEPT ![r] = saved]
            /\ admitted' = [admitted EXCEPT ![r][key[p]] = @ + 1]
        BY <3>2, <3>5 DEF IsAdmitted, InFilter, AdmittedBy
      <4>2. admitted[r][key[p]] = 0
        BY <2>0, <3>2, <4>1
      <4>3. admitted'[r] = [admitted[r] EXCEPT ![key[p]] = 1]
        BY <4>1, <4>2 DEF TypeInv, TypeOK
      <4>4. \A k \in Keys : admitted'[r][k] = IF k = key[p] THEN 1 ELSE admitted[r][k]
        BY <4>3 DEF TypeInv, TypeOK
      <4>5. \A k \in Keys : admitted'[r][k] <= 1 /\ (admitted'[r][k] = 1 => k \in filter \cup {key[p]})
        BY <3>2, <4>4
      <4> QED
        BY <2>2, <2>4, <3>3, <4>1, <4>5, SameRegistry
    <3> QED
      BY <2>1, <2>4, <3>4, <3>5
  <2> QED
    BY <2>3, <2>4
<1>3. ASSUME NEW p \in running, NEW s \in Registries, Flush(p, s) PROVE FilterInv(r)'
  <2>1. /\ disk' = [disk EXCEPT ![s] = mem[<<p, s>>]] /\ <<p, s>> \in loaded
        /\ loaded' = loaded /\ mem' = mem /\ admitted' = admitted
    BY <1>3 DEF Flush, SaveOutcomes
  <2>2. mem' = [mem EXCEPT ![<<p, s>>] = mem[<<p, s>>]] /\ loaded' = loaded \cup {<<p, s>>}
    BY <2>1 DEF TypeInv, TypeOK
  <2>3. CASE s # r
    BY <2>1, <2>2, <2>3, OtherRegistry
  <2>4. CASE s = r
    <3>1. /\ mem[<<p, r>>] \in SUBSET Keys
          /\ \A k \in Keys : /\ admitted'[r][k] <= 1
                             /\ admitted'[r][k] = 1 => k \in mem[<<p, r>>]
      BY <1>k, <2>1, <2>4
    <3>2. /\ disk' = [disk EXCEPT ![r] = mem[<<p, r>>]] /\ loaded' = loaded \cup {<<p, r>>}
          /\ mem' = [mem EXCEPT ![<<p, r>>] = mem[<<p, r>>]] /\ <<p, r>> \in loaded'
      BY <2>1, <2>2, <2>4
    <3> QED
      BY <3>1, <3>2, SameRegistry
  <2> QED
    BY <2>3, <2>4
<1>4. ASSUME NEW p \in running, NEW s \in Registries, SaveAndUnload(p, s) PROVE FilterInv(r)'
  <2>1. /\ disk' = [disk EXCEPT ![s] = IF <<p, s>> \in loaded THEN mem[<<p, s>>] ELSE disk[s]]
        /\ loaded' = loaded \ {<<p, s>>} /\ mem' = [mem EXCEPT ![<<p, s>>] = {}]
        /\ admitted' = admitted
    BY <1>4 DEF SaveAndUnload, SavedAtClose, SaveOutcomes
  <2>2. CASE s # r
    BY <2>1, <2>2, OtherRegistry
  <2>3. CASE s = r
    <3>1. <<p, r>> \notin loaded' /\ (IF <<p, s>> \in loaded THEN mem[<<p, s>>] ELSE disk[s]) \in SUBSET Keys
      BY <1>k, <2>1, <2>3
    <3> QED
      BY <1>k, <2>1, <2>3, <3>1, SameRegistry
  <2> QED
    BY <2>2, <2>3
<1>5. ASSUME NEW p \in running, CutOff(p) \/ Crash(p) PROVE FilterInv(r)'
  BY <1>5 DEF CutOff, Crash
<1>6. ASSUME NEW p \in running, Stop(p) \/ Close(p) PROVE FilterInv(r)'
  BY <1>4, <1>6 DEF Stop, Close, Registries
<1>7. ASSUME NEW k \in Keys, Expire(k) PROVE FilterInv(r)'
  BY <1>7 DEF Expire, FilterInv
<1>8. CASE UNCHANGED vars
  BY <1>8 DEF vars, FilterInv
<1> QED
  BY <1>1, <1>2, <1>3, <1>5, <1>6, <1>7, <1>8 DEF Next

\* The two ways together: no record passes twice while Redis keeps its keys,
\* whatever happens to processes and files (cleaning.py 189-197, rest_client.py
\* 336-343); and although Redis drops them, none passes twice through the same
\* registry of the one process that always ends with flush_all (bloom.py
\* 55-103 and 116-137).  The second half says nothing of a candle that passes
\* through the cleaner's registry and through that of the REST client.
THEOREM AdmittedOnce == Spec => []AdmitOnce
<1> DEFINE Kept == "expire" \notin faults
           Alone == OneProcess /\ faults \cap {"crash", "io"} = {}
           Inv == TypeInv /\ (Kept => ClaimInv) /\ (Alone => \A r \in Registries : FilterInv(r))
<1>1. Init => Inv
  <2> SUFFICES ASSUME Init PROVE ClaimInv /\ \A r \in Registries : FilterInv(r)
    BY InitType
  <2>1. \A r \in Registries, k \in Keys : admitted[r][k] = 0
    BY DEF Init
  <2>2. \A k \in Keys : Admissions(k) = 0
    BY <2>1 DEF Admissions, Registries
  <2>3. \A p \in Procs, k \in Keys : ~Pending(p, k)
    BY DEF Init, Pending, Registries
  <2>4. loaded = {}
    BY DEF Init
  <2> QED
    BY <2>1, <2>2, <2>3, <2>4 DEF ClaimInv, FilterInv
<1>2. Inv /\ [Next]_vars => Inv'
  <2> SUFFICES ASSUME Inv, [Next]_vars PROVE Inv'
    OBVIOUS
  <2>1. TypeInv'
    BY NextType
  <2>2. (Kept' <=> Kept) /\ (Alone' <=> Alone)
    BY SameSetting DEF OneProcess
  <2>3. Kept => ClaimInv'
    BY NextClaim
  <2>4. Alone => \A r \in Registries : FilterInv(r)'
    BY NextFilter
  <2> QED
    BY <2>1, <2>2, <2>3, <2>4
<1>3. Inv => AdmitOnce
  BY DEF ClaimInv, FilterInv, AdmitOnce
<1> QED
  BY <1>1, <1>2, <1>3, PTL DEF Spec

\* Every variable keeps its type.
THEOREM TypeCorrect == Spec => []TypeOK
<1>1. Init => TypeInv
  BY InitType
<1>2. TypeInv /\ [Next]_vars => TypeInv'
  BY NextType
<1>3. TypeInv => TypeOK
  BY DEF TypeInv
<1> QED
  BY <1>1, <1>2, <1>3, PTL DEF Spec

-----------------------------------------------------------------------------
(***************************************************************************)
(* No orphan claim.  A filter and a file hold only keys that their         *)
(* registry admitted, so the lookup that follows a claim either admits the *)
(* key or finds it because it was admitted before.                         *)
(***************************************************************************)
OrphanInv ==
    /\ \A r \in Registries : \A k \in disk[r] : admitted[r][k] > 0
    /\ \A p \in Procs, r \in Registries : \A k \in mem[<<p, r>>] : admitted[r][k] > 0
    /\ \A k \in claimed : Admissions(k) > 0 \/ \E p \in running : Pending(p, k)

\* Files and filters are read and written, and no key is admitted.
LEMMA OrphanKept ==
    ASSUME TypeInv, OrphanInv, admitted' = admitted, running' = running, claimed' \subseteq claimed,
           \A q \in Procs, k \in Keys : Pending(q, k) => Pending(q, k)',
           \A r \in Registries : \A k \in disk'[r] : k \in disk[r] \/ \E p \in Procs : k \in mem[<<p, r>>],
           \A q \in Procs, r \in Registries : \A k \in mem'[<<q, r>>] : k \in mem[<<q, r>>] \/ k \in disk[r]
    PROVE  OrphanInv'
<1>1. \A k \in Keys : Admissions(k)' = Admissions(k)
  BY DEF Admissions
<1>2. \A r \in Registries : \A k \in disk'[r] : admitted'[r][k] > 0
  BY DEF OrphanInv
<1>3. \A q \in Procs, r \in Registries : \A k \in mem'[<<q, r>>] : admitted'[r][k] > 0
  BY DEF OrphanInv
<1>4. \A k \in claimed' : Admissions(k)' > 0 \/ \E p \in running' : Pending(p, k)'
  <2> SUFFICES ASSUME NEW k \in claimed' PROVE Admissions(k)' > 0 \/ \E p \in running' : Pending(p, k)'
    OBVIOUS
  <2>1. k \in Keys /\ running \subseteq Procs
    BY DEF TypeInv, TypeOK
  <2>2. Admissions(k) > 0 \/ \E p \in running : Pending(p, k)
    BY DEF OrphanInv
  <2> HIDE DEF Pending
  <2> QED
    BY <1>1, <2>1, <2>2
<1> QED
  BY <1>2, <1>3, <1>4 DEF OrphanInv

\* A file that is read or written holds admitted keys.
LEMMA NextOrphan ==
    ASSUME faults \cap {"crash", "false_positive"} = {}, TypeInv, OrphanInv, [Next]_vars
    PROVE  OrphanInv'
<1>0. running \subseteq Procs /\ running' = running
  BY SameSetting DEF TypeInv, TypeOK
<1>m. mem \in [Copies -> SUBSET Keys] /\ disk \in [Registries -> SUBSET Keys]
  BY DEF TypeInv, TypeOK
<1>c. \A p \in Procs, r \in Registries : <<p, r>> \in Copies
  BY DEF Copies
<1> USE <1>0
<1>1. ASSUME NEW p \in running, NEW r \in Registries, NEW k \in Keys, Claim(p, r, k) PROVE OrphanInv'
  <2>1. admitted' = admitted /\ mem' = mem /\ disk' = disk /\ pc[p] = "idle"
    BY <1>1 DEF Claim
  <2>2. CASE k \in claimed
    <3>1. claimed' = claimed /\ pc' = pc /\ key' = key
      BY <1>1, <2>2 DEF Claim, ClaimIsNew
    <3> QED
      BY <2>1, <3>1, OrphanKept DEF Pending
  <2>3. CASE k \notin claimed
    <3>1. claimed' = claimed \cup {k} /\ pc' = [pc EXCEPT ![p] = r] /\ key' = [key EXCEPT ![p] = k]
      BY <1>1, <2>3 DEF Claim, ClaimIsNew
    <3>2. \A q \in Procs, j \in Keys : Pending(q, j)' <=> ((q = p /\ j = k) \/ (q # p /\ Pending(q, j)))
      BY <2>1, <3>1 DEF Pending, TypeInv, TypeOK, Registries
    <3>3. \A q \in Procs, j \in Keys : Pending(q, j) => Pending(q, j)'
      BY <2>1, <3>2 DEF Pending, Registries
    <3>4. \A j \in claimed : Admissions(j) > 0 \/ \E q \in running : Pending(q, j)'
      <4> SUFFICES ASSUME NEW j \in claimed
                   PROVE  Admissions(j) > 0 \/ \E q \in running : Pending(q, j)'
        OBVIOUS
      <4>1. j \in Keys /\ (Admissions(j) > 0 \/ \E q \in running : Pending(q, j))
        BY DEF OrphanInv, TypeInv, TypeOK
      <4> HIDE DEF Pending
      <4> QED
        BY <3>3, <4>1
    <3>5. \A j \in Keys : Admissions(j)' = Admissions(j)
      BY <2>1 DEF Admissions
    <3>6. claimed \subseteq Keys
      BY DEF TypeInv, TypeOK
    <3> HIDE DEF Pending
    <3> QED
      BY <2>1, <3>1, <3>2, <3>4, <3>5, <3>6 DEF OrphanInv
  <2> QED
    BY <2>2, <2>3
<1>2. ASSUME NEW p \in running, NEW r \in Registries, CheckAndAdd(p, r) PROVE OrphanInv'
  <2>0. p \in Procs /\ <<p, r>> \in Copies /\ key[p] \in Keys
    BY <1>2, Lookup
  <2>1. PICK filter \in Loaded(p, r) :
           /\ filter \subseteq Keys
           /\ \/ IsFound(p, r, filter)
              \/ \E saved \in SUBSET Keys, count \in DirtyCounts : IsAdmitted(p, r, filter, saved, count)
    BY <1>2, Lookup
  <2>2. claimed' = claimed /\ pc' = [pc EXCEPT ![p] = "idle"] /\ key' = [key EXCEPT ![p] = None]
    BY <1>2 DEF CheckAndAdd
  <2>3. \A k \in filter : k \in Keys /\ admitted[r][k] > 0
    BY <2>0, <2>1 DEF Loaded, FileContents, OrphanInv
  <2>4. \A k \in Keys : k # key[p] => \A q \in Procs : Pending(q, k) => Pending(q, k)'
    BY <2>2 DEF Pending, TypeInv, TypeOK
  <2>5. ASSUME admitted'[r][key[p]] > 0,
               admitted' \in [Registries -> [Keys -> Nat]],
               \A k \in Keys, s \in Registries : admitted[s][k] > 0 => admitted'[s][k] > 0
        PROVE  \A k \in claimed' : Admissions(k)' > 0 \/ \E q \in running' : Pending(q, k)'
    <3> SUFFICES ASSUME NEW k \in claimed
                 PROVE  Admissions(k)' > 0 \/ \E q \in running : Pending(q, k)'
      BY <2>2
    <3>1. k \in Keys /\ (Admissions(k) > 0 \/ \E q \in running : Pending(q, k))
      BY DEF OrphanInv, TypeInv, TypeOK
    <3>2. ASSUME NEW s \in Registries, NEW j \in Keys, admitted'[s][j] > 0 PROVE Admissions(j)' > 0
      <4>1. admitted'["cleaner"][j] \in Nat /\ admitted'["rest"][j] \in Nat
        BY <2>5 DEF Registries
      <4> QED
        BY <3>2, <4>1 DEF Admissions, Registries
    <3>3. CASE k = key[p]
      BY <2>0, <2>5, <3>2, <3>3
    <3>4. CASE k # key[p] /\ Admissions(k) > 0
      <4>1. \E s \in Registries : admitted[s][k] > 0
        <5>1. admitted["cleaner"][k] \in Nat /\ admitted["rest"][k] \in Nat
          BY <3>1 DEF TypeInv, TypeOK, Registries
        <5> QED
          BY <3>4, <5>1 DEF Admissions, Registries
      <4> QED
        BY <2>5, <3>1, <3>2, <4>1
    <3>5. CASE k # key[p] /\ \E q \in running : Pending(q, k)
      <4> HIDE DEF Pending
      <4> QED
        BY <2>4, <3>1, <3>5
    <3> QED
      BY <3>1, <3>3, <3>4, <3>5
  <2>6. CASE IsFound(p, r, filter)
    <3>1. key[p] \in filter /\ admitted' = admitted /\ disk' = disk /\ mem' = [mem EXCEPT ![<<p, r>>] = filter]
      BY <2>6 DEF IsFound, InFilter
    <3>2. \A q \in Procs, s \in Registries : \A k \in mem'[<<q, s>>] : admitted[s][k] > 0
      <4> SUFFICES ASSUME NEW q \in Procs, NEW s \in Registries, NEW k \in mem'[<<q, s>>]
                   PROVE  admitted[s][k] > 0
        OBVIOUS
      <4>1. CASE q = p /\ s = r
        BY <1>m, <2>0, <2>3, <3>1, <4>1
      <4>2. CASE ~(q = p /\ s = r)
        <5>1. mem'[<<q, s>>] = mem[<<q, s>>]
          BY <1>m, <1>c, <3>1, <4>2
        <5> QED
          BY <5>1 DEF OrphanInv
      <4> QED
        BY <4>1, <4>2
    <3>3. \A k \in claimed' : Admissions(k)' > 0 \/ \E q \in running' : Pending(q, k)'
      BY <2>0, <2>3, <2>5, <3>1 DEF TypeInv, TypeOK
    <3> QED
      BY <3>1, <3>2, <3>3 DEF OrphanInv
  <2>7. ASSUME NEW saved \in SUBSET Keys, NEW count \in DirtyCounts, IsAdmitted(p, r, filter, saved, count)
        PROVE  OrphanInv'
    <3>1. /\ AdmittedBy(r, key[p]) /\ disk' = [disk EXCEPT ![r] = saved]
          /\ saved = disk[r] \/ saved = filter \cup {key[p]}
          /\ mem' = [mem EXCEPT ![<<p, r>>] = filter \cup {key[p]}]
      BY <2>7 DEF IsAdmitted
    <3>2. /\ admitted' \in [Registries -> [Keys -> Nat]]
          /\ \A s \in Registries, k \in Keys :
                admitted'[s][k] = IF s = r /\ k = key[p] THEN admitted[s][k] + 1 ELSE admitted[s][k]
      <4>1. admitted \in [Registries -> [Keys -> Nat]]
        BY DEF TypeInv, TypeOK
      <4> QED
        BY <2>0, <3>1, <4>1 DEF AdmittedBy
    <3>3. /\ admitted'[r][key[p]] > 0
          /\ \A k \in Keys, s \in Registries : admitted[s][k] > 0 => admitted'[s][k] > 0
      <4>1. \A s \in Registries, k \in Keys : admitted[s][k] \in Nat
        BY DEF TypeInv, TypeOK
      <4> QED
        BY <2>0, <3>2, <4>1
    <3>4. \A k \in filter \cup {key[p]} : admitted'[r][k] > 0
      BY <2>3, <3>3
    <3>5. \A s \in Registries : \A k \in disk'[s] : admitted'[s][k] > 0
      <4> SUFFICES ASSUME NEW s \in Registries, NEW k \in disk'[s] PROVE admitted'[s][k] > 0
        OBVIOUS
      <4>1. CASE k \in disk[s]
        BY <1>m, <3>3, <4>1 DEF OrphanInv
      <4>2. CASE k \notin disk[s]
        BY <1>m, <3>1, <3>4, <4>2
      <4> QED
        BY <4>1, <4>2
    <3>6. \A q \in Procs, s \in Registries : \A k \in mem'[<<q, s>>] : admitted'[s][k] > 0
      <4> SUFFICES ASSUME NEW q \in Procs, NEW s \in Registries, NEW k \in mem'[<<q, s>>]
                   PROVE  admitted'[s][k] > 0
        OBVIOUS
      <4>1. CASE q = p /\ s = r
        BY <1>m, <2>0, <3>1, <3>4, <4>1
      <4>2. CASE ~(q = p /\ s = r)
        <5>1. mem'[<<q, s>>] = mem[<<q, s>>] /\ mem[<<q, s>>] \subseteq Keys
          BY <1>m, <1>c, <3>1, <4>2
        <5> QED
          BY <3>3, <5>1 DEF OrphanInv
      <4> QED
        BY <4>1, <4>2
    <3>7. \A k \in claimed' : Admissions(k)' > 0 \/ \E q \in running' : Pending(q, k)'
      BY <2>5, <3>2, <3>3
    <3> QED
      BY <3>5, <3>6, <3>7 DEF OrphanInv
  <2> QED
    BY <2>1, <2>6, <2>7
<1>3. ASSUME NEW p \in running, NEW r \in Registries, Flush(p, r) PROVE OrphanInv'
  <2>1. \E saved \in {disk[r], mem[<<p, r>>]} : disk' = [disk EXCEPT ![r] = saved]
    BY <1>3 DEF Flush, SaveOutcomes
  <2>2. mem' = mem /\ admitted' = admitted /\ UNCHANGED <<pc, key, claimed>>
    BY <1>3 DEF Flush
  <2>3. \A s \in Registries : \A k \in disk'[s] : k \in disk[s] \/ \E q \in Procs : k \in mem[<<q, s>>]
    BY <1>m, <2>1
  <2> QED
    BY <2>2, <2>3, OrphanKept DEF Pending
<1>4. ASSUME NEW p \in running, NEW r \in Registries, SaveAndUnload(p, r), pc[p] \notin Registries,
             NEW next, pc' = [pc EXCEPT ![p] = next]
      PROVE  OrphanInv'
  <2>1. \E saved \in {disk[r], mem[<<p, r>>]} : disk' = [disk EXCEPT ![r] = saved]
    BY <1>4 DEF SaveAndUnload, SavedAtClose, SaveOutcomes
  <2>2. mem' = [mem EXCEPT ![<<p, r>>] = {}] /\ admitted' = admitted /\ UNCHANGED <<key, claimed>>
    BY <1>4 DEF SaveAndUnload
  <2>3. \A s \in Registries : \A k \in disk'[s] : k \in disk[s] \/ \E q \in Procs : k \in mem[<<q, s>>]
    BY <1>m, <2>1
  <2>4. \A q \in Procs, s \in Registries : \A k \in mem'[<<q, s>>] : k \in mem[<<q, s>>]
    BY <1>m, <1>c, <2>2
  <2>5. \A q \in Procs, k \in Keys : Pending(q, k) => Pending(q, k)'
    BY <1>4, <2>2 DEF Pending, TypeInv, TypeOK
  <2> QED
    BY <2>2, <2>3, <2>4, <2>5, OrphanKept
<1>5. ASSUME NEW p \in running, Stop(p) \/ Close(p) PROVE OrphanInv'
  BY <1>4, <1>5 DEF Stop, Close, Registries
<1>6. ASSUME NEW p \in running, CutOff(p) \/ Crash(p) PROVE OrphanInv'
  BY <1>6 DEF CutOff, Crash
<1>7. ASSUME NEW k \in Keys, Expire(k) PROVE OrphanInv'
  BY <1>7, OrphanKept DEF Expire, Pending
<1>8. CASE UNCHANGED vars
  BY <1>8, OrphanKept DEF vars, Pending
<1> QED
  BY <1>1, <1>2, <1>3, <1>5, <1>6, <1>7, <1>8 DEF Next

\* Whatever expires, and whichever files cannot be read or written: without a
\* death, no record is rejected for the claim of one that nobody admitted
\* (cleaning.py 189-197, bloom.py 55-103).
THEOREM NoClaimOrphaned == Spec => []NoOrphanClaim
<1> DEFINE Alive == faults \cap {"crash", "false_positive"} = {}
           Inv == TypeInv /\ (Alive => OrphanInv)
<1>1. Init => Inv
  BY InitType DEF Init, OrphanInv, Copies
<1>2. Inv /\ [Next]_vars => Inv'
  BY NextType, NextOrphan, SameSetting
<1>3. Inv => NoOrphanClaim
  BY DEF OrphanInv, NoOrphanClaim, Pending
<1> QED
  BY <1>1, <1>2, <1>3, PTL DEF Spec

-----------------------------------------------------------------------------
(***************************************************************************)
(* The files of one process.  What a file holds is in the filter that was  *)
(* loaded from it, and the counter is never behind what it lacks.          *)
(***************************************************************************)
SavedInv ==
    \A p \in Procs, r \in Registries :
        /\ IF <<p, r>> \in loaded THEN disk[r] \subseteq mem[<<p, r>>] ELSE mem[<<p, r>>] = {}
        /\ IsFiniteSet(mem[<<p, r>>] \ disk[r])
        /\ Cardinality(mem[<<p, r>>] \ disk[r]) <= dirty[<<p, r>>]

FilesGrow == \A r \in Registries : disk[r] \subseteq disk'[r]

\* A filter without unsaved keys is within any counter.
LEMMA NothingUnsaved ==
    ASSUME NEW filter, NEW file, filter \subseteq file, NEW writes \in Nat
    PROVE  IsFiniteSet(filter \ file) /\ Cardinality(filter \ file) <= writes
<1>1. filter \ file = {}
  OBVIOUS
<1> QED
  BY <1>1, FS_EmptySet

\* One more key in the filter is at most one more that the file lacks.
LEMMA OneMoreUnsaved ==
    ASSUME NEW filter, NEW file, NEW k, NEW writes \in Nat,
           IsFiniteSet(filter \ file), Cardinality(filter \ file) <= writes
    PROVE  /\ IsFiniteSet((filter \cup {k}) \ file)
           /\ Cardinality((filter \cup {k}) \ file) <= writes + 1
<1>1. IsFiniteSet((filter \ file) \cup {k}) /\ Cardinality(filter \ file) \in Nat
  BY FS_AddElement, FS_CardinalityType
<1>2. /\ Cardinality((filter \ file) \cup {k}) \in Nat
      /\ Cardinality((filter \ file) \cup {k}) <= writes + 1
  BY <1>1, FS_AddElement, FS_CardinalityType
<1>3. (filter \cup {k}) \ file \in SUBSET ((filter \ file) \cup {k})
  OBVIOUS
<1>4. /\ IsFiniteSet((filter \cup {k}) \ file)
      /\ Cardinality((filter \cup {k}) \ file) <= Cardinality((filter \ file) \cup {k})
  BY <1>1, <1>3, FS_Subset
<1>5. Cardinality((filter \cup {k}) \ file) \in Nat
  BY <1>4, FS_CardinalityType
<1> QED
  BY <1>2, <1>4, <1>5

\* Registry r of the one process is loaded, added to, saved or dropped.
LEMMA SavedStep ==
    ASSUME OneProcess, TypeInv, SavedInv, NEW p \in running, NEW r \in Registries,
           loaded' = loaded \cup {<<p, r>>} \/ loaded' = loaded \ {<<p, r>>},
           NEW filter, mem' = [mem EXCEPT ![<<p, r>>] = filter],
           NEW writes \in Nat, dirty' = [dirty EXCEPT ![<<p, r>>] = writes],
           NEW file, disk' = [disk EXCEPT ![r] = file], disk[r] \subseteq file,
           IF <<p, r>> \in loaded' THEN file \subseteq filter ELSE filter = {},
           IsFiniteSet(filter \ file), Cardinality(filter \ file) <= writes
    PROVE  SavedInv' /\ FilesGrow
<1>0. p \in Procs /\ <<p, r>> \in Copies
  BY DEF TypeInv, TypeOK, Copies
<1>1. /\ \A c \in Copies : dirty[c] \in Nat
      /\ mem \in [Copies -> SUBSET Keys] /\ disk \in [Registries -> SUBSET Keys]
      /\ dirty \in [Copies -> DirtyCounts] /\ loaded \subseteq running \X Registries
  BY Counting DEF TypeInv, TypeOK
<1>2. disk'[r] = file /\ \A s \in Registries : s # r => disk'[s] = disk[s]
  BY <1>1
<1>3. FilesGrow
  BY <1>2 DEF FilesGrow
<1>4. ASSUME NEW q \in Procs, NEW s \in Registries
      PROVE  /\ IF <<q, s>> \in loaded' THEN disk'[s] \subseteq mem'[<<q, s>>] ELSE mem'[<<q, s>>] = {}
             /\ IsFiniteSet(mem'[<<q, s>>] \ disk'[s])
             /\ Cardinality(mem'[<<q, s>>] \ disk'[s]) <= dirty'[<<q, s>>]
  <2>0. <<q, s>> \in Copies
    BY DEF Copies
  <2>1. CASE q = p /\ s = r
    <3>1. mem'[<<q, s>>] = filter /\ disk'[s] = file /\ dirty'[<<q, s>>] = writes
      BY <1>0, <1>1, <1>2, <2>1
    <3> QED
      BY <2>1, <3>1
  <2>2. CASE ~(q = p /\ s = r)
    <3>1. <<q, s>> # <<p, r>>
      BY <2>2
    <3>2. /\ mem'[<<q, s>>] = mem[<<q, s>>] /\ dirty'[<<q, s>>] = dirty[<<q, s>>]
          /\ <<q, s>> \in loaded' <=> <<q, s>> \in loaded
      BY <1>0, <1>1, <2>0, <3>1
    <3>3. CASE s # r
      BY <1>2, <3>2, <3>3 DEF SavedInv
    <3>4. CASE s = r
      <4>1. <<q, s>> \notin loaded
        BY <1>1, <2>2, <3>4 DEF OneProcess
      <4>2. mem'[<<q, s>>] = {} /\ dirty'[<<q, s>>] \in Nat
        BY <1>1, <2>0, <3>2, <4>1 DEF SavedInv
      <4> QED
        BY <3>2, <4>1, <4>2, NothingUnsaved
    <3> QED
      BY <3>3, <3>4
  <2> QED
    BY <2>1, <2>2
<1> QED
  BY <1>3, <1>4 DEF SavedInv

\* The files only grow, and the counters keep up with them, through crashes,
\* restarts and expired claims.
LEMMA NextSaved ==
    ASSUME OneProcess, "io" \notin faults, TypeInv, SavedInv, [Next]_vars
    PROVE  SavedInv' /\ FilesGrow
<1>0. running \subseteq Procs
  BY DEF TypeInv, TypeOK
<1>c. ASSUME NEW p \in running, NEW r \in Registries
      PROVE  p \in Procs /\ <<p, r>> \in Copies /\ dirty[<<p, r>>] \in Nat /\ disk[r] \subseteq Keys
  <2>1. p \in Procs /\ <<p, r>> \in Copies
    BY <1>0 DEF Copies
  <2> QED
    BY <2>1, Counting DEF TypeInv, TypeOK
<1>d. \A r \in Registries : disk = [disk EXCEPT ![r] = disk[r]]
  BY DEF TypeInv, TypeOK
<1>1. ASSUME NEW p \in running, NEW r \in Registries, NEW k \in Keys, Claim(p, r, k)
      PROVE  SavedInv' /\ FilesGrow
  BY <1>1 DEF Claim, SavedInv, FilesGrow
<1>2. ASSUME NEW p \in running, NEW r \in Registries, CheckAndAdd(p, r)
      PROVE  SavedInv' /\ FilesGrow
  <2>0. PICK filter \in Loaded(p, r) :
           /\ filter \subseteq Keys
           /\ \/ IsFound(p, r, filter)
              \/ \E saved \in SUBSET Keys, count \in DirtyCounts : IsAdmitted(p, r, filter, saved, count)
    BY <1>2, Lookup
  <2>1. /\ loaded' = loaded \cup {<<p, r>>} /\ <<p, r>> \in loaded'
        /\ Before(p, r) \in Nat /\ Before(p, r) + 1 \in Nat
    BY <1>2, <1>c DEF CheckAndAdd, Before
  <2>2. /\ disk[r] \subseteq filter
        /\ IsFiniteSet(filter \ disk[r]) /\ Cardinality(filter \ disk[r]) <= Before(p, r)
    <3>1. CASE <<p, r>> \in loaded
      BY <1>c, <3>1 DEF Loaded, SavedInv, Before
    <3>2. CASE <<p, r>> \notin loaded
      <4>1. filter = disk[r] /\ Before(p, r) = 0
        BY <3>2 DEF Loaded, FileContents, Before
      <4> QED
        BY <4>1, NothingUnsaved
    <3> QED
      BY <3>1, <3>2
  <2>3. CASE IsFound(p, r, filter)
    <3>1. /\ mem' = [mem EXCEPT ![<<p, r>>] = filter] /\ dirty' = [dirty EXCEPT ![<<p, r>>] = Before(p, r)]
          /\ disk' = [disk EXCEPT ![r] = disk[r]]
      BY <1>d, <2>3 DEF IsFound
    <3> QED
      BY <2>1, <2>2, <3>1, SavedStep
  <2>4. ASSUME NEW saved \in SUBSET Keys, NEW count \in DirtyCounts, IsAdmitted(p, r, filter, saved, count)
        PROVE  SavedInv' /\ FilesGrow
    <3>1. /\ mem' = [mem EXCEPT ![<<p, r>>] = filter \cup {key[p]}]
          /\ dirty' = [dirty EXCEPT ![<<p, r>>] = count] /\ disk' = [disk EXCEPT ![r] = saved]
          /\ \/ saved = disk[r] /\ count = Before(p, r) + 1
             \/ saved = filter \cup {key[p]} /\ count = 0
      BY <2>4 DEF IsAdmitted
    <3>2. count \in Nat /\ disk[r] \subseteq saved /\ saved \subseteq filter \cup {key[p]}
      BY <2>2, <3>1, Counting
    <3>3. /\ IsFiniteSet((filter \cup {key[p]}) \ saved)
          /\ Cardinality((filter \cup {key[p]}) \ saved) <= count
      <4>1. CASE saved = disk[r] /\ count = Before(p, r) + 1
        BY <2>1, <2>2, <4>1, OneMoreUnsaved
      <4>2. CASE saved = filter \cup {key[p]} /\ count = 0
        BY <4>2, NothingUnsaved
      <4> QED
        BY <3>1, <4>1, <4>2
    <3> QED
      BY <2>1, <3>1, <3>2, <3>3, SavedStep
  <2> QED
    BY <2>0, <2>3, <2>4
<1>3. ASSUME NEW p \in running, NEW r \in Registries, Flush(p, r)
      PROVE  SavedInv' /\ FilesGrow
  <2>1. /\ disk' = [disk EXCEPT ![r] = mem[<<p, r>>]] /\ dirty' = [dirty EXCEPT ![<<p, r>>] = 0]
        /\ <<p, r>> \in loaded /\ loaded' = loaded /\ mem' = mem
    BY <1>3 DEF Flush, SaveOutcomes
  <2>2. /\ mem' = [mem EXCEPT ![<<p, r>>] = mem[<<p, r>>]] /\ loaded' = loaded \cup {<<p, r>>}
        /\ <<p, r>> \in loaded'
    BY <1>c, <2>1 DEF TypeInv, TypeOK
  <2>3. disk[r] \subseteq mem[<<p, r>>]
    BY <1>c, <2>1 DEF SavedInv
  <2>4. IsFiniteSet(mem[<<p, r>>] \ mem[<<p, r>>]) /\ Cardinality(mem[<<p, r>>] \ mem[<<p, r>>]) <= 0
    BY NothingUnsaved
  <2> QED
    BY <2>1, <2>2, <2>3, <2>4, SavedStep
<1>4. ASSUME NEW p \in running, NEW r \in Registries, SaveAndUnload(p, r)
      PROVE  SavedInv' /\ FilesGrow
  <2>1. /\ disk' = [disk EXCEPT ![r] = IF <<p, r>> \in loaded THEN mem[<<p, r>>] ELSE disk[r]]
        /\ loaded' = loaded \ {<<p, r>>} /\ mem' = [mem EXCEPT ![<<p, r>>] = {}]
        /\ dirty' = [dirty EXCEPT ![<<p, r>>] = 0] /\ <<p, r>> \notin loaded'
    BY <1>4 DEF SaveAndUnload, SavedAtClose, SaveOutcomes
  <2> DEFINE file == IF <<p, r>> \in loaded THEN mem[<<p, r>>] ELSE disk[r]
  <2>2. disk[r] \subseteq file
    BY <1>c DEF SavedInv
  <2>3. IsFiniteSet({} \ file) /\ Cardinality({} \ file) <= 0
    BY NothingUnsaved
  <2>4. disk' = [disk EXCEPT ![r] = file]
    BY <2>1
  <2> HIDE DEF file
  <2> QED
    BY <2>1, <2>2, <2>3, <2>4, SavedStep
<1>5. ASSUME NEW p \in running, Stop(p) \/ Close(p) PROVE SavedInv' /\ FilesGrow
  BY <1>4, <1>5 DEF Stop, Close, Registries
<1>6. ASSUME NEW p \in running, Crash(p) PROVE SavedInv' /\ FilesGrow
  <2>1. disk' = disk
    BY <1>6 DEF Crash
  <2>2. ASSUME NEW q \in Procs, NEW r \in Registries
        PROVE  /\ IF <<q, r>> \in loaded' THEN disk[r] \subseteq mem'[<<q, r>>] ELSE mem'[<<q, r>>] = {}
               /\ IsFiniteSet(mem'[<<q, r>>] \ disk[r])
               /\ Cardinality(mem'[<<q, r>>] \ disk[r]) <= dirty'[<<q, r>>]
    <3>0. <<q, r>> \in Copies /\ <<q, r>>[1] = q
      BY DEF Copies
    <3>1. CASE q = p
      <4>1. mem'[<<q, r>>] = {} /\ dirty'[<<q, r>>] = 0 /\ <<q, r>> \notin loaded'
        BY <1>6, <3>0, <3>1 DEF Crash
      <4> QED
        BY <4>1, NothingUnsaved
    <3>2. CASE q # p
      <4>1. /\ mem'[<<q, r>>] = mem[<<q, r>>] /\ dirty'[<<q, r>>] = dirty[<<q, r>>]
            /\ <<q, r>> \in loaded' <=> <<q, r>> \in loaded
        BY <1>6, <3>0, <3>2 DEF Crash
      <4> QED
        BY <4>1 DEF SavedInv
    <3> QED
      BY <3>1, <3>2
  <2> QED
    BY <2>1, <2>2 DEF SavedInv, FilesGrow
<1>7. ASSUME NEW p \in running, CutOff(p) PROVE SavedInv' /\ FilesGrow
  BY <1>7 DEF CutOff, SavedInv, FilesGrow
<1>8. ASSUME NEW k \in Keys, Expire(k) PROVE SavedInv' /\ FilesGrow
  BY <1>8 DEF Expire, SavedInv, FilesGrow
<1>9. CASE UNCHANGED vars
  BY <1>9 DEF vars, SavedInv, FilesGrow
<1> QED
  BY <1>1, <1>2, <1>3, <1>5, <1>6, <1>7, <1>8, <1>9 DEF Next

\* The invariant of the two theorems that follow.
Lone == OneProcess /\ "io" \notin faults

FileInv == TypeInv /\ (Lone => SavedInv)

LEMMA FileInvariant == Spec => []FileInv
<1>1. Init => FileInv
  <2> SUFFICES ASSUME Init PROVE SavedInv
    BY InitType DEF FileInv
  <2>1. \A p \in Procs, r \in Registries :
            mem[<<p, r>>] = {} /\ dirty[<<p, r>>] = 0 /\ <<p, r>> \notin loaded
    BY DEF Init, Copies
  <2> QED
    BY <2>1, NothingUnsaved DEF SavedInv
<1>2. FileInv /\ [Next]_vars => FileInv'
  BY NextType, NextSaved, SameSetting DEF FileInv, Lone, OneProcess
<1> QED
  BY <1>1, <1>2, PTL DEF Spec

\* A crash of the one process costs fewer keys of a registry than
\* AutosaveEvery, however often it dies, is restarted or is fooled by the
\* filter (bloom.py 84-103).
THEOREM LittleUnsaved == Spec => []UnsavedBounded
<1>1. FileInv => UnsavedBounded
  <2> SUFFICES ASSUME FileInv, Lone, NEW p \in running, NEW r \in Registries
               PROVE  Cardinality(mem[<<p, r>>] \ disk[r]) < AutosaveEvery
    BY DEF UnsavedBounded, Lone
  <2>0. p \in Procs /\ <<p, r>> \in Copies
    BY DEF FileInv, TypeInv, TypeOK, Copies
  <2>1. /\ IsFiniteSet(mem[<<p, r>>] \ disk[r]) /\ Cardinality(mem[<<p, r>>] \ disk[r]) <= dirty[<<p, r>>]
        /\ dirty[<<p, r>>] \in 0..(AutosaveEvery - 1)
    BY <2>0 DEF FileInv, TypeInv, TypeOK, DirtyCounts, SavedInv, Lone
  <2>2. Cardinality(mem[<<p, r>>] \ disk[r]) \in Nat
    BY <2>1, FS_CardinalityType
  <2> QED
    BY <2>1, <2>2, BoundsAssumption
<1> QED
  BY <1>1, FileInvariant, PTL

\* No save of the one process takes back what an earlier one has written,
\* also after a crash: a filter always starts from its file (bloom.py 55-82).
THEOREM SavedForGood == Spec => SavedKeysStay
<1>1. FileInv /\ [Next]_vars => [Lone => FilesGrow]_vars
  BY NextSaved DEF FileInv, Lone
<1>2. Spec => [][Lone => FilesGrow]_vars
  BY <1>1, FileInvariant, PTL DEF Spec
<1> QED
  BY <1>2 DEF SavedKeysStay, Lone, FilesGrow
-----------------------------------------------------------------------------
(***************************************************************************)
(* Dedup takes keys as KeyClaims does, while Redis keeps them.  A process  *)
(* has a key in hand between its claim and the verdict of the filter, and  *)
(* ClaimInv says that it is the only one and that the key is not admitted. *)
(***************************************************************************)
HandInv == \A p \in Procs : pc[p] \notin Registries => key[p] = None

LEMMA NextHand == TypeInv /\ HandInv /\ [Next]_vars => HandInv'
<1> SUFFICES ASSUME TypeInv, HandInv, [Next]_vars PROVE HandInv'
  OBVIOUS
<1>0. running \subseteq Procs
  BY DEF TypeInv, TypeOK
<1> USE <1>0 DEF TypeInv, TypeOK, HandInv
<1>1. ASSUME NEW p \in running, NEW r \in Registries, NEW k \in Keys, Claim(p, r, k) PROVE HandInv'
  BY <1>1 DEF Claim
<1>2. ASSUME NEW p \in running, NEW r \in Registries, CheckAndAdd(p, r) PROVE HandInv'
  BY <1>2 DEF CheckAndAdd
<1>3. ASSUME NEW p \in running, NEW r \in Registries, Flush(p, r) PROVE HandInv'
  BY <1>3 DEF Flush
<1>4. ASSUME NEW p \in running, CutOff(p) \/ Crash(p) PROVE HandInv'
  BY <1>4 DEF CutOff, Crash
<1>5. ASSUME NEW p \in running, Stop(p) \/ Close(p) PROVE HandInv'
  BY <1>5 DEF Stop, Close, SaveAndUnload, Registries
<1>6. ASSUME NEW k \in Keys, Expire(k) PROVE HandInv'
  BY <1>6 DEF Expire
<1>7. CASE UNCHANGED vars
  BY <1>7 DEF vars
<1> QED
  BY <1>1, <1>2, <1>3, <1>4, <1>5, <1>6, <1>7 DEF Next

\* Who has a key in hand, and whose key it is.
LEMMA Holding ==
    ASSUME TypeInv, ClaimInv, HandInv, NEW p \in Procs, NEW k \in Keys
    PROVE  /\ key[p] = k <=> Pending(p, k)
           /\ key[p] = k => /\ Admissions(k) = 0 /\ k \in claimed
                            /\ \A q \in Procs : key[q] = k => q = p
<1>1. \A q \in Procs : key[q] = k <=> Pending(q, k)
  BY NoneAssumption DEF HandInv, Pending
<1> HIDE DEF Pending
<1> QED
  BY <1>1 DEF ClaimInv

\* The key in hand leaves it, admitted or not.
LEMMA Settles ==
    ASSUME TypeInv, ClaimInv, HandInv, NEW p \in Procs, NEW k \in Keys, key[p] = k,
           key' = [key EXCEPT ![p] = None], claimed' = claimed,
           admitted' = admitted \/ \E r \in Registries : AdmittedBy(r, k)
    PROVE  Claims!Next
<1> DEFINE F == [j \in Keys |-> FateOf(j)]
<1>1. /\ Admissions(k) = 0 /\ k \in claimed /\ \A q \in Procs : key[q] = k => q = p
  BY Holding
<1>2. key'[p] = None /\ \A q \in Procs : q # p => key'[q] = key[q]
  BY DEF TypeInv, TypeOK
<1>3. Admissions(k)' \in {0, 1} /\ \A j \in Keys : j # k => Admissions(j)' = Admissions(j)
  <2>1. CASE admitted' = admitted
    BY <1>1, <2>1 DEF Admissions
  <2>2. CASE \E r \in Registries : AdmittedBy(r, k)
    BY <1>1, <2>2, OneMoreAdmission
  <2> QED
    BY <2>1, <2>2
<1>4. \A q \in Procs : key'[q] # k
  BY <1>1, <1>2, NoneAssumption
<1>5. FateOf(k)' \in {"done", "lost"}
  BY <1>1, <1>3, <1>4 DEF FateOf
<1>6. ASSUME NEW j \in Keys, j # k PROVE FateOf(j)' = FateOf(j)
  <2>1. \A q \in Procs : key'[q] = j <=> key[q] = j
    BY <1>2, <1>6, NoneAssumption
  <2> QED
    BY <1>3, <1>6, <2>1 DEF FateOf
<1>7. F' = [F EXCEPT ![k] = FateOf(k)']
  BY <1>6
<1>8. PICK outcome \in {"done", "lost"} : outcome = FateOf(k)'
  BY <1>5
<1>9. Claims!Settle(p, outcome)
  BY <1>7, <1>8, NoneAssumption DEF Claims!Settle
<1> QED
  BY <1>9 DEF Claims!Next

\* A claim takes a free key, the lookup or a crash settles it, and whatever
\* filters and files do besides is no business of KeyClaims.
LEMMA ClaimStep ==
    ASSUME "expire" \notin faults, TypeInv, ClaimInv, HandInv, [Next]_vars
    PROVE  [Claims!Next]_(Claims!vars)
<1>0. running \subseteq Procs
  BY DEF TypeInv, TypeOK
<1> USE <1>0
<1>1. ASSUME UNCHANGED <<key, claimed, admitted>> PROVE UNCHANGED Claims!vars
  BY <1>1 DEF Claims!vars, FateOf, Admissions
<1>2. ASSUME NEW p \in running, NEW r \in Registries, NEW k \in Keys, Claim(p, r, k), k \notin claimed
      PROVE  Claims!Next
  <2> DEFINE F == [j \in Keys |-> FateOf(j)]
  <2>1. /\ pc[p] = "idle" /\ key[p] = None /\ key' = [key EXCEPT ![p] = k]
        /\ claimed' = claimed \cup {k} /\ admitted' = admitted
    BY <1>2 DEF Claim, ClaimIsNew, HandInv, Registries
  <2>2. Admissions(k) = 0 /\ \A q \in Procs : key[q] # k
    BY <1>2, Holding DEF ClaimInv
  <2>3. key'[p] = k /\ \A q \in Procs : q # p => key'[q] = key[q]
    BY <2>1 DEF TypeInv, TypeOK
  <2>4. \A j \in Keys : Admissions(j)' = Admissions(j)
    BY <2>1 DEF Admissions
  <2>5. FateOf(k) = "free" /\ FateOf(k)' = "taken"
    BY <1>2, <2>1, <2>2, <2>3, <2>4 DEF FateOf
  <2>6. ASSUME NEW j \in Keys, j # k PROVE FateOf(j)' = FateOf(j)
    <3>1. \A q \in Procs : key'[q] = j <=> key[q] = j
      BY <2>1, <2>3, <2>6, NoneAssumption
    <3> QED
      BY <2>1, <2>4, <2>6, <3>1 DEF FateOf
  <2>7. F' = [F EXCEPT ![k] = "taken"]
    BY <2>5, <2>6
  <2>8. Claims!Take(p, k)
    BY <2>1, <2>5, <2>7 DEF Claims!Take
  <2> QED
    BY <2>8 DEF Claims!Next
<1>3. ASSUME NEW p \in running, NEW r \in Registries, NEW k \in Keys, Claim(p, r, k), k \in claimed
      PROVE  UNCHANGED Claims!vars
  BY <1>1, <1>3 DEF Claim, ClaimIsNew
<1>4. ASSUME NEW p \in running, NEW r \in Registries, CheckAndAdd(p, r) PROVE Claims!Next
  <2>1. \E filter \in Loaded(p, r) :
            \/ IsFound(p, r, filter)
            \/ \E saved \in SUBSET Keys, count \in DirtyCounts : IsAdmitted(p, r, filter, saved, count)
    BY <1>4, Lookup
  <2>2. /\ key' = [key EXCEPT ![p] = None] /\ claimed' = claimed
        /\ admitted' = admitted \/ AdmittedBy(r, key[p])
        /\ key[p] \in Keys
    BY <1>4, <2>1, Lookup DEF CheckAndAdd, IsFound, IsAdmitted
  <2> QED
    BY <2>2, Settles
<1>5. ASSUME NEW p \in running, CutOff(p) \/ Crash(p), key[p] # None PROVE Claims!Next
  <2>1. /\ key' = [key EXCEPT ![p] = None] /\ UNCHANGED <<claimed, admitted>>
        /\ key[p] \in Keys
    BY <1>5 DEF CutOff, Crash, TypeInv, TypeOK
  <2> QED
    BY <2>1, Settles
<1>6. ASSUME NEW p \in running, CutOff(p) \/ Crash(p), key[p] = None PROVE UNCHANGED Claims!vars
  <2>1. key' = key /\ UNCHANGED <<claimed, admitted>>
    BY <1>6 DEF CutOff, Crash, TypeInv, TypeOK
  <2> QED
    BY <1>1, <2>1
<1>7. ASSUME NEW p \in running, Stop(p) \/ Close(p) \/ \E r \in Registries : Flush(p, r)
      PROVE  UNCHANGED Claims!vars
  BY <1>1, <1>7 DEF Flush, Stop, Close, SaveAndUnload
<1>8. ASSUME NEW k \in Keys, Expire(k) PROVE FALSE
  BY <1>8 DEF Expire
<1>9. CASE UNCHANGED vars
  BY <1>1, <1>9 DEF vars
<1> QED
  BY <1>2, <1>3, <1>4, <1>5, <1>6, <1>7, <1>8, <1>9 DEF Next

\* Until a key expires the processes that claim keys are takers of KeyClaims,
\* whatever crashes, filters and files do (cleaning.py 189-197, rest_client.py
\* 336-343, bloom.py 55-72).
THEOREM KeysTakenOnce == Spec => ImplementsKeyClaims
<1> DEFINE Kept == "expire" \notin faults
           Inv == TypeInv /\ HandInv /\ (Kept => ClaimInv)
<1>1. Init => Inv /\ Claims!Init
  <2> SUFFICES ASSUME Init PROVE Inv /\ Claims!Init
    OBVIOUS
  <2>0. \A k \in Keys : Admissions(k) = 0
    BY DEF Init, Admissions, Registries
  <2>1. Inv
    BY <2>0, InitType DEF Init, HandInv, ClaimInv, Pending, Registries
  <2>2. \A k \in Keys : FateOf(k) = "free"
    BY <2>0, NoneAssumption DEF Init, FateOf
  <2>3. key = [p \in Procs |-> None]
    BY DEF Init
  <2> QED
    BY <2>1, <2>2, <2>3 DEF Claims!Init
<1>2. Inv /\ [Next]_vars => Inv'
  <2> SUFFICES ASSUME Inv, [Next]_vars PROVE Inv'
    OBVIOUS
  <2>1. TypeInv' /\ HandInv' /\ (Kept' <=> Kept) /\ (Kept => ClaimInv')
    BY NextType, NextHand, SameSetting, NextClaim
  <2> QED
    BY <2>1
<1>3. Inv /\ [Next]_vars => [Kept => [Claims!Next]_(Claims!vars)]_vars
  BY ClaimStep
<1> QED
  BY <1>1, <1>2, <1>3, PTL DEF Spec, ImplementsKeyClaims
=============================================================================
