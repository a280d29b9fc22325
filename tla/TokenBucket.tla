---------------------------- MODULE TokenBucket ----------------------------
(***************************************************************************)
(* The request limiter of src/ingestion/rest_client.py (lines 45-87): a    *)
(* bucket that is refilled lazily, and callers that sleep for what is      *)
(* missing and try again.  The lock is never held over an await, so one    *)
(* turn of the loop in acquire is one action.                              *)
(*                                                                         *)
(* Time is counted in ticks and Refill is the number of tokens of one      *)
(* tick; fractions of a token are left out.  An observer may begin to      *)
(* count at any moment, so what holds of its count holds of every window.  *)
(***************************************************************************)
EXTENDS Integers

CONSTANTS
    Callers,   \* coroutines that share the bucket
    Capacity,  \* capacity: the requests of a minute
    Refill,    \* refill_per_second: capacity / 60
    Amounts,   \* what acquire is called with
    MaxTime,   \* bound: the clock stops there
    MaxResets  \* bound: calls of reset

ASSUME BucketAssumption ==
    /\ Capacity \in Nat \ {0}
    /\ Refill \in Nat \ {0}
    /\ Amounts \subseteq Nat \ {0}
ASSUME ClockAssumption == MaxTime \in Nat /\ MaxResets \in Nat

VARIABLES
    state,        \* state[c]: "idle", "trying" or "sleeping"
    needed,       \* needed[c]: the tokens it asks for
    wake,         \* wake[c]: when its sleep ends
    taken,        \* taken[c]: history: what others were granted in its sleep
    tokens,       \* _tokens
    last_refill,  \* _last_refill
    now,          \* time.monotonic()
    since,        \* history: when the observer began to count
    granted,      \* history: tokens granted since then
    resets        \* history: resets since then

caller      == <<state, needed, wake, taken>>
bucket      == <<tokens, last_refill>>
observer    == <<since, granted, resets>>
bucket_vars == <<caller, bucket, now, observer>>

BucketTypeOK ==
    /\ state \in [Callers -> {"idle", "trying", "sleeping"}]
    /\ needed \in [Callers -> Nat]
    /\ wake \in [Callers -> Nat]
    /\ taken \in [Callers -> Nat]
    /\ tokens \in 0..Capacity
    /\ now \in Nat
    /\ last_refill \in 0..now
    /\ since \in 0..now
    /\ granted \in Nat
    /\ resets \in Nat

BucketInit ==
    /\ state = [c \in Callers |-> "idle"]
    /\ needed = [c \in Callers |-> 0]
    /\ wake = [c \in Callers |-> 0]
    /\ taken = [c \in Callers |-> 0]
    /\ tokens = Capacity
    /\ last_refill = 0
    /\ now = 0
    /\ since = 0
    /\ granted = 0
    /\ resets = 0

-----------------------------------------------------------------------------
Call(c, n) ==
    /\ state[c] = "idle"
    /\ state' = [state EXCEPT ![c] = "trying"]
    /\ needed' = [needed EXCEPT ![c] = n]
    /\ UNCHANGED <<wake, taken, bucket, now, observer>>

\* _refill_locked: what the bucket holds once the time since the last refill
\* is accounted for.
Refilled ==
    LET sum == tokens + (now - last_refill) * Refill
    IN  IF sum < Capacity THEN sum ELSE Capacity

\* Mutation: the time since the last refill is accounted for again.
LastRefillKept == last_refill

LastRefill == now

\* Mutation: the sleep is rounded down to whole ticks.
LongEnoughRounded(c, pause) == pause * Refill > needed[c] - Refilled - Refill

\* asyncio.sleep covers what is missing, or more.
LongEnough(c, pause) == pause * Refill >= needed[c] - Refilled

Awake(c) == state[c] = "sleeping" /\ now >= wake[c]

\* One turn of the loop.
Try(c) ==
    /\ state[c] = "trying" \/ Awake(c)
    /\ last_refill' = LastRefill
    /\ IF Refilled >= needed[c]
       THEN /\ tokens' = Refilled - needed[c]
            /\ granted' = granted + needed[c]
            /\ state' = [state EXCEPT ![c] = "idle"]
            /\ taken' = [d \in Callers |->
                            IF d # c /\ state[d] = "sleeping" THEN taken[d] + needed[c] ELSE 0]
            /\ UNCHANGED wake
       ELSE /\ tokens' = Refilled
            /\ \E pause \in 0..Capacity :
                  LongEnough(c, pause) /\ wake' = [wake EXCEPT ![c] = now + pause]
            /\ state' = [state EXCEPT ![c] = "sleeping"]
            /\ taken' = [taken EXCEPT ![c] = 0]
            /\ UNCHANGED granted
    /\ UNCHANGED <<needed, now, since, resets>>

\* After the cooldown of a 429 the bucket is full at once.
Reset ==
    /\ resets < MaxResets
    /\ tokens' = Capacity
    /\ last_refill' = now
    /\ resets' = resets + 1
    /\ UNCHANGED <<caller, now, since, granted>>

Tick ==
    /\ now < MaxTime
    /\ now' = now + 1
    /\ UNCHANGED <<caller, bucket, observer>>

\* The observer begins a new window, at a later time than the last.
Observe ==
    /\ since < now
    /\ since' = now
    /\ granted' = 0
    /\ resets' = 0
    /\ UNCHANGED <<caller, bucket, now>>

BucketNext ==
    \/ \E c \in Callers : Try(c) \/ \E n \in Amounts : Call(c, n)
    \/ Reset \/ Tick \/ Observe

BucketSpec == BucketInit /\ [][BucketNext]_bucket_vars

-----------------------------------------------------------------------------
(* Properties. *)

\* In a window of any length and place, no more is granted than one bucket,
\* what time has refilled in it, and one more bucket for each reset.
GrantsBounded == granted <= Capacity * (1 + resets) + (now - since) * Refill

\* A caller sleeps once for its tokens: when it wakes, the bucket holds what
\* it asked for, also after resets, but for what others were granted in its
\* sleep.
SleepSuffices ==
    \A c \in Callers :
        Awake(c) /\ needed[c] <= Capacity => Refilled + taken[c] >= needed[c]
=============================================================================
