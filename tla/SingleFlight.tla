----------------------------- MODULE SingleFlight -----------------------------
(***************************************************************************)
(* The caches in front of Scan and of the identity provider: a fresh value *)
(* is served at once, otherwise callers share one load in flight.  What a  *)
(* load returns was read at the source at some instant of it.  The token   *)
(* provider is an instance with one key, a margin before the expiry, and   *)
(* a token that is served while a refresh fails; the keyed cache drops     *)
(* its slots.                                                              *)
(***************************************************************************)
EXTENDS Integers, FiniteSets, Functions

CONSTANTS
    Callers,
    Keys,
    MaxKeys,        \* maxKeys
    TtlMs,          \* ttlMs; the life of a token
    SkewMs,         \* refreshSkewMs; none for a cache
    ServesStale,    \* is a failed load answered from the value still held?
    DropsSlots,     \* does invalidation drop the slot, with its load?
    LatencyMs,      \* bound: how long a load takes
    MaxTime         \* bound: the clock

VARIABLES
    clock,
    slots,      \* per key: what it holds, until when, and the load in flight
    stamps,     \* when each key was last asked for
    load,       \* per caller that started one: its load
    caller,     \* per caller: the load it awaits, and when it came
    served      \* history: the value served last

vars == <<clock, slots, stamps, load, caller, served>>

None == "none"
Never == -(TtlMs + LatencyMs)
Empty == [readAt |-> Never, expiresAt |-> Never, load |-> None]
Free == [key |-> None, readAt |-> Never, since |-> Never]
Idle == [load |-> None, key |-> None, asked |-> Never, fresh |-> FALSE]

Init ==
    /\ clock = 0
    /\ slots = << >>
    /\ stamps = << >>
    /\ load = [c \in Callers |-> Free]
    /\ caller = [c \in Callers |-> Idle]
    /\ served = {}

SlotOf(key) == IF key \in DOMAIN slots THEN slots[key] ELSE Empty

\* evictIfFull: when the map is full the keys not asked for lately go, and if
\* none is so, all of them
Evicted ==
    IF Cardinality(DOMAIN slots) < MaxKeys THEN slots
    ELSE LET kept == {k \in DOMAIN slots : stamps[k] > clock - TtlMs}
         IN  IF Cardinality(kept) >= MaxKeys THEN << >> ELSE Restrict(slots, kept)

\* a mutant: the value is fresh as long as it has not expired
FreshUntilExpiry(slot) == slot.expiresAt - clock >= 0

\* comfortably fresh: outside the margin before the expiry
IsFresh(slot) == slot.expiresAt - clock > SkewMs

Serve(readers, readAt, stale) ==
    served' = {[at |-> clock, readAt |-> readAt, stale |-> stale,
                asked |-> r.asked, fresh |-> r.fresh] : r \in readers}

\* get, on the slots as they are then: a fresh value, the load in flight, or
\* a load of one's own
GetFrom(c, key, held, forced) ==
    LET slot == IF key \in DOMAIN held THEN held[key] ELSE Empty
        me == [load |-> IF slot.load = None THEN c ELSE slot.load,
               key |-> key, asked |-> clock, fresh |-> forced]
        starts == ~IsFresh(slot) /\ slot.load = None
    IN  /\ slots' = [k \in DOMAIN held \cup {key} |->
                       IF k # key THEN held[k]
                       ELSE IF starts THEN [slot EXCEPT !.load = c] ELSE slot]
        /\ stamps' = [k \in DOMAIN slots' |-> IF k = key THEN clock ELSE stamps[k]]
        /\ IF IsFresh(slot)
           THEN Serve({me}, slot.readAt, FALSE) /\ UNCHANGED <<caller, load>>
           ELSE /\ caller' = [caller EXCEPT ![c] = me]
                /\ load' = IF starts THEN [load EXCEPT
                                             ![c] = [Free EXCEPT !.key = key,
                                                                 !.since = clock]]
                           ELSE load
                /\ UNCHANGED served
    /\ UNCHANGED clock

Get(c, key) ==
    /\ caller[c] = Idle
    /\ GetFrom(c, key, IF key \in DOMAIN slots THEN slots ELSE Evicted, FALSE)

\* invalidate, then get: a slot that is kept keeps its load in flight
Refresh(c, key) ==
    /\ caller[c] = Idle
    /\ key \in DOMAIN slots
    /\ GetFrom(c, key,
               IF DropsSlots THEN Restrict(slots, DOMAIN slots \ {key})
               ELSE [slots EXCEPT ![key] = [Empty EXCEPT !.load = slots[key].load]],
               TRUE)

-----------------------------------------------------------------------------

\* the source reads the value, or mints the token
Read(c) ==
    /\ load[c].key # None /\ load[c].readAt = Never
    /\ load' = [load EXCEPT ![c].readAt = clock]
    /\ UNCHANGED <<clock, slots, stamps, caller, served>>

Waiting(c) == {d \in Callers : caller[d].load = c}
Leave(c) == caller' = [d \in Callers |-> IF d \in Waiting(c) THEN Idle ELSE caller[d]]
Readers(c) == {caller[d] : d \in Waiting(c)}

\* the slot the load was started from, if it is still there
Fill(c, slot) ==
    slots' = IF SlotOf(load[c].key).load = c
             THEN [slots EXCEPT ![load[c].key] = slot] ELSE slots

\* the answer arrives: the slot holds it from then on, and all who wait get it
Land(c) ==
    /\ load[c].readAt # Never
    /\ Fill(c, [readAt |-> load[c].readAt, load |-> None,
                expiresAt |-> IF TtlMs > 0 THEN clock + TtlMs ELSE 0])
    /\ Serve(Readers(c), load[c].readAt, FALSE)
    /\ Leave(c)
    /\ load' = [load EXCEPT ![c] = Free]
    /\ UNCHANGED <<clock, stamps>>

\* the load fails: nothing is remembered of it, and who waits gets the error,
\* or the value held, when that may be served and has not expired
Fail(c) ==
    /\ load[c].key # None
    /\ LET slot == SlotOf(load[c].key)
       IN  /\ Fill(c, [slot EXCEPT !.load = None])
           /\ IF ServesStale /\ slot.expiresAt - clock > 0
              THEN Serve(Readers(c), slot.readAt, TRUE)
              ELSE UNCHANGED served
    /\ Leave(c)
    /\ load' = [load EXCEPT ![c] = Free]
    /\ UNCHANGED <<clock, stamps>>

Tick ==
    /\ clock < MaxTime
    /\ \A c \in Callers : load[c].key # None => clock - load[c].since < LatencyMs
    /\ clock' = clock + 1
    /\ served' = {}
    /\ UNCHANGED <<slots, stamps, load, caller>>

Next ==
    \/ \E c \in Callers :
         \/ \E key \in Keys : Get(c, key) \/ Refresh(c, key)
         \/ Read(c) \/ Land(c) \/ Fail(c)
    \/ Tick

Spec == Init /\ [][Next]_vars

-----------------------------------------------------------------------------

(***************************************************************************)
(* A value is served for its life from when it was read, and the load it   *)
(* came with at most: the margin before the expiry, where there is one,    *)
(* covers that load, so a token is not expired for the participant that    *)
(* gets it, unless its refresh failed.  Who asks for a fresh value gets    *)
(* one that was read since, or by a load that was then in flight.          *)
(***************************************************************************)
ServedIsLive ==
    \A s \in served :
      /\ s.at < s.readAt + TtlMs + LatencyMs - (IF s.stale THEN 0 ELSE SkewMs)
      /\ s.fresh => s.readAt >= s.asked - (IF DropsSlots THEN 0 ELSE LatencyMs)
=============================================================================
