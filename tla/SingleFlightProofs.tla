-------------------------- MODULE SingleFlightProofs --------------------------
(***************************************************************************)
(* What a cache or the token provider serves is alive, for any callers,    *)
(* keys, life, margin and latency.                                         *)
(***************************************************************************)
EXTENDS SingleFlight, FiniteSetTheorems, TLAPS

\* what the constants are: a token provider keeps its one slot
Deployed ==
    /\ TtlMs \in Nat /\ SkewMs \in Nat /\ LatencyMs \in Nat /\ SkewMs < TtlMs
    /\ ServesStale \in BOOLEAN /\ DropsSlots \in BOOLEAN
    /\ None \notin Callers /\ None \notin Keys
    /\ ServesStale => /\ ~DropsSlots /\ MaxKeys \in Nat \ {0}
                      /\ \A j, k \in Keys : j = k

Slot == [readAt : Int, expiresAt : Int, load : Callers \cup {None}]
Load == [key : Keys \cup {None}, readAt : Int, since : Int]
Caller == [load : Callers \cup {None}, key : Keys \cup {None}, asked : Int,
           fresh : BOOLEAN]

TypeOK ==
    /\ clock \in Nat
    /\ DOMAIN slots \subseteq Keys
    /\ \A k \in Keys : SlotOf(k) \in Slot
    /\ load \in [Callers -> Load]
    /\ caller \in [Callers -> Caller]

\* a load in flight is not older than the latency, what it read was read in
\* it, and who started it waits for it
Loads ==
    \A c \in Callers :
      IF load[c].key = None THEN load[c].readAt = Never
      ELSE /\ 0 <= load[c].since /\ load[c].since <= clock
           /\ clock <= load[c].since + LatencyMs
           /\ load[c].readAt # Never =>
                load[c].since <= load[c].readAt /\ load[c].readAt <= clock
           /\ caller[c].load = c

\* a slot lives from its reading, and its load is one for its key
Slots ==
    \A k \in Keys :
      /\ SlotOf(k).expiresAt <= SlotOf(k).readAt + TtlMs + LatencyMs
      /\ SlotOf(k).load # None => load[SlotOf(k).load].key = k

\* how much older than the call a fresh value may be
Slack == IF DropsSlots THEN 0 ELSE LatencyMs

\* who waits, waits for a load, and who wants a fresh value for a recent one
Waits ==
    \A d \in Callers : caller[d].load # None =>
      /\ load[caller[d].load].key # None
      /\ caller[d].fresh => load[caller[d].load].since >= caller[d].asked - Slack

\* where a failed load is answered from the slot, the slot is that load's, and
\* it holds nothing when someone wants a fresh value of it
Stales ==
    ServesStale =>
      \A k \in Keys, d \in Callers :
        /\ load[d].key = k => SlotOf(k).load = d
        /\ /\ caller[d].load # None /\ caller[d].fresh
           /\ load[caller[d].load].key = k
           => SlotOf(k).expiresAt = Never

Inv == TypeOK /\ Loads /\ Slots /\ Waits /\ Stales /\ ServedIsLive

-----------------------------------------------------------------------------

LEMMA NeverIs == ASSUME Deployed PROVE Never \in Int /\ Never < 0
  BY DEF Never, Deployed

LEMMA EmptyIs ==
    ASSUME Deployed
    PROVE  /\ Empty \in Slot /\ Empty.expiresAt = Never /\ Empty.load = None
           /\ Empty.expiresAt <= Empty.readAt + TtlMs + LatencyMs
  BY NeverIs DEF Empty, Slot, Deployed

LEMMA IdleIs ==
    ASSUME Deployed
    PROVE  Idle \in Caller /\ Idle.load = None
  BY NeverIs DEF Idle, Caller, Deployed

LEMMA FreeIs ==
    ASSUME Deployed
    PROVE  Free \in Load /\ Free.key = None /\ Free.readAt = Never
  BY NeverIs DEF Free, Load, Deployed

LEMMA Initially == ASSUME Deployed PROVE Init => Inv
  <1> SUFFICES ASSUME Init PROVE Inv
    OBVIOUS
  <1>1. \A k \in Keys : SlotOf(k) = Empty
    BY DEF Init, SlotOf
  <1>2. TypeOK
    BY <1>1, EmptyIs, FreeIs, IdleIs DEF Init, TypeOK
  <1>3. Loads /\ Slots /\ Waits /\ Stales
    BY <1>1, EmptyIs, FreeIs, IdleIs
       DEF Init, Loads, Slots, Waits, Stales, Deployed
  <1>4. ServedIsLive
    BY DEF Init, ServedIsLive
  <1> QED
    BY <1>2, <1>3, <1>4 DEF Inv

LEMMA StillServed == ServedIsLive /\ UNCHANGED served => ServedIsLive'
  BY DEF ServedIsLive

-----------------------------------------------------------------------------
(* The steps that touch a load alone.                                      *)

LEMMA ReadKeeps ==
    ASSUME Deployed, Inv, NEW c \in Callers, Read(c)
    PROVE  Inv'
  <1>1. load' = [load EXCEPT ![c] = [load[c] EXCEPT !.readAt = clock]]
        /\ load[c].key # None /\ UNCHANGED <<clock, slots, stamps, caller, served>>
    BY DEF Read
  <1>2. load[c] \in Load /\ clock \in Int
    BY DEF Inv, TypeOK
  <1>3. [load[c] EXCEPT !.readAt = clock] \in Load
    BY <1>2 DEF Load
  <1>4. load' \in [Callers -> Load]
    BY <1>1, <1>3 DEF Inv, TypeOK
  <1>5. \A d \in Callers : /\ load'[d].key = load[d].key
                          /\ load'[d].since = load[d].since
                          /\ \/ load'[d].readAt = load[d].readAt
                             \/ d = c /\ load'[d].readAt = clock
    BY <1>1, <1>2 DEF Inv, TypeOK, Load
  <1>6. \A k \in Keys : SlotOf(k)' = SlotOf(k)
    BY <1>1 DEF SlotOf
  <1>7. TypeOK'
    BY <1>1, <1>4, <1>6 DEF Inv, TypeOK
  <1>8. Loads'
    BY <1>1, <1>2, <1>5 DEF Inv, Loads
  <1>9. Slots'
    <2>1. \A k \in Keys : SlotOf(k).load \in Callers \cup {None}
      BY DEF Inv, TypeOK, Slot
    <2> QED
      BY <1>5, <1>6, <2>1 DEF Inv, Slots
  <1>10. \A d \in Callers : caller[d].load \in Callers \cup {None}
    BY DEF Inv, TypeOK, Caller
  <1>11. Waits'
    BY <1>1, <1>5, <1>10 DEF Inv, Waits
  <1>12. Stales'
    BY <1>1, <1>5, <1>6, <1>10 DEF Inv, Stales
  <1> QED
    BY <1>1, <1>7, <1>8, <1>9, <1>11, <1>12, StillServed DEF Inv

LEMMA TickKeeps == ASSUME Deployed, Inv, Tick PROVE Inv'
  <1>1. clock' = clock + 1 /\ served' = {} /\ UNCHANGED <<slots, stamps, load, caller>>
    BY DEF Tick
  <1>2. \A k \in Keys : SlotOf(k)' = SlotOf(k)
    BY <1>1 DEF SlotOf
  <1>3. TypeOK'
    BY <1>1, <1>2 DEF Inv, TypeOK
  <1>4. Loads'
    <2>1. \A c \in Callers : load[c].since \in Int /\ load[c].readAt \in Int
      BY DEF Inv, TypeOK, Load
    <2> QED
      BY <1>1, <2>1 DEF Tick, Inv, TypeOK, Loads, Deployed
  <1>5. Slots' /\ Waits' /\ ServedIsLive'
    BY <1>1, <1>2 DEF Inv, Slots, Waits, ServedIsLive, Slack
  <1>6. Stales'
    BY <1>1, <1>2 DEF Inv, Stales
  <1> QED
    BY <1>3, <1>4, <1>5, <1>6 DEF Inv

-----------------------------------------------------------------------------
(* A call.                                                                 *)

HeldSlot(held, k) == IF k \in DOMAIN held THEN held[k] ELSE Empty

\* the slots a call finds after eviction or invalidation
HeldBy(held) ==
    /\ DOMAIN held \subseteq Keys
    /\ \A k \in Keys :
         LET slot == HeldSlot(held, k)
         IN  /\ slot \in Slot
             /\ slot.expiresAt <= slot.readAt + TtlMs + LatencyMs
             /\ slot.load = SlotOf(k).load \/ slot.load = None
             /\ ServesStale => /\ slot.load = SlotOf(k).load
                               /\ slot.expiresAt \in {SlotOf(k).expiresAt, Never}

LEMMA GetFromKeeps ==
    ASSUME Deployed, Inv, NEW c \in Callers, NEW key \in Keys, NEW held,
           NEW forced \in BOOLEAN, caller[c] = Idle, HeldBy(held),
           forced => /\ HeldSlot(held, key).expiresAt = Never
                     /\ DropsSlots => HeldSlot(held, key).load = None,
           GetFrom(c, key, held, forced)
    PROVE  Inv'
  <1> DEFINE slot == HeldSlot(held, key)
             me == [load |-> IF slot.load = None THEN c ELSE slot.load,
                    key |-> key, asked |-> clock, fresh |-> forced]
             starts == ~IsFresh(slot) /\ slot.load = None
             begun == [Free EXCEPT !.key = key, !.since = clock]
             filled == IF starts THEN [slot EXCEPT !.load = c] ELSE slot
  <1>1. slot \in Slot /\ c # None /\ key # None
    BY DEF HeldBy, Deployed
  <1>2. load[c].key = None
    BY <1>1, IdleIs DEF Inv, Loads
  <1>3. /\ clock' = clock
        /\ slots' = [k \in DOMAIN held \cup {key} |-> IF k # key THEN held[k] ELSE filled]
        /\ IF IsFresh(slot)
           THEN Serve({me}, slot.readAt, FALSE) /\ UNCHANGED <<caller, load>>
           ELSE /\ caller' = [caller EXCEPT ![c] = me]
                /\ load' = IF starts THEN [load EXCEPT ![c] = begun] ELSE load
                /\ UNCHANGED served
    BY Zenon DEF GetFrom, HeldSlot
  <1>4. me \in Caller /\ me.load = (IF slot.load = None THEN c ELSE slot.load)
        /\ me.asked = clock /\ me.fresh = forced
    BY <1>1 DEF Caller, Slot, Inv, TypeOK
  <1>5. begun \in Load /\ begun.key = key /\ begun.since = clock /\ begun.readAt = Never
    <2>1. clock \in Int /\ Free \in Load
      BY FreeIs DEF Inv, TypeOK
    <2> QED
      BY <2>1, FreeIs DEF Load
  <1>6. /\ filled \in Slot /\ filled.expiresAt = slot.expiresAt
        /\ filled.readAt = slot.readAt
        /\ filled.load = IF starts THEN c ELSE slot.load
    BY <1>1 DEF Slot
  <1> HIDE DEF me, begun, filled
  <1>7. \A k \in Keys : SlotOf(k)' = IF k = key THEN filled ELSE HeldSlot(held, k)
    BY <1>3 DEF SlotOf, HeldSlot
  <1>8. TypeOK'
    <2>1. DOMAIN slots' \subseteq Keys
      BY <1>3 DEF HeldBy
    <2>2. \A k \in Keys : SlotOf(k)' \in Slot
      BY <1>6, <1>7 DEF HeldBy
    <2> QED
      BY <1>3, <1>4, <1>5, <2>1, <2>2 DEF Inv, TypeOK
  <1>9. /\ \A d \in Callers : d # c => load'[d] = load[d] /\ caller'[d] = caller[d]
        /\ starts => load'[c] = begun /\ caller'[c] = me
        /\ ~starts => load'[c] = load[c]
        /\ \/ caller'[c] = caller[c]
           \/ ~IsFresh(slot) /\ caller'[c] = me
    BY <1>3 DEF Inv, TypeOK
  <1>10. Loads'
    <2> SUFFICES ASSUME NEW d \in Callers
                 PROVE  IF load'[d].key = None THEN load'[d].readAt = Never
                        ELSE /\ 0 <= load'[d].since /\ load'[d].since <= clock
                             /\ clock <= load'[d].since + LatencyMs
                             /\ load'[d].readAt # Never =>
                                  /\ load'[d].since <= load'[d].readAt
                                  /\ load'[d].readAt <= clock
                             /\ caller'[d].load = d
      BY <1>3 DEF Loads
    <2>1. CASE d # c
      BY <1>9, <2>1 DEF Inv, Loads
    <2>2. CASE d = c /\ starts
      BY <1>4, <1>5, <1>9, <2>2 DEF Inv, TypeOK, Deployed
    <2>3. CASE d = c /\ ~starts
      BY <1>2, <1>9, <2>3 DEF Inv, Loads
    <2> QED
      BY <2>1, <2>2, <2>3
  <1>11. \A k \in Keys : SlotOf(k).load # c
    BY <1>1, <1>2 DEF Inv, Slots, Deployed
  <1>12. Slots'
    <2> SUFFICES ASSUME NEW k \in Keys
                 PROVE  /\ SlotOf(k)'.expiresAt <= SlotOf(k)'.readAt + TtlMs + LatencyMs
                        /\ SlotOf(k)'.load # None => load'[SlotOf(k)'.load].key = k
      BY DEF Slots
    <2>1. SlotOf(k).load \in Callers \cup {None}
      BY DEF Inv, TypeOK, Slot
    <2>2. HeldSlot(held, k).load # None =>
            load'[HeldSlot(held, k).load].key = k
      BY <1>9, <1>11, <2>1 DEF Inv, Slots, HeldBy
    <2>3. CASE k # key
      BY <1>7, <2>2, <2>3 DEF HeldBy
    <2>4. CASE k = key
      BY <1>5, <1>6, <1>7, <1>9, <2>2, <2>4 DEF HeldBy
    <2> QED
      BY <2>3, <2>4
  <1>13. \A d \in Callers : caller[d].load \in Callers \cup {None}
    BY DEF Inv, TypeOK, Caller
  <1>14. ~IsFresh(slot) /\ caller'[c] = me =>
           /\ load'[me.load].key = key
           /\ forced => load'[me.load].since >= clock - Slack
    <2>1. CASE slot.load = None /\ ~IsFresh(slot) /\ caller'[c] = me
      BY <1>4, <1>5, <1>9, <2>1 DEF Slack, Deployed, Inv, TypeOK
    <2>2. CASE slot.load # None
      <3>1. slot.load = SlotOf(key).load /\ slot.load \in Callers
        BY <1>1, <2>2 DEF HeldBy, Slot
      <3>2. load[slot.load].key = key
        BY <2>2, <3>1 DEF Inv, Slots
      <3>3. load'[me.load] = load[slot.load]
        BY <1>2, <1>1, <1>4, <1>9, <2>2, <3>1, <3>2
      <3>4. clock <= load[slot.load].since + LatencyMs /\ load[slot.load].since \in Int
        BY <1>1, <3>1, <3>2 DEF Inv, Loads, TypeOK, Load
      <3> QED
        BY <2>2, <3>2, <3>3, <3>4 DEF Slack, Deployed, Inv, TypeOK
    <2> QED
      BY <2>1, <2>2
  <1>15. Waits'
    <2> SUFFICES ASSUME NEW d \in Callers, caller'[d].load # None
                 PROVE  /\ load'[caller'[d].load].key # None
                        /\ caller'[d].fresh =>
                             load'[caller'[d].load].since >= caller'[d].asked - Slack
      BY DEF Waits, Slack
    <2>1. CASE caller'[d] = caller[d]
      <3>1. caller[d].load # c
        BY <1>2, <2>1 DEF Inv, Waits
      <3> QED
        BY <1>9, <1>13, <2>1, <3>1 DEF Inv, Waits
    <2>2. CASE d = c /\ ~IsFresh(slot) /\ caller'[c] = me
      BY <1>1, <1>4, <1>14, <2>2
    <2> QED
      BY <1>9, <2>1, <2>2
  <1>16. Stales'
    <2> SUFFICES ASSUME ServesStale, NEW k \in Keys, NEW d \in Callers
                 PROVE  /\ load'[d].key = k => SlotOf(k)'.load = d
                        /\ /\ caller'[d].load # None /\ caller'[d].fresh
                           /\ load'[caller'[d].load].key = k
                           => SlotOf(k)'.expiresAt = Never
      BY DEF Stales
    <2> DEFINE found == HeldSlot(held, k)
    <2>1. /\ found.load = SlotOf(k).load
          /\ found.expiresAt \in {SlotOf(k).expiresAt, Never}
      BY DEF HeldBy
    <2>2. k # None /\ d # None
      BY DEF Deployed
    <2>3. load'[d].key = k => SlotOf(k)'.load = d
      <3>1. CASE d = c
        BY <1>2, <1>5, <1>6, <1>7, <1>9, <2>2, <3>1
      <3>2. CASE d # c
        <4>1. load[d].key = k => found.load = d
          BY <2>1 DEF Inv, Stales
        <4> QED
          BY <1>6, <1>7, <1>9, <2>2, <3>2, <4>1
      <3> QED
        BY <3>1, <3>2
    <2>4. ASSUME caller'[d].load # None, caller'[d].fresh,
                 load'[caller'[d].load].key = k
          PROVE  SlotOf(k)'.expiresAt = Never
      <3>1. CASE caller'[d] = caller[d]
        <4>1. caller[d].load \in Callers \ {c}
          BY <1>2, <1>13, <2>4, <3>1 DEF Inv, Waits
        <4>2. load[caller[d].load].key = k
          BY <1>9, <2>4, <3>1, <4>1
        <4>3. found.expiresAt = Never
          BY <2>1, <2>4, <3>1, <4>2 DEF Inv, Stales
        <4> QED
          BY <1>6, <1>7, <4>3
      <3>2. CASE d = c /\ ~IsFresh(slot) /\ caller'[c] = me
        BY <1>4, <1>6, <1>7, <1>14, <2>4, <3>2
      <3> QED
        BY <1>9, <3>1, <3>2
    <2> QED
      BY <2>3, <2>4
  <1>17. ServedIsLive'
    <2>1. CASE IsFresh(slot)
      <3>1. slot.expiresAt - clock > SkewMs
        BY <2>1 DEF IsFresh
      <3>2. /\ slot.expiresAt \in Int /\ slot.readAt \in Int /\ clock \in Nat
            /\ slot.expiresAt <= slot.readAt + TtlMs + LatencyMs
        BY <1>1 DEF HeldBy, Slot, Inv, TypeOK
      <3>3. clock < slot.readAt + TtlMs + LatencyMs - SkewMs
        BY <3>1, <3>2 DEF Deployed
      <3>4. ~me.fresh
        BY <1>4, <3>1, <3>2, NeverIs DEF Deployed
      <3>5. \A r \in {me} : r.fresh => slot.readAt >= r.asked - Slack
        BY <3>4
      <3>6. Serve({me}, slot.readAt, FALSE)
        BY <1>3, <2>1
      <3> HIDE DEF slot
      <3> QED
        BY <3>2, <3>3, <3>5, <3>6 DEF Serve, ServedIsLive, Slack
    <2>2. CASE ~IsFresh(slot)
      BY <1>3, <2>2, StillServed DEF Inv
    <2> QED
      BY <2>1, <2>2
  <1> QED
    BY <1>8, <1>10, <1>12, <1>15, <1>16, <1>17 DEF Inv

LEMMA GetKeeps ==
    ASSUME Deployed, Inv, NEW c \in Callers, NEW key \in Keys, Get(c, key)
    PROVE  Inv'
  <1> DEFINE held == IF key \in DOMAIN slots THEN slots ELSE Evicted
  <1>1. \/ held = slots
        \/ /\ ~ServesStale
           /\ \E S \in SUBSET DOMAIN slots : held = Restrict(slots, S)
    <2>1. CASE ServesStale /\ key \notin DOMAIN slots
      <3>1. DOMAIN slots = {}
        BY <2>1 DEF Inv, TypeOK, Deployed
      <3> QED
        BY <2>1, <3>1, FS_EmptySet DEF Evicted, Deployed
    <2>2. CASE ~ServesStale
      <3>1. << >> = Restrict(slots, {})
        BY DEF Restrict
      <3> QED
        BY <2>2, <3>1 DEF Evicted
    <2> QED
      BY <2>1, <2>2
  <1>2. \A k \in Keys :
          \/ HeldSlot(held, k) = SlotOf(k)
          \/ ~ServesStale /\ HeldSlot(held, k) = Empty
    BY <1>1 DEF HeldSlot, SlotOf, Restrict
  <1>3. DOMAIN held \subseteq Keys
    BY <1>1 DEF Restrict, Inv, TypeOK
  <1>4. HeldBy(held)
    BY <1>2, <1>3, EmptyIs DEF HeldBy, Inv, TypeOK, Slots
  <1>5. caller[c] = Idle /\ GetFrom(c, key, held, FALSE)
    BY DEF Get
  <1> HIDE DEF held
  <1> QED
    BY <1>4, <1>5, GetFromKeeps

LEMMA RefreshKeeps ==
    ASSUME Deployed, Inv, NEW c \in Callers, NEW key \in Keys, Refresh(c, key)
    PROVE  Inv'
  <1> DEFINE emptied == [Empty EXCEPT !.load = slots[key].load]
             held == IF DropsSlots THEN Restrict(slots, DOMAIN slots \ {key})
                     ELSE [slots EXCEPT ![key] = emptied]
  <1>1. key \in DOMAIN slots /\ slots[key] = SlotOf(key)
    BY DEF Refresh, SlotOf
  <1>2. /\ emptied \in Slot /\ emptied.expiresAt = Never
        /\ emptied.readAt = Empty.readAt /\ emptied.load = SlotOf(key).load
    BY <1>1, EmptyIs DEF Inv, TypeOK, Slot
  <1> HIDE DEF emptied
  <1>3. DOMAIN held \subseteq Keys
    BY DEF Inv, TypeOK, Restrict
  <1>4. \A k \in Keys : HeldSlot(held, k) =
          IF k # key THEN SlotOf(k) ELSE IF DropsSlots THEN Empty ELSE emptied
    BY <1>1 DEF HeldSlot, SlotOf, Restrict
  <1>5. HeldBy(held)
    BY <1>2, <1>3, <1>4, EmptyIs DEF HeldBy, Inv, TypeOK, Slots, Deployed
  <1>6. /\ HeldSlot(held, key).expiresAt = Never
        /\ DropsSlots => HeldSlot(held, key).load = None
    BY <1>2, <1>4, EmptyIs
  <1>7. caller[c] = Idle /\ GetFrom(c, key, held, TRUE)
    BY DEF Refresh, emptied
  <1> HIDE DEF held
  <1> QED
    BY <1>5, <1>6, <1>7, GetFromKeeps

-----------------------------------------------------------------------------
(* A load ends.                                                            *)

LEMMA EndKeeps ==
    ASSUME Deployed, Inv, NEW c \in Callers, load[c].key # None,
           NEW slot \in Slot, slot.load = None,
           slot.expiresAt <= slot.readAt + TtlMs + LatencyMs,
           Fill(c, slot), Leave(c), load' = [load EXCEPT ![c] = Free],
           clock' = clock
    PROVE  TypeOK' /\ Loads' /\ Slots' /\ Waits' /\ Stales'
  <1> DEFINE key == load[c].key
  <1>1. key \in Keys /\ c # None
    BY DEF Inv, TypeOK, Load, Deployed
  <1>2. /\ DOMAIN slots' = DOMAIN slots
        /\ \A k \in Keys : SlotOf(k)' = IF k = key /\ SlotOf(k).load = c
                                        THEN slot ELSE SlotOf(k)
    <2>1. CASE SlotOf(key).load = c
      <3>1. key \in DOMAIN slots
        BY <1>1, <2>1, EmptyIs DEF SlotOf
      <3>2. slots' = [slots EXCEPT ![key] = slot]
        BY <2>1 DEF Fill
      <3> QED
        BY <2>1, <3>1, <3>2 DEF SlotOf
    <2>2. CASE SlotOf(key).load # c
      BY <2>2 DEF Fill, SlotOf
    <2> QED
      BY <2>1, <2>2
  <1>3. \A d \in Callers : caller'[d] = IF caller[d].load = c THEN Idle ELSE caller[d]
    BY DEF Leave, Waiting
  <1>4. \A d \in Callers : load'[d] = IF d = c THEN Free ELSE load[d]
    BY DEF Inv, TypeOK
  <1>5. TypeOK'
    <2>1. caller' \in [Callers -> Caller]
      BY IdleIs DEF Leave, Inv, TypeOK
    <2>2. load' \in [Callers -> Load]
      BY FreeIs DEF Inv, TypeOK
    <2> QED
      BY <1>2, <2>1, <2>2 DEF Inv, TypeOK
  <1>6. Loads'
    <2> SUFFICES ASSUME NEW d \in Callers
                 PROVE  IF load'[d].key = None THEN load'[d].readAt = Never
                        ELSE /\ 0 <= load'[d].since /\ load'[d].since <= clock
                             /\ clock <= load'[d].since + LatencyMs
                             /\ load'[d].readAt # Never =>
                                  /\ load'[d].since <= load'[d].readAt
                                  /\ load'[d].readAt <= clock
                             /\ caller'[d].load = d
      BY DEF Loads
    <2>1. CASE d = c
      BY <1>4, <2>1, FreeIs
    <2>2. CASE d # c
      BY <1>3, <1>4, <2>2 DEF Inv, Loads
    <2> QED
      BY <2>1, <2>2
  <1>7. Slots'
    <2> SUFFICES ASSUME NEW k \in Keys
                 PROVE  /\ SlotOf(k)'.expiresAt <= SlotOf(k)'.readAt + TtlMs + LatencyMs
                        /\ SlotOf(k)'.load # None => load'[SlotOf(k)'.load].key = k
      BY DEF Slots
    <2>1. SlotOf(k).load \in Callers \cup {None}
      BY DEF Inv, TypeOK, Slot
    <2>2. SlotOf(k).load = c => k = key
      BY <1>1 DEF Inv, Slots
    <2> QED
      BY <1>2, <1>4, <2>1, <2>2 DEF Inv, Slots
  <1>8. \A d \in Callers : caller[d].load \in Callers \cup {None}
    BY DEF Inv, TypeOK, Caller
  <1>9. Waits'
    <2> SUFFICES ASSUME NEW d \in Callers, caller'[d].load # None
                 PROVE  /\ load'[caller'[d].load].key # None
                        /\ caller'[d].fresh =>
                             load'[caller'[d].load].since >= caller'[d].asked - Slack
      BY DEF Waits, Slack
    <2>1. caller'[d] = caller[d] /\ caller[d].load # c
      BY <1>3, IdleIs
    <2> QED
      BY <1>4, <1>8, <2>1 DEF Inv, Waits
  <1>10. Stales'
    <2> SUFFICES ASSUME ServesStale, NEW k \in Keys, NEW d \in Callers
                 PROVE  /\ load'[d].key = k => SlotOf(k)'.load = d
                        /\ /\ caller'[d].load # None /\ caller'[d].fresh
                           /\ load'[caller'[d].load].key = k
                           => SlotOf(k)'.expiresAt = Never
      BY DEF Stales
    <2>1. k # None /\ SlotOf(key).load = c
      BY <1>1 DEF Inv, Stales, Deployed
    <2>2. load'[d].key = k => SlotOf(k)'.load = d
      BY <1>2, <1>4, <2>1, FreeIs DEF Inv, Stales
    <2>3. ASSUME caller'[d].load # None, caller'[d].fresh,
                 load'[caller'[d].load].key = k
          PROVE  SlotOf(k)'.expiresAt = Never
      <3>1. caller'[d] = caller[d] /\ caller[d].load \in Callers \ {c}
        BY <1>3, <1>8, <2>3, IdleIs
      <3>2. load[caller[d].load].key = k
        BY <1>4, <2>3, <3>1
      <3>3. SlotOf(k).load # c /\ SlotOf(k).expiresAt = Never
        BY <2>3, <3>1, <3>2 DEF Inv, Stales
      <3> QED
        BY <1>2, <3>3
    <2> QED
      BY <2>2, <2>3
  <1> QED
    BY <1>5, <1>6, <1>7, <1>9, <1>10

LEMMA LandKeeps ==
    ASSUME Deployed, Inv, NEW c \in Callers, Land(c)
    PROVE  Inv'
  <1> DEFINE slot == [readAt |-> load[c].readAt, load |-> None,
                      expiresAt |-> IF TtlMs > 0 THEN clock + TtlMs ELSE 0]
  <1>1. /\ load[c].key # None /\ load[c].readAt \in Int /\ clock \in Nat
        /\ load[c].since <= load[c].readAt /\ load[c].readAt <= clock
        /\ clock <= load[c].since + LatencyMs /\ load[c].since \in Int
    BY DEF Land, Inv, Loads, TypeOK, Load
  <1>2. /\ slot \in Slot /\ slot.load = None
        /\ slot.expiresAt <= slot.readAt + TtlMs + LatencyMs
    BY <1>1 DEF Slot, Deployed
  <1>3. /\ Fill(c, slot) /\ Leave(c) /\ load' = [load EXCEPT ![c] = Free]
        /\ clock' = clock
    BY DEF Land
  <1> HIDE DEF slot
  <1>4. TypeOK' /\ Loads' /\ Slots' /\ Waits' /\ Stales'
    BY <1>1, <1>2, <1>3, EndKeeps
  <1>5. clock < load[c].readAt + TtlMs + LatencyMs - SkewMs
    BY <1>1 DEF Deployed
  <1>6. \A r \in Readers(c) : r.fresh => load[c].readAt >= r.asked - Slack
    <2> SUFFICES ASSUME NEW d \in Callers, caller[d].load = c, caller[d].fresh
                 PROVE  load[c].readAt >= caller[d].asked - Slack
      BY DEF Readers, Waiting
    <2>1. c # None /\ caller[d].asked \in Int /\ Slack \in Int
      BY DEF Deployed, Slack, Inv, TypeOK, Caller
    <2>2. load[c].since >= caller[d].asked - Slack
      BY <2>1 DEF Inv, Waits
    <2> QED
      BY <1>1, <2>1, <2>2
  <1>7. ServedIsLive'
    BY <1>5, <1>6 DEF Land, Serve, ServedIsLive, Slack
  <1> QED
    BY <1>4, <1>7 DEF Inv

LEMMA FailKeeps ==
    ASSUME Deployed, Inv, NEW c \in Callers, Fail(c)
    PROVE  Inv'
  <1> DEFINE key == load[c].key
             held == SlotOf(key)
             slot == [held EXCEPT !.load = None]
  <1>1. load[c].key # None /\ key \in Keys
    BY DEF Fail, Inv, TypeOK, Load
  <1>2. held \in Slot /\ held.expiresAt <= held.readAt + TtlMs + LatencyMs
    BY <1>1 DEF Inv, TypeOK, Slots
  <1>3. /\ slot \in Slot /\ slot.load = None
        /\ slot.expiresAt <= slot.readAt + TtlMs + LatencyMs
    BY <1>2 DEF Slot
  <1>4. /\ Fill(c, slot) /\ Leave(c) /\ load' = [load EXCEPT ![c] = Free]
        /\ clock' = clock
    BY DEF Fail
  <1>5. TypeOK' /\ Loads' /\ Slots' /\ Waits' /\ Stales'
    <2> HIDE DEF slot
    <2> QED
      BY <1>1, <1>3, <1>4, EndKeeps
  <1>6. ServedIsLive'
    <2>1. CASE ServesStale /\ held.expiresAt - clock > 0
      <3>1. clock \in Nat /\ held.expiresAt \in Int /\ held.readAt \in Int
        BY <1>2 DEF Inv, TypeOK, Slot
      <3>2. clock < held.readAt + TtlMs + LatencyMs
        BY <1>2, <2>1, <3>1 DEF Deployed
      <3>3. \A r \in Readers(c) : ~r.fresh
        <4> SUFFICES ASSUME NEW d \in Callers, caller[d].load = c, caller[d].fresh
                     PROVE  FALSE
          BY DEF Readers, Waiting
        <4>1. held.expiresAt = Never
          BY <1>1, <2>1 DEF Inv, Stales, Deployed
        <4> QED
          BY <2>1, <3>1, <4>1, NeverIs
      <3>4. Serve(Readers(c), held.readAt, TRUE)
        BY <2>1 DEF Fail
      <3> QED
        BY <3>1, <3>2, <3>3, <3>4 DEF Serve, ServedIsLive, Deployed
    <2>2. CASE ~(ServesStale /\ held.expiresAt - clock > 0)
      BY <2>2, StillServed DEF Fail, Inv
    <2> QED
      BY <2>1, <2>2
  <1> QED
    BY <1>5, <1>6 DEF Inv

-----------------------------------------------------------------------------

(***************************************************************************)
(* However calls, loads, failures and evictions interleave, what is served *)
(* is within its life, outside the margin before its expiry unless its     *)
(* refresh failed, and was read since a fresh value was asked for, or by   *)
(* the load then in flight.                                                *)
(***************************************************************************)
THEOREM ServesTheLiving ==
    ASSUME Deployed PROVE Spec => []ServedIsLive
  <1>1. Init => Inv
    BY Initially
  <1>2. Inv /\ [Next]_vars => Inv'
    <2> SUFFICES ASSUME Inv, [Next]_vars PROVE Inv'
      OBVIOUS
    <2>1. ASSUME NEW c \in Callers, NEW key \in Keys, Get(c, key) \/ Refresh(c, key)
          PROVE  Inv'
      BY <2>1, GetKeeps, RefreshKeeps
    <2>2. ASSUME NEW c \in Callers, Read(c) \/ Land(c) \/ Fail(c)
          PROVE  Inv'
      BY <2>2, ReadKeeps, LandKeeps, FailKeeps
    <2>3. CASE Tick
      BY <2>3, TickKeeps
    <2>4. CASE UNCHANGED vars
      <3>1. \A k \in Keys : SlotOf(k)' = SlotOf(k)
        BY <2>4 DEF vars, SlotOf
      <3> QED
        BY <2>4, <3>1 DEF vars, Inv, TypeOK, Loads, Slots, Waits, Stales, Slack,
           ServedIsLive
    <2> QED
      BY <2>1, <2>2, <2>3, <2>4 DEF Next
  <1>3. Inv => ServedIsLive
    BY DEF Inv
  <1> QED
    BY <1>1, <1>2, <1>3, PTL DEF Spec
===============================================================================
