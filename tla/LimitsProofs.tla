----------------------------- MODULE LimitsProofs -----------------------------
(***************************************************************************)
(* What the operators of Limits return, for any limiter, entries, budgets  *)
(* and times: the facts the proofs about its users start from.             *)
(***************************************************************************)
EXTENDS Limits, FiniteSets, SequenceTheorems, FiniteSetTheorems,
        WellFoundedInduction, TLAPS

-----------------------------------------------------------------------------
(* The sliding window.                                                     *)

\* a set of naturals has a least element
LEMMA LeastNat ==
    ASSUME NEW T, T \subseteq Nat, T # {}
    PROVE  \E x \in T : \A y \in T : x <= y
  <1> DEFINE R == OpToRel(<, Nat)
  <1>1. IsWellFoundedOn(R, Nat)
    BY NatLessThanWellFounded
  <1>2. R = {ss \in Nat \X Nat : ss[1] < ss[2]}
    BY DEF OpToRel
  <1>3. \A x, y \in Nat : <<x, y>> \in R <=> x < y
    BY <1>2
  <1> HIDE DEF R
  <1>4. PICK x \in T : \A y \in T : ~ (<<y, x>> \in R)
    BY <1>1, WFMin
  <1>5. \A y \in T : x \in Nat /\ y \in Nat /\ ~(y < x)
    BY <1>3, <1>4
  <1> QED
    BY <1>5

\* the aged times lead, and the first that is left is not aged
LEMMA AgedIs ==
    ASSUME NEW times \in Seq(Int), NEW cutoff \in Int
    PROVE  /\ Aged(times, cutoff) \in 0 .. Len(times)
           /\ \A i \in 1 .. Aged(times, cutoff) : times[i] <= cutoff
           /\ Aged(times, cutoff) < Len(times) => times[Aged(times, cutoff) + 1] > cutoff
  <1> DEFINE IsAged(n) == /\ \A i \in 1 .. n : times[i] <= cutoff
                          /\ n < Len(times) => times[n + 1] > cutoff
             young == {i \in 1 .. Len(times) : times[i] > cutoff}
  <1>1. Len(times) \in Nat /\ \A i \in 1 .. Len(times) : times[i] \in Int
    BY LenProperties, ElementOfSeq
  <1>2. \E n \in 0 .. Len(times) : IsAged(n)
    <2>1. CASE young = {}
      <3>1. IsAged(Len(times))
        BY <1>1, <2>1
      <3> QED
        BY <1>1, <3>1
    <2>2. CASE young # {}
      <3>1. young \subseteq Nat
        BY <1>1
      <3>3. PICK x \in young : \A y \in young : x <= y
        BY <3>1, <2>2, LeastNat
      <3>2. x - 1 \in 0 .. Len(times) /\ IsAged(x - 1)
        BY <1>1, <3>3
      <3> QED
        BY <3>2
    <2> QED
      BY <2>1, <2>2
  <1>3. Aged(times, cutoff) = CHOOSE n \in 0 .. Len(times) : IsAged(n)
    BY DEF Aged
  <1> HIDE DEF IsAged
  <1>4. Aged(times, cutoff) \in 0 .. Len(times) /\ IsAged(Aged(times, cutoff))
    BY <1>2, <1>3
  <1> QED
    BY <1>4 DEF IsAged

\* the first n of the times have gone, and what is left begins after the cutoff
Leaves(left, times, cutoff, n) ==
    /\ n \in 0 .. Len(times)
    /\ Len(left) = Len(times) - n
    /\ \A i \in 1 .. Len(left) : left[i] = times[n + i]
    /\ \A i \in 1 .. n : times[i] <= cutoff
    /\ n < Len(times) => times[n + 1] > cutoff

LEMMA PruneIs ==
    ASSUME NEW S, S \subseteq Int, NEW times \in Seq(S),
           NEW now \in Int, NEW windowMs \in Int
    PROVE  /\ Prune(times, now, windowMs) \in Seq(S)
           /\ \E n \in Nat : Leaves(Prune(times, now, windowMs), times, now - windowMs, n)
  <1>1. times \in Seq(Int) /\ Len(times) \in Nat /\ \A i \in 1 .. Len(times) : times[i] \in S
    BY LenProperties, ElementOfSeq, SeqMonotonic
  <1>2. now - windowMs \in Int
    OBVIOUS
  <1>3. PICK n \in 0 .. Len(times) :
          /\ n = Aged(times, now - windowMs)
          /\ \A i \in 1 .. n : times[i] <= now - windowMs
          /\ n < Len(times) => times[n + 1] > now - windowMs
    <2>1. ASSUME NEW cutoff \in Int
          PROVE  \E n \in 0 .. Len(times) :
                   /\ n = Aged(times, cutoff)
                   /\ \A i \in 1 .. n : times[i] <= cutoff
                   /\ n < Len(times) => times[n + 1] > cutoff
      BY <1>1, AgedIs
    <2> QED
      BY <1>2, <2>1
  <1>4. Prune(times, now, windowMs) = SubSeq(times, n + 1, Len(times))
    BY <1>3 DEF Prune
  <1>5. \A i \in (n + 1) .. Len(times) : times[i] \in S
    BY <1>1, <1>3
  <1>6. /\ SubSeq(times, n + 1, Len(times)) \in Seq(S)
        /\ Len(SubSeq(times, n + 1, Len(times)))
             = IF n + 1 <= Len(times) THEN Len(times) - (n + 1) + 1 ELSE 0
        /\ \A i \in 1 .. Len(times) - (n + 1) + 1 :
             SubSeq(times, n + 1, Len(times))[i] = times[(n + 1) + i - 1]
    <2>1. ASSUME NEW m \in 1 .. Len(times) + 1, m = n + 1,
                 \A i \in m .. Len(times) : times[i] \in S
          PROVE  /\ SubSeq(times, m, Len(times)) \in Seq(S)
                 /\ Len(SubSeq(times, m, Len(times)))
                      = IF m <= Len(times) THEN Len(times) - m + 1 ELSE 0
                 /\ \A i \in 1 .. Len(times) - m + 1 :
                      SubSeq(times, m, Len(times))[i] = times[m + i - 1]
      BY <1>1, SubSeqProperties
    <2>2. n + 1 \in 1 .. Len(times) + 1
      BY <1>1, <1>3
    <2> QED
      BY <1>5, <2>1, <2>2
  <1>7. Leaves(Prune(times, now, windowMs), times, now - windowMs, n)
    <2> DEFINE left == Prune(times, now, windowMs)
    <2>1. /\ n \in Nat /\ n <= Len(times) /\ Len(left) = Len(times) - n
          /\ \A i \in 1 .. Len(times) - n : left[i] = times[n + i]
      <3>1. /\ n \in Nat /\ n <= Len(times) /\ Len(left) = Len(times) - n
            /\ \A i \in 1 .. Len(times) - (n + 1) + 1 : left[i] = times[(n + 1) + i - 1]
        <4>1. n + 1 <= Len(times) <=> Len(times) - n > 0
          BY <1>1
        <4>2. \A i \in 1 .. Len(times) - (n + 1) + 1 : left[i] = times[(n + 1) + i - 1]
          BY <1>4, <1>6
        <4>3. Len(left) = Len(times) - n
          <5>1. Len(left) = IF n + 1 <= Len(times) THEN Len(times) - (n + 1) + 1 ELSE 0
            BY <1>4, <1>6
          <5> QED
            BY <1>1, <4>1, <5>1
        <4>4. n \in Nat /\ n <= Len(times)
          BY <1>1
        <4> HIDE DEF left
        <4> QED
          BY <4>2, <4>3, <4>4
      <3>2. ASSUME NEW i \in 1 .. Len(times) - n PROVE left[i] = times[n + i]
        <4>1. i \in 1 .. Len(times) - (n + 1) + 1 /\ (n + 1) + i - 1 = n + i
          BY <1>1
        <4> QED
          BY <3>1, <4>1
      <3> QED
        BY <3>1, <3>2
    <2> HIDE DEF left
    <2>2. Leaves(left, times, now - windowMs, n)
      BY <1>1, <1>3, <2>1 DEF Leaves
    <2> QED
      BY <2>2 DEF left
  <1> QED
    BY <1>4, <1>6, <1>7

\* times that have all to leave after the cutoff stay as they are
LEMMA NothingLeaves ==
    ASSUME NEW S, S \subseteq Int, NEW times \in Seq(S), NEW left \in Seq(S),
           NEW cutoff \in Int, NEW n, Leaves(left, times, cutoff, n),
           Len(times) > 0 => times[1] > cutoff
    PROVE  left = times
  <1>1. /\ Len(times) \in Nat /\ \A i \in 1 .. Len(times) : times[i] \in Int
        /\ Len(left) \in Nat
    BY LenProperties, ElementOfSeq
  <1>2. n = 0
    <2>1. SUFFICES ASSUME n # 0 PROVE FALSE
      OBVIOUS
    <2>2. 1 \in 1 .. n /\ Len(times) > 0 /\ 1 \in 1 .. Len(times)
      BY <1>1, <2>1 DEF Leaves
    <2>3. times[1] <= cutoff /\ times[1] > cutoff /\ times[1] \in Int
      BY <1>1, <2>2 DEF Leaves
    <2> QED
      BY <2>3
  <1>3. Len(left) = Len(times) /\ \A i \in 1 .. Len(left) : left[i] = times[i]
    BY <1>1, <1>2 DEF Leaves
  <1> QED
    BY <1>3, SeqEqual

\* what is left begins after the cutoff
LEMMA LeftIsYoung ==
    ASSUME NEW S, S \subseteq Int, NEW times \in Seq(S), NEW left \in Seq(S),
           NEW cutoff \in Int, NEW n, Leaves(left, times, cutoff, n)
    PROVE  Len(left) > 0 => left[1] > cutoff
  <1>1. Len(times) \in Nat /\ Len(left) \in Nat
    BY LenProperties
  <1>2. Len(left) > 0 => n < Len(times) /\ left[1] = times[n + 1]
    BY <1>1 DEF Leaves
  <1> QED
    BY <1>2 DEF Leaves

\* a bucket that was pruned has nothing more to lose
LEMMA PruneTwice ==
    ASSUME NEW S, S \subseteq Int, NEW times \in Seq(S),
           NEW now \in Int, NEW windowMs \in Int
    PROVE  Prune(Prune(times, now, windowMs), now, windowMs) = Prune(times, now, windowMs)
  <1>1. ASSUME NEW ts \in Seq(S)
        PROVE  /\ Prune(ts, now, windowMs) \in Seq(S)
               /\ \E n \in Nat : Leaves(Prune(ts, now, windowMs), ts, now - windowMs, n)
    BY PruneIs
  <1>2. now - windowMs \in Int
    OBVIOUS
  <1>3. ASSUME NEW once \in Seq(S), once = Prune(times, now, windowMs)
        PROVE  Prune(once, now, windowMs) = once
    <2>1. \E n \in Nat : Leaves(once, times, now - windowMs, n)
      BY <1>1, <1>3
    <2>2. Len(once) > 0 => once[1] > now - windowMs
      BY <1>2, <2>1, LeftIsYoung
    <2>3. /\ Prune(once, now, windowMs) \in Seq(S)
          /\ \E n \in Nat : Leaves(Prune(once, now, windowMs), once, now - windowMs, n)
      BY <1>1
    <2> QED
      BY <1>2, <2>2, <2>3, NothingLeaves
  <1> QED
    BY <1>1, <1>3

LEMMA PruneEmpty ==
    ASSUME NEW now \in Int, NEW windowMs \in Int
    PROVE  Prune(<< >>, now, windowMs) = << >>
  <1>1. ASSUME NEW times \in Seq(Int), Len(times) = 0
        PROVE  Prune(times, now, windowMs) = times
    <2>1. /\ Prune(times, now, windowMs) \in Seq(Int) /\ now - windowMs \in Int
          /\ \E n \in Nat : Leaves(Prune(times, now, windowMs), times, now - windowMs, n)
      BY PruneIs
    <2>2. ~(Len(times) > 0)
      BY <1>1
    <2> QED
      BY <2>1, <2>2, NothingLeaves
  <1> QED
    BY <1>1, EmptySeq

-----------------------------------------------------------------------------
(* The limiter.                                                            *)

IsLimiter(l, S) ==
    /\ l \in [perKey : {l.perKey}, globalHits : Seq(S), lastSweepAt : Int]
    /\ l.perKey \in [DOMAIN l.perKey -> Seq(S)]

LEMMA TimesAre ==
    ASSUME NEW S, NEW l, IsLimiter(l, S), NEW key
    PROVE  TimesOf(l, key) \in Seq(S)
  BY EmptySeq DEF IsLimiter, TimesOf

\* a limiter begins empty
LEMMA NewIs ==
    ASSUME NEW S, NEW windowMs \in Int
    PROVE  /\ IsLimiter(NewLimiter(windowMs), S)
           /\ NewLimiter(windowMs).globalHits = << >> /\ NewLimiter(windowMs).perKey = << >>
  <1>1. << >> \in Seq(S) /\ << >> \in [{} -> Seq(S)]
    BY EmptySeq
  <1> QED
    BY <1>1 DEF NewLimiter, IsLimiter

\* a sweep prunes every bucket, and drops the empty ones
IsSwept(w, l, now, windowMs, S) ==
    /\ IsLimiter(w, S) /\ w.globalHits = l.globalHits /\ w.lastSweepAt = now
    /\ DOMAIN w.perKey \subseteq DOMAIN l.perKey
    /\ \A key \in DOMAIN w.perKey : w.perKey[key] # << >>
    /\ \A key : TimesOf(w, key) = Prune(TimesOf(l, key), now, windowMs)

LEMMA SweepIs ==
    ASSUME NEW S, S \subseteq Int, NEW l, IsLimiter(l, S),
           NEW now \in Int, NEW windowMs \in Int
    PROVE  IsSwept(Sweep(l, now, windowMs), l, now, windowMs, S)
  <1> SUFFICES ASSUME NEW w, w = Sweep(l, now, windowMs)
               PROVE  IsSwept(w, l, now, windowMs, S)
    OBVIOUS
  <1> DEFINE kept == {k \in DOMAIN l.perKey : Prune(l.perKey[k], now, windowMs) # << >>}
             buckets == [k \in kept |-> Prune(l.perKey[k], now, windowMs)]
  <1>1. w = [l EXCEPT !.perKey = buckets, !.lastSweepAt = now]
    BY DEF Sweep
  <1>2. buckets \in [kept -> Seq(S)]
    <2>1. \A k \in DOMAIN l.perKey : Prune(l.perKey[k], now, windowMs) \in Seq(S)
      BY PruneIs DEF IsLimiter
    <2> QED
      BY <2>1
  <1>3. /\ DOMAIN buckets = kept
        /\ \A k \in kept : buckets[k] = Prune(l.perKey[k], now, windowMs)
    OBVIOUS
  <1> HIDE DEF buckets
  <1>4. /\ w.perKey = buckets /\ w.lastSweepAt = now /\ w.globalHits = l.globalHits
        /\ w \in [perKey : {w.perKey}, globalHits : Seq(S), lastSweepAt : Int]
    BY <1>1 DEF IsLimiter
  <1>5. ASSUME NEW key PROVE TimesOf(w, key) = Prune(TimesOf(l, key), now, windowMs)
    <2>1. CASE key \notin DOMAIN l.perKey
      BY <1>3, <1>4, <2>1, PruneEmpty DEF TimesOf
    <2>2. CASE key \in DOMAIN l.perKey
      BY <1>3, <1>4, <2>2 DEF TimesOf
    <2> QED
      BY <2>1, <2>2
  <1> QED
    BY <1>2, <1>3, <1>4, <1>5 DEF IsLimiter, IsSwept

\* what a call with these entries makes of the times of a key
Charged(l, r, now, windowMs, key) ==
    LET old == TimesOf(l, key)
        new == TimesOf(r.limiter, key)
        left == Prune(old, now, windowMs)
    IN  \/ new = old
        \/ new = left
        \/ /\ r.allowed /\ new = Append(left, now)
           /\ key \in r.looked

\* what a call answers, and what it leaves of the limiter
IsAnswer(r, l, entries, now, windowMs, S) ==
    /\ IsLimiter(r.limiter, S) /\ r.limiter.globalHits = l.globalHits
    /\ r.allowed \in BOOLEAN
    /\ \A key : Charged(l, r, now, windowMs, key)
    /\ r.allowed =>
         \A i \in DOMAIN entries : entries[i].max > 0 =>
           /\ Len(Prune(TimesOf(l, entries[i].key), now, windowMs)) < entries[i].max
           /\ TimesOf(r.limiter, entries[i].key)
                = Append(Prune(TimesOf(l, entries[i].key), now, windowMs), now)
    /\ ~r.allowed =>
         \E i \in DOMAIN entries :
           /\ entries[i].max > 0
           /\ Len(Prune(TimesOf(l, entries[i].key), now, windowMs)) >= entries[i].max
    /\ r.looked \subseteq DOMAIN r.limiter.perKey
    /\ r.looked \subseteq {entries[i].key : i \in DOMAIN entries}
    /\ DOMAIN r.limiter.perKey \subseteq DOMAIN l.perKey \cup r.looked
    /\ \/ r.limiter = l
       \/ /\ r.limiter.lastSweepAt = l.lastSweepAt
          /\ l.lastSweepAt > now - windowMs
       \/ /\ r.limiter.lastSweepAt = now
          /\ \A key \in DOMAIN r.limiter.perKey \ r.looked :
               /\ r.limiter.perKey[key] # << >>
               /\ r.limiter.perKey[key] = Prune(TimesOf(l, key), now, windowMs)

LEMMA AllowKeysIs ==
    ASSUME NEW S, S \subseteq Int, NEW l, IsLimiter(l, S),
           NEW now \in S, NEW windowMs \in Nat \ {0},
           NEW entries, \A i \in DOMAIN entries : entries[i].max \in Int
    PROVE  IsAnswer(AllowKeys(l, entries, now, windowMs), l, entries, now, windowMs, S)
  <1> SUFFICES ASSUME NEW r, r = AllowKeys(l, entries, now, windowMs)
               PROVE  IsAnswer(r, l, entries, now, windowMs, S)
    OBVIOUS
  <1> DEFINE capped == {i \in DOMAIN entries : entries[i].max > 0}
             swept == IF now - l.lastSweepAt >= windowMs THEN Sweep(l, now, windowMs) ELSE l
             times(key) == Prune(TimesOf(swept, key), now, windowMs)
             full == {i \in capped : Len(times(entries[i].key)) >= entries[i].max}
             reached == {entries[i].key : i \in {i \in capped : \A j \in full : i <= j}}
             after(key) == IF full = {} THEN Append(times(key), now) ELSE times(key)
             buckets == [k \in reached \cup DOMAIN swept.perKey |->
                           IF k \in reached THEN after(k) ELSE swept.perKey[k]]
  <1>1. CASE capped = {}
    <2>1. r = [allowed |-> TRUE, looked |-> {}, limiter |-> l]
      BY <1>1 DEF AllowKeys
    <2>2. r.allowed = TRUE /\ r.looked = {} /\ r.limiter = l
      BY <2>1
    <2>3. ~ \E i \in DOMAIN entries : entries[i].max > 0
      BY <1>1
    <2> QED
      BY <2>2, <2>3 DEF Charged, IsLimiter, IsAnswer
  <1>2. CASE capped # {}
    <2>1. r = [allowed |-> full = {}, looked |-> reached,
               limiter |-> [swept EXCEPT !.perKey = buckets]]
      BY <1>2 DEF AllowKeys
    <2>2. now \in Int /\ windowMs \in Int /\ l.lastSweepAt \in Int
      BY DEF IsLimiter
    <2>3. /\ IsLimiter(swept, S) /\ swept.globalHits = l.globalHits
          /\ DOMAIN swept.perKey \subseteq DOMAIN l.perKey
          /\ \A key : TimesOf(swept, key) \in {TimesOf(l, key), Prune(TimesOf(l, key), now, windowMs)}
          /\ \/ swept.lastSweepAt = l.lastSweepAt /\ l.lastSweepAt > now - windowMs
             \/ /\ swept.lastSweepAt = now
                /\ \A key \in DOMAIN swept.perKey :
                     /\ swept.perKey[key] # << >>
                     /\ swept.perKey[key] = Prune(TimesOf(l, key), now, windowMs)
      <3>1. CASE now - l.lastSweepAt >= windowMs
        <4>1. swept = Sweep(l, now, windowMs)
          BY <3>1
        <4> HIDE DEF swept
        <4>2. /\ IsLimiter(swept, S) /\ swept.globalHits = l.globalHits /\ swept.lastSweepAt = now
              /\ DOMAIN swept.perKey \subseteq DOMAIN l.perKey
              /\ \A key \in DOMAIN swept.perKey : swept.perKey[key] # << >>
              /\ \A key : TimesOf(swept, key) = Prune(TimesOf(l, key), now, windowMs)
          <5>1. IsSwept(Sweep(l, now, windowMs), l, now, windowMs, S)
            BY <2>2, SweepIs
          <5> QED
            BY <4>1, <5>1 DEF IsSwept
        <4>3. \A key \in DOMAIN swept.perKey :
                swept.perKey[key] = Prune(TimesOf(l, key), now, windowMs)
          BY <4>2 DEF TimesOf
        <4> QED
          BY <4>2, <4>3
      <3>2. CASE ~(now - l.lastSweepAt >= windowMs)
        <4>1. swept = l /\ l.lastSweepAt > now - windowMs
          BY <2>2, <3>2
        <4> QED
          BY <4>1
      <3> QED
        BY <3>1, <3>2
    <2>4. ASSUME NEW key
          PROVE  times(key) = Prune(TimesOf(l, key), now, windowMs) /\ times(key) \in Seq(S)
      <3>1. TimesOf(l, key) \in Seq(S)
        BY TimesAre
      <3>2. /\ Prune(TimesOf(l, key), now, windowMs) \in Seq(S)
            /\ Prune(Prune(TimesOf(l, key), now, windowMs), now, windowMs)
                 = Prune(TimesOf(l, key), now, windowMs)
        <4>1. ASSUME NEW ts \in Seq(S)
              PROVE  /\ Prune(ts, now, windowMs) \in Seq(S)
                     /\ Prune(Prune(ts, now, windowMs), now, windowMs) = Prune(ts, now, windowMs)
          <5>1. Prune(ts, now, windowMs) \in Seq(S)
            BY <2>2, PruneIs
          <5>2. Prune(Prune(ts, now, windowMs), now, windowMs) = Prune(ts, now, windowMs)
            BY <2>2, PruneTwice
          <5> QED
            BY <5>1, <5>2
        <4> QED
          BY <3>1, <4>1
      <3> QED
        BY <2>3, <3>2
    <2> HIDE DEF swept, times
    <2>5. \A key : after(key) \in Seq(S)
      BY <2>4, AppendProperties
    <2>6. /\ DOMAIN buckets = reached \cup DOMAIN swept.perKey
          /\ \A key \in reached : buckets[key] = after(key)
          /\ \A key \in DOMAIN swept.perKey \ reached : buckets[key] = swept.perKey[key]
      OBVIOUS
    <2>7. buckets \in [reached \cup DOMAIN swept.perKey -> Seq(S)]
      BY <2>3, <2>5 DEF IsLimiter
    <2>8. /\ \A key \in reached : \E i \in capped : key = entries[i].key
          /\ full = {} => \A i \in capped : entries[i].key \in reached
          /\ full = {} => \A i \in capped : ~(Len(times(entries[i].key)) >= entries[i].max)
      OBVIOUS
    <2> HIDE DEF buckets, reached, full
    <2>9. /\ r.allowed = (full = {}) /\ r.looked = reached
          /\ r.limiter = [swept EXCEPT !.perKey = buckets]
      BY <2>1
    <2>10. /\ r.limiter.perKey = buckets /\ r.limiter.globalHits = swept.globalHits
           /\ r.limiter.lastSweepAt = swept.lastSweepAt
           /\ r.limiter \in [perKey : {r.limiter.perKey}, globalHits : Seq(S), lastSweepAt : Int]
      BY <2>3, <2>9 DEF IsLimiter
    <2>11. IsLimiter(r.limiter, S)
      BY <2>6, <2>7, <2>10 DEF IsLimiter
    <2>12. ASSUME NEW key PROVE Charged(l, r, now, windowMs, key)
      <3>1. CASE key \in reached
        <4>1. TimesOf(r.limiter, key) = after(key)
          BY <2>6, <2>10, <3>1 DEF TimesOf
        <4> QED
          BY <2>4, <2>9, <3>1, <4>1 DEF Charged
      <3>2. CASE key \notin reached
        <4>1. TimesOf(r.limiter, key) = TimesOf(swept, key)
          BY <2>6, <2>10, <3>2 DEF TimesOf
        <4> QED
          BY <2>3, <4>1 DEF Charged
      <3> QED
        BY <3>1, <3>2
    <2>13. ASSUME r.allowed, NEW i \in DOMAIN entries, entries[i].max > 0
           PROVE  /\ Len(Prune(TimesOf(l, entries[i].key), now, windowMs)) < entries[i].max
                  /\ TimesOf(r.limiter, entries[i].key)
                       = Append(Prune(TimesOf(l, entries[i].key), now, windowMs), now)
      <3>1. full = {} /\ i \in capped
        BY <2>9, <2>13
      <3>2. entries[i].key \in reached /\ ~(Len(times(entries[i].key)) >= entries[i].max)
        BY <2>8, <3>1
      <3>3. entries[i].max \in Int
        BY <2>13
      <3>4. Len(times(entries[i].key)) \in Nat
        BY <2>4, LenProperties
      <3>5. TimesOf(r.limiter, entries[i].key) = Append(times(entries[i].key), now)
        BY <2>6, <2>10, <3>1, <3>2 DEF TimesOf
      <3> QED
        BY <2>4, <3>2, <3>3, <3>4, <3>5
    <2>14. /\ r.looked \subseteq DOMAIN r.limiter.perKey
           /\ r.looked \subseteq {entries[i].key : i \in DOMAIN entries}
           /\ DOMAIN r.limiter.perKey \subseteq DOMAIN l.perKey \cup r.looked
      BY <2>3, <2>6, <2>8, <2>9, <2>10
    <2>15. \A key \in DOMAIN r.limiter.perKey \ r.looked :
             key \in DOMAIN swept.perKey /\ r.limiter.perKey[key] = swept.perKey[key]
      BY <2>6, <2>9, <2>10
    <2>16. ASSUME ~r.allowed
           PROVE  \E i \in DOMAIN entries :
                    /\ entries[i].max > 0
                    /\ Len(Prune(TimesOf(l, entries[i].key), now, windowMs)) >= entries[i].max
      <3>1. PICK i \in full : TRUE
        BY <2>9, <2>16
      <3>2. /\ i \in DOMAIN entries /\ entries[i].max > 0
            /\ Len(times(entries[i].key)) >= entries[i].max
        BY <3>1 DEF full
      <3> QED
        BY <2>4, <3>2
    <2> QED
      BY <2>3, <2>9, <2>10, <2>11, <2>12, <2>13, <2>14, <2>15, <2>16 DEF IsAnswer
  <1> QED
    BY <1>1, <1>2

\* one bucket at most is looked at
LEMMA LookedAt ==
    ASSUME NEW l, NEW key, NEW max, NEW now, NEW windowMs
    PROVE  AllowKeys(l, << [key |-> key, max |-> max] >>, now, windowMs).looked \subseteq {key}
  <1> DEFINE entries == << [key |-> key, max |-> max] >>
  <1>1. \A i \in DOMAIN entries : entries[i].key = key
    OBVIOUS
  <1> HIDE DEF entries
  <1>2. AllowKeys(l, entries, now, windowMs).looked
          \subseteq {entries[i].key : i \in DOMAIN entries}
    BY DEF AllowKeys
  <1>3. AllowKeys(l, entries, now, windowMs).looked \subseteq {key}
    BY <1>1, <1>2
  <1> QED
    BY <1>3 DEF entries

\* the global budget, which takes nothing from the buckets
IsGlobalAnswer(r, l, now, maxGlobal, windowMs, S) ==
    /\ IsLimiter(r.limiter, S) /\ r.limiter.perKey = l.perKey
    /\ r.limiter.lastSweepAt = l.lastSweepAt /\ r.allowed \in BOOLEAN
    /\ maxGlobal <= 0 => r.limiter = l
    /\ maxGlobal > 0 =>
         IF r.allowed
         THEN /\ Len(Prune(l.globalHits, now, windowMs)) < maxGlobal
              /\ r.limiter.globalHits = Append(Prune(l.globalHits, now, windowMs), now)
         ELSE r.limiter.globalHits = Prune(l.globalHits, now, windowMs)

LEMMA AllowGlobalIs ==
    ASSUME NEW S, S \subseteq Int, NEW l, IsLimiter(l, S),
           NEW now \in S, NEW windowMs \in Nat \ {0}, NEW maxGlobal \in Int
    PROVE  IsGlobalAnswer(AllowGlobal(l, now, maxGlobal, windowMs), l, now, maxGlobal, windowMs, S)
  <1> SUFFICES ASSUME NEW r, r = AllowGlobal(l, now, maxGlobal, windowMs)
               PROVE  IsGlobalAnswer(r, l, now, maxGlobal, windowMs, S)
    OBVIOUS
  <1> DEFINE times == Prune(l.globalHits, now, windowMs)
             room == Len(times) < maxGlobal
             hits == IF room THEN Append(times, now) ELSE times
  <1>1. now \in Int /\ windowMs \in Int /\ l.globalHits \in Seq(S)
    BY DEF IsLimiter
  <1>2. times \in Seq(S)
    BY <1>1, PruneIs
  <1>3. CASE maxGlobal <= 0
    <2>1. r = [allowed |-> TRUE, limiter |-> l]
      BY <1>3 DEF AllowGlobal
    <2>2. ~(maxGlobal > 0) /\ r.limiter = l /\ r.allowed = TRUE
      BY <1>3, <2>1
    <2> QED
      BY <2>2 DEF IsGlobalAnswer
  <1>4. CASE maxGlobal > 0
    <2>1. r = [allowed |-> room, limiter |-> [l EXCEPT !.globalHits = hits]]
      BY <1>4 DEF AllowGlobal
    <2>2. room \in BOOLEAN /\ hits \in Seq(S)
      BY <1>2, AppendProperties
    <2>3. (room => hits = Append(times, now)) /\ (~room => hits = times)
      OBVIOUS
    <2> HIDE DEF hits
    <2>4. /\ r.allowed = room
          /\ r.limiter.perKey = l.perKey /\ r.limiter.lastSweepAt = l.lastSweepAt
          /\ r.limiter.globalHits = hits
          /\ r.limiter \in [perKey : {r.limiter.perKey}, globalHits : Seq(S), lastSweepAt : Int]
      <3>1. l \in [perKey : {l.perKey}, globalHits : Seq(S), lastSweepAt : Int]
        BY DEF IsLimiter
      <3>2. r.allowed = room /\ r.limiter = [l EXCEPT !.globalHits = hits]
        BY <2>1
      <3>3. ASSUME NEW m, m = [l EXCEPT !.globalHits = hits]
            PROVE  /\ m.perKey = l.perKey /\ m.lastSweepAt = l.lastSweepAt /\ m.globalHits = hits
                   /\ m \in [perKey : {m.perKey}, globalHits : Seq(S), lastSweepAt : Int]
        BY <2>2, <3>1, <3>3
      <3> QED
        BY <3>2, <3>3
    <2>5. IsLimiter(r.limiter, S)
      BY <2>4 DEF IsLimiter
    <2>6. ~(maxGlobal <= 0)
      BY <1>4
    <2>7. IF r.allowed THEN Len(times) < maxGlobal /\ r.limiter.globalHits = Append(times, now)
          ELSE r.limiter.globalHits = times
      BY <2>2, <2>3, <2>4
    <2> QED
      BY <2>2, <2>4, <2>5, <2>6, <2>7 DEF IsGlobalAnswer
  <1> QED
    BY <1>3, <1>4

-----------------------------------------------------------------------------
(* What a budget has on record of the events it allowed: each has a time   *)
(* of its own in the bucket.                                               *)

Covered(I, events, times) ==
    \E f \in [I -> DOMAIN times] :
      /\ \A i, j \in I : f[i] = f[j] => i = j
      /\ \A i \in I : times[f[i]] = events[i].at

\* no more events than times
LEMMA CoveredCount ==
    ASSUME NEW S, NEW times \in Seq(S), NEW events, NEW I, Covered(I, events, times)
    PROVE  IsFiniteSet(I) /\ Cardinality(I) <= Len(times)
  <1>1. /\ Len(times) \in Nat /\ DOMAIN times = 1 .. Len(times)
    BY LenProperties
  <1>2. PICK f \in [I -> DOMAIN times] : \A i, j \in I : f[i] = f[j] => i = j
    BY DEF Covered
  <1>3. f \in Injection(I, 1 .. Len(times))
    BY <1>1, <1>2 DEF Injection, IsInjective
  <1>5. IsFiniteSet(1 .. Len(times)) /\ Cardinality(1 .. Len(times)) = Len(times)
    <2>1. ASSUME NEW n \in Int
          PROVE  /\ IsFiniteSet(1 .. n)
                 /\ Cardinality(1 .. n) = IF 1 > n THEN 0 ELSE n - 1 + 1
      BY FS_Interval, 1 \in Int, Zenon
    <2>2. ASSUME NEW n \in Nat PROVE IsFiniteSet(1 .. n) /\ Cardinality(1 .. n) = n
      BY <2>1
    <2> QED
      BY <1>1, <2>2, Zenon
  <1> QED
    BY <1>3, <1>5, FS_Injection

\* the times that leave were not of these events
LEMMA CoveredLeft ==
    ASSUME NEW S, S \subseteq Int, NEW times \in Seq(S), NEW left \in Seq(S),
           NEW cutoff \in Int, NEW n, Leaves(left, times, cutoff, n),
           NEW events, NEW I, Covered(I, events, times),
           \A i \in I : events[i].at > cutoff
    PROVE  Covered(I, events, left)
  <1>1. /\ Len(times) \in Nat /\ DOMAIN times = 1 .. Len(times)
        /\ Len(left) \in Nat /\ DOMAIN left = 1 .. Len(left)
        /\ \A i \in 1 .. Len(times) : times[i] \in Int
    BY LenProperties, ElementOfSeq
  <1>2. PICK f \in [I -> DOMAIN times] :
          /\ \A i, j \in I : f[i] = f[j] => i = j
          /\ \A i \in I : times[f[i]] = events[i].at
    BY DEF Covered
  <1>3. /\ n \in 0 .. Len(times) /\ Len(left) = Len(times) - n
        /\ \A i \in 1 .. Len(left) : left[i] = times[n + i]
        /\ \A i \in 1 .. n : times[i] <= cutoff
    BY DEF Leaves
  <1>4. ASSUME NEW i \in I
        PROVE  f[i] \in 1 .. Len(times) /\ f[i] > n /\ f[i] - n \in 1 .. Len(left)
    <2>1. f[i] \in 1 .. Len(times)
      BY <1>1, <1>2
    <2>2. times[f[i]] > cutoff /\ times[f[i]] \in Int
      BY <1>1, <1>2, <2>1
    <2>3. ~(f[i] \in 1 .. n)
      BY <1>3, <2>2
    <2> QED
      BY <1>1, <1>3, <2>1, <2>3
  <1> DEFINE g == [i \in I |-> f[i] - n]
  <1>5. g \in [I -> DOMAIN left]
    BY <1>1, <1>4
  <1>6. \A i, j \in I : g[i] = g[j] => i = j
    BY <1>1, <1>2, <1>3, <1>4
  <1>7. ASSUME NEW i \in I PROVE left[g[i]] = events[i].at
    <2>1. g[i] = f[i] - n /\ g[i] \in 1 .. Len(left) /\ n + g[i] = f[i]
      BY <1>1, <1>3, <1>4
    <2> QED
      BY <1>2, <1>3, <2>1
  <1> QED
    BY <1>5, <1>6, <1>7 DEF Covered

LEMMA CoveredMore ==
    ASSUME NEW S, NEW times \in Seq(S), NEW x \in S,
           NEW events, NEW I, Covered(I, events, times)
    PROVE  Covered(I, events, Append(times, x))
  <1>1. /\ Len(times) \in Nat /\ DOMAIN times = 1 .. Len(times)
        /\ DOMAIN Append(times, x) = 1 .. (Len(times) + 1)
        /\ \A i \in 1 .. Len(times) : Append(times, x)[i] = times[i]
    BY LenProperties, AppendProperties
  <1>2. PICK f \in [I -> DOMAIN times] :
          /\ \A i, j \in I : f[i] = f[j] => i = j
          /\ \A i \in I : times[f[i]] = events[i].at
    BY DEF Covered
  <1>3. f \in [I -> DOMAIN Append(times, x)]
    BY <1>1, <1>2
  <1>4. \A i \in I : Append(times, x)[f[i]] = events[i].at
    BY <1>1, <1>2
  <1> QED
    BY <1>2, <1>3, <1>4 DEF Covered

\* an event more, and its time
LEMMA CoveredNew ==
    ASSUME NEW S, NEW times, NEW x, NEW events, NEW I, NEW more, NEW k,
           times \in Seq(S), x \in S, Covered(I, events, times),
           \A i \in I : more[i].at = events[i].at, k \notin I, more[k].at = x
    PROVE  Covered(I \cup {k}, more, Append(times, x))
  <1>1. /\ Len(times) \in Nat /\ DOMAIN times = 1 .. Len(times)
        /\ DOMAIN Append(times, x) = 1 .. (Len(times) + 1)
        /\ \A i \in 1 .. Len(times) : Append(times, x)[i] = times[i]
        /\ Append(times, x)[Len(times) + 1] = x
    BY LenProperties, AppendProperties
  <1>2. PICK f \in [I -> DOMAIN times] :
          /\ \A i, j \in I : f[i] = f[j] => i = j
          /\ \A i \in I : times[f[i]] = events[i].at
    BY DEF Covered
  <1> DEFINE g == [i \in I \cup {k} |-> IF i = k THEN Len(times) + 1 ELSE f[i]]
  <1>3. /\ g[k] = Len(times) + 1
        /\ \A i \in I : g[i] = f[i] /\ f[i] \in 1 .. Len(times)
        /\ g \in [I \cup {k} -> DOMAIN Append(times, x)]
    BY <1>1, <1>2
  <1> HIDE DEF g
  <1>4. ASSUME NEW i \in I \cup {k}, NEW j \in I \cup {k}, g[i] = g[j] PROVE i = j
    <2>1. \A y \in 1 .. Len(times) : y # Len(times) + 1
      BY <1>1
    <2> QED
      BY <1>2, <1>3, <1>4, <2>1
  <1>5. \A i \in I \cup {k} : Append(times, x)[g[i]] = more[i].at
    BY <1>1, <1>2, <1>3
  <1> QED
    BY <1>3, <1>4, <1>5 DEF Covered

\* the events but the first m
LEMMA CoveredFewer ==
    ASSUME NEW events, NEW I, NEW times, Covered(I, events, times), I \subseteq Int,
           NEW m \in Int, NEW J, J \subseteq Int,
           NEW rest, \A j \in J : j + m \in I /\ rest[j] = events[j + m]
    PROVE  Covered(J, rest, times)
  <1>1. PICK f \in [I -> DOMAIN times] :
          /\ \A i, j \in I : f[i] = f[j] => i = j
          /\ \A i \in I : times[f[i]] = events[i].at
    BY DEF Covered
  <1> DEFINE g == [j \in J |-> f[j + m]]
  <1>2. g \in [J -> DOMAIN times] /\ \A j \in J : g[j] = f[j + m]
    BY <1>1
  <1> HIDE DEF g
  <1>3. ASSUME NEW i \in J, NEW j \in J, g[i] = g[j] PROVE i = j
    <2>1. i + m \in I /\ j + m \in I /\ f[i + m] = f[j + m]
      BY <1>2, <1>3
    <2>2. i + m = j + m
      BY <1>1, <2>1, Zenon
    <2> QED
      BY <2>2
  <1>4. ASSUME NEW j \in J PROVE times[g[j]] = rest[j].at
    <2>1. j + m \in I /\ rest[j] = events[j + m] /\ g[j] = f[j + m]
      BY <1>2
    <2>2. times[f[j + m]] = events[j + m].at
      BY <1>1, <2>1, Zenon
    <2> QED
      BY <2>1, <2>2
  <1> QED
    BY <1>2, <1>3, <1>4 DEF Covered

\* other events, each in place of one of its own
LEMMA CoveredMapped ==
    ASSUME NEW events, NEW I, NEW times, Covered(I, events, times),
           NEW J, NEW g \in [J -> I], \A i, j \in J : g[i] = g[j] => i = j,
           NEW rest, \A j \in J : rest[j].at = events[g[j]].at
    PROVE  Covered(J, rest, times)
  <1>1. PICK f \in [I -> DOMAIN times] :
          /\ \A i, j \in I : f[i] = f[j] => i = j
          /\ \A i \in I : times[f[i]] = events[i].at
    BY DEF Covered
  <1> DEFINE k == [j \in J |-> f[g[j]]]
  <1>2. k \in [J -> DOMAIN times] /\ \A j \in J : k[j] = f[g[j]] /\ g[j] \in I
    BY <1>1
  <1> HIDE DEF k
  <1>3. \A i, j \in J : k[i] = k[j] => i = j
    BY <1>1, <1>2
  <1>4. \A j \in J : times[k[j]] = rest[j].at
    BY <1>1, <1>2
  <1> QED
    BY <1>2, <1>3, <1>4 DEF Covered

\* an event of the window keeps its time when the bucket is pruned
LEMMA CoveredPruned ==
    ASSUME NEW S, S \subseteq Int, NEW times \in Seq(S), NEW now \in Int, NEW windowMs \in Int,
           NEW events, NEW I, Covered(I, events, times),
           \A i \in I : events[i].at > now - windowMs
    PROVE  /\ Covered(I, events, Prune(times, now, windowMs))
           /\ IsFiniteSet(I) /\ Cardinality(I) <= Len(Prune(times, now, windowMs))
  <1>1. /\ Prune(times, now, windowMs) \in Seq(S) /\ now - windowMs \in Int
        /\ \E n \in Nat : Leaves(Prune(times, now, windowMs), times, now - windowMs, n)
    <2>1. Prune(times, now, windowMs) \in Seq(S)
      BY PruneIs
    <2>2. \E n \in Nat : Leaves(Prune(times, now, windowMs), times, now - windowMs, n)
      BY PruneIs
    <2> QED
      BY <2>1, <2>2
  <1>2. ASSUME NEW left \in Seq(S), NEW n \in Nat, Leaves(left, times, now - windowMs, n)
        PROVE  /\ Covered(I, events, left)
               /\ IsFiniteSet(I) /\ Cardinality(I) <= Len(left)
    <2>1. Covered(I, events, left)
      BY <1>1, <1>2, CoveredLeft
    <2> QED
      BY <2>1, CoveredCount
  <1> QED
    BY <1>1, <1>2

\* only the times of the events matter
LEMMA CoveredSame ==
    ASSUME NEW events, NEW I, NEW times, Covered(I, events, times),
           NEW more, \A i \in I : more[i].at = events[i].at
    PROVE  Covered(I, more, times)
  BY DEF Covered

-----------------------------------------------------------------------------
(* How many times of a bucket are later than a time: what pruning keeps    *)
(* and a charge adds to.                                                   *)

Later(times, k) == {i \in DOMAIN times : times[i] > k}
Count(times, k) == Cardinality(Later(times, k))

\* times that were recorded as they came
InOrder(times, now) ==
    /\ \A i \in DOMAIN times : times[i] <= now
    /\ \A i, j \in DOMAIN times : i <= j => times[i] <= times[j]

\* so many, at most all of them
LEMMA CountIs ==
    ASSUME NEW times \in Seq(Int), NEW k \in Int
    PROVE  /\ IsFiniteSet(Later(times, k)) /\ Count(times, k) \in Nat
           /\ Count(times, k) <= Len(times)
           /\ (\A i \in DOMAIN times : times[i] > k) => Count(times, k) = Len(times)
  <1>1. Len(times) \in Nat /\ DOMAIN times = 1 .. Len(times)
    BY LenProperties
  <1>2. IsFiniteSet(1 .. Len(times)) /\ Cardinality(1 .. Len(times)) = Len(times)
    <2>1. /\ IsFiniteSet(1 .. Len(times))
          /\ Cardinality(1 .. Len(times)) = IF 1 > Len(times) THEN 0 ELSE Len(times) - 1 + 1
      BY <1>1, FS_Interval
    <2> QED
      BY <1>1, <2>1
  <1>3. Later(times, k) \subseteq 1 .. Len(times)
    BY <1>1 DEF Later
  <1>4. IsFiniteSet(Later(times, k)) /\ Cardinality(Later(times, k)) <= Len(times)
    BY <1>2, <1>3, FS_Subset
  <1>5. (\A i \in DOMAIN times : times[i] > k) => Later(times, k) = 1 .. Len(times)
    BY <1>1 DEF Later
  <1> QED
    BY <1>2, <1>4, <1>5, FS_CardinalityType DEF Count

\* a charge adds one, to what is before it
LEMMA CountAppended ==
    ASSUME NEW times \in Seq(Int), NEW k \in Int, NEW x \in Int
    PROVE  Count(Append(times, x), k) = Count(times, k) + IF x > k THEN 1 ELSE 0
  <1>1. /\ Len(times) \in Nat /\ DOMAIN times = 1 .. Len(times)
        /\ DOMAIN Append(times, x) = 1 .. (Len(times) + 1)
        /\ \A i \in 1 .. Len(times) : Append(times, x)[i] = times[i]
        /\ Append(times, x)[Len(times) + 1] = x
    BY LenProperties, AppendProperties
  <1>2. IsFiniteSet(Later(times, k)) /\ Count(times, k) \in Nat
    BY CountIs
  <1>5. Len(times) + 1 \notin Later(times, k)
    BY <1>1 DEF Later
  <1>3. CASE x > k
    <2>1. Later(Append(times, x), k) = Later(times, k) \cup {Len(times) + 1}
      BY <1>1, <1>3 DEF Later
    <2>2. Cardinality(Later(times, k) \cup {Len(times) + 1}) = Cardinality(Later(times, k)) + 1
      BY <1>2, <1>5, FS_AddElement
    <2> QED
      BY <1>3, <2>1, <2>2 DEF Count
  <1>4. CASE ~(x > k)
    <2>1. Later(Append(times, x), k) = Later(times, k)
      BY <1>1, <1>4 DEF Later
    <2> QED
      BY <1>2, <1>4, <2>1 DEF Count
  <1> QED
    BY <1>3, <1>4

\* pruning takes none of those within the window
LEMMA CountPruned ==
    ASSUME NEW times \in Seq(Int), NEW now \in Int, NEW windowMs \in Int,
           NEW k \in Int, k >= now - windowMs
    PROVE  Count(Prune(times, now, windowMs), k) = Count(times, k)
  <1>1. PICK n \in Nat : Leaves(Prune(times, now, windowMs), times, now - windowMs, n)
    BY PruneIs
  <1>2. Prune(times, now, windowMs) \in Seq(Int)
    BY PruneIs
  <1> DEFINE left == Prune(times, now, windowMs)
             I == Later(times, k)
             J == Later(left, k)
             f == [j \in J |-> n + j]
  <1> HIDE DEF left
  <1>3. /\ Len(times) \in Nat /\ DOMAIN times = 1 .. Len(times)
        /\ Len(left) \in Nat /\ DOMAIN left = 1 .. Len(left)
        /\ n \in 0 .. Len(times) /\ Len(left) = Len(times) - n
        /\ \A i \in 1 .. Len(left) : left[i] = times[n + i]
        /\ \A i \in 1 .. n : times[i] <= now - windowMs
        /\ \A i \in 1 .. Len(times) : times[i] \in Int
    BY <1>1, <1>2, LenProperties, ElementOfSeq DEF Leaves, left
  <1>4. \A j \in J : j \in Int /\ n + j \in I
    <2> TAKE j \in J
    <2>1. j \in 1 .. Len(left) /\ left[j] > k
      BY <1>3 DEF Later
    <2>2. n + j \in 1 .. Len(times) /\ times[n + j] = left[j]
      BY <1>3, <2>1
    <2> QED
      BY <1>3, <2>1, <2>2 DEF Later
  <1>5. \A i \in I : i - n \in J /\ n + (i - n) = i
    <2> TAKE i \in I
    <2>1. i \in 1 .. Len(times) /\ times[i] > k /\ times[i] \in Int
      BY <1>3 DEF Later
    <2>2. ~(i \in 1 .. n)
      BY <1>3, <2>1
    <2>3. i - n \in 1 .. Len(left) /\ n + (i - n) = i
      BY <1>3, <2>1, <2>2
    <2>4. left[i - n] = times[i]
      BY <1>3, <2>3
    <2> QED
      BY <1>3, <2>1, <2>3, <2>4 DEF Later
  <1> HIDE DEF I, J
  <1>6. f \in Bijection(J, I)
    <2>1. f \in [J -> I]
      BY <1>4
    <2>2. \A a, b \in J : f[a] = f[b] => a = b
      BY <1>4
    <2>3. \A i \in I : \E j \in J : f[j] = i
      BY <1>5
    <2> QED
      BY <2>1, <2>2, <2>3 DEF Bijection, Injection, Surjection, IsInjective
  <1>7. IsFiniteSet(J)
    BY <1>2, CountIs DEF left, J
  <1> QED
    BY <1>6, <1>7, FS_Bijection DEF Count, left, I, J, ExistsBijection

\* the time that comes next is the last
LEMMA InOrderAppended ==
    ASSUME NEW times \in Seq(Int), NEW now \in Int, InOrder(times, now)
    PROVE  InOrder(Append(times, now), now)
  <1>1. /\ Len(times) \in Nat /\ DOMAIN times = 1 .. Len(times)
        /\ DOMAIN Append(times, now) = 1 .. (Len(times) + 1)
        /\ \A i \in 1 .. Len(times) : Append(times, now)[i] = times[i]
        /\ Append(times, now)[Len(times) + 1] = now
    BY LenProperties, AppendProperties
  <1> QED
    BY <1>1 DEF InOrder

\* what pruning leaves is in order
LEMMA InOrderPruned ==
    ASSUME NEW times \in Seq(Int), NEW now \in Int, NEW windowMs \in Int,
           InOrder(times, now)
    PROVE  InOrder(Prune(times, now, windowMs), now)
  <1>1. PICK n \in Nat : Leaves(Prune(times, now, windowMs), times, now - windowMs, n)
    BY PruneIs
  <1> DEFINE left == Prune(times, now, windowMs)
  <1>2. left \in Seq(Int)
    BY PruneIs
  <1> HIDE DEF left
  <1>3. /\ Len(times) \in Nat /\ DOMAIN times = 1 .. Len(times)
        /\ Len(left) \in Nat /\ DOMAIN left = 1 .. Len(left)
        /\ n \in 0 .. Len(times) /\ Len(left) = Len(times) - n
        /\ \A i \in 1 .. Len(left) : left[i] = times[n + i]
    BY <1>1, <1>2, LenProperties DEF Leaves, left
  <1>4. ASSUME NEW i \in 1 .. Len(left)
        PROVE  n + i \in 1 .. Len(times) /\ left[i] = times[n + i]
    <2>1. n + i \in 1 .. Len(times)
      BY <1>3
    <2> QED
      BY <1>3, <2>1
  <1>5. \A i \in DOMAIN left : left[i] <= now
    BY <1>3, <1>4 DEF InOrder
  <1>6. ASSUME NEW i \in DOMAIN left, NEW j \in DOMAIN left, i <= j
        PROVE  left[i] <= left[j]
    <2>1. /\ n + i \in DOMAIN times /\ n + j \in DOMAIN times /\ n + i <= n + j
          /\ left[i] = times[n + i] /\ left[j] = times[n + j]
      <3>1. i \in 1 .. Len(left) /\ j \in 1 .. Len(left) /\ i \in Int /\ j \in Int
        BY <1>3
      <3>2. n + i <= n + j
        BY <1>6, <3>1
      <3> QED
        BY <1>3, <1>4, <3>1, <3>2
    <2> QED
      BY <2>1 DEF InOrder
  <1>7. InOrder(left, now)
    BY <1>5, <1>6 DEF InOrder
  <1> QED
    BY <1>7 DEF left

\* time passes
LEMMA InOrderStays ==
    ASSUME NEW times \in Seq(Int), NEW now \in Int, NEW later \in Int, now <= later,
           InOrder(times, now)
    PROVE  InOrder(times, later)
  <1>1. \A i \in DOMAIN times : times[i] \in Int
    BY LenProperties, ElementOfSeq
  <1> QED
    BY <1>1 DEF InOrder

\* what pruning leaves is within the window
LEMMA PrunedIsYoung ==
    ASSUME NEW times \in Seq(Int), NEW now \in Int, NEW windowMs \in Int,
           InOrder(times, now)
    PROVE  LET left == Prune(times, now, windowMs)
           IN  /\ left \in Seq(Int) /\ InOrder(left, now) /\ Len(left) <= Len(times)
               /\ \A i \in DOMAIN left : left[i] > now - windowMs
  <1>1. PICK n \in Nat : Leaves(Prune(times, now, windowMs), times, now - windowMs, n)
    BY PruneIs
  <1> DEFINE left == Prune(times, now, windowMs)
             cutoff == now - windowMs
  <1>2. left \in Seq(Int) /\ cutoff \in Int
    BY PruneIs
  <1>3. InOrder(left, now)
    BY InOrderPruned
  <1>4. Len(left) > 0 => left[1] > cutoff
    BY <1>1, <1>2, LeftIsYoung
  <1>5. Len(left) <= Len(times)
    <2>1. Len(times) \in Nat
      BY LenProperties
    <2> QED
      BY <1>1, <2>1 DEF Leaves
  <1> HIDE DEF left, cutoff
  <1>6. /\ Len(left) \in Nat /\ DOMAIN left = 1 .. Len(left)
        /\ \A i \in 1 .. Len(left) : left[i] \in Int
    BY <1>2, LenProperties, ElementOfSeq
  <1>7. \A i \in DOMAIN left : left[i] > cutoff
    <2> TAKE i \in DOMAIN left
    <2>1. 1 \in DOMAIN left /\ 1 <= i /\ Len(left) > 0 /\ left[i] \in Int /\ left[1] \in Int
      BY <1>6
    <2> QED
      BY <1>2, <1>3, <1>4, <2>1 DEF InOrder
  <1> QED
    BY <1>2, <1>3, <1>5, <1>7 DEF left, cutoff

\* it is what is later than the cutoff
LEMMA PrunedIsLater ==
    ASSUME NEW times \in Seq(Int), NEW now \in Int, NEW windowMs \in Int,
           InOrder(times, now)
    PROVE  Len(Prune(times, now, windowMs)) = Count(times, now - windowMs)
  <1> DEFINE left == Prune(times, now, windowMs)
             cutoff == now - windowMs
  <1>1. cutoff \in Int /\ Count(left, cutoff) = Count(times, cutoff)
    BY CountPruned
  <1>2. left \in Seq(Int) /\ \A i \in DOMAIN left : left[i] > cutoff
    BY PrunedIsYoung
  <1> HIDE DEF left, cutoff
  <1>3. Count(left, cutoff) = Len(left)
    BY <1>1, <1>2, CountIs
  <1> QED
    BY <1>1, <1>3 DEF left, cutoff

\* fewer times are later than a later time
LEMMA CountFalls ==
    ASSUME NEW times \in Seq(Int), NEW k \in Int, NEW m \in Int, k <= m
    PROVE  Count(times, m) <= Count(times, k)
  <1>1. \A i \in DOMAIN times : times[i] \in Int
    BY LenProperties, ElementOfSeq
  <1>2. Later(times, m) \subseteq Later(times, k)
    BY <1>1 DEF Later
  <1>3. IsFiniteSet(Later(times, k))
    BY CountIs
  <1> QED
    BY <1>2, <1>3, FS_Subset DEF Count

\* and none is later than now
LEMMA CountNone ==
    ASSUME NEW times \in Seq(Int), NEW now \in Int, InOrder(times, now),
           NEW k \in Int, now <= k
    PROVE  Count(times, k) = 0
  <1>1. \A i \in DOMAIN times : times[i] \in Int
    BY LenProperties, ElementOfSeq
  <1>2. Later(times, k) = {}
    BY <1>1 DEF Later, InOrder
  <1> QED
    BY <1>2, FS_EmptySet DEF Count

\* pruning takes none in
LEMMA CountShrinks ==
    ASSUME NEW times \in Seq(Int), NEW now \in Int, NEW windowMs \in Int, NEW k \in Int,
           InOrder(times, now)
    PROVE  Count(Prune(times, now, windowMs), k) <= Count(times, k)
  <1> DEFINE left == Prune(times, now, windowMs)
             cutoff == now - windowMs
  <1>1. /\ left \in Seq(Int) /\ cutoff \in Int /\ Len(left) = Count(times, cutoff)
        /\ Count(times, k) \in Nat /\ Count(times, cutoff) \in Nat
    BY PrunedIsYoung, PrunedIsLater, CountIs
  <1>2. CASE k >= cutoff
    BY <1>1, <1>2, CountPruned
  <1>3. CASE k < cutoff
    <2>1. Count(times, cutoff) <= Count(times, k)
      BY <1>1, <1>3, CountFalls
    <2> HIDE DEF left, cutoff
    <2>2. Count(left, k) \in Nat /\ Count(left, k) <= Len(left)
      BY <1>1, CountIs
    <2>3. Count(left, k) <= Count(times, k)
      BY <1>1, <2>1, <2>2
    <2> QED
      BY <2>3 DEF left
  <1> QED
    BY <1>1, <1>2, <1>3
===============================================================================
