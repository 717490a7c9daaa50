-------------------------- MODULE WalletRelayProofs ---------------------------
(***************************************************************************)
(* What a wallet meets at the relay, for any number of calls, parties and  *)
(* addresses: it pays once but for the answers that were lost; its router  *)
(* sends a request where the ledger said; the budgets of wasted prepares   *)
(* and of party allocations are kept; a ban is earned by who is banned.    *)
(***************************************************************************)
EXTENDS RelayAnswers, LimitsProofs

Fates == {"flying", "committed"} \cup Refused
Asked == [pc : {"end", "post", "poll"}, bytes : Nat, fresh : BOOLEAN, sub : Nat]

TypeOK ==
    /\ prepared \in Nat
    /\ told \subseteq {"refused", "could_not", "unknown", "paid"}
    /\ call \in [Calls -> Asked \cup {Idle}]
    /\ subs \in Seq([bytes : Nat, fate : Fates])
    /\ hidden \subseteq Nat

\* a submission that has paid, or still may
Live(i) == i \in DOMAIN subs /\ subs[i].fate \notin Refused

Polls(c, i) == call[c].pc = "poll" /\ call[c].sub = i

\* a call in flight is about the transfer prepared last, or, before the first,
\* about the operator's own command: then it is alone
CallsAreCurrent ==
    \A c \in Calls : call[c] # Idle =>
      /\ call[c].bytes = prepared
      /\ prepared = Own => \A d \in Calls : call[d] # Idle => d = c

\* a submission that may pay, of an answer that was not lost, is of the
\* transfer prepared last; and as long as only refusals were told, some call
\* waits for its outcome
LiveIsPolled ==
    \A i \in Nat \ hidden : Live(i) =>
      /\ subs[i].bytes = prepared
      /\ told \subseteq {"refused"} => \E c \in Calls : Polls(c, i)

\* the bytes of a transfer pay once
PaidOnce ==
    \A i, j \in Committed : subs[i].bytes = subs[j].bytes /\ subs[i].bytes # Own => i = j

\* before the first transfer, the operator's command pays once: it is sent
\* again only after it was refused
OwnOnce ==
    prepared = Own =>
      /\ hidden = {}
      /\ \A i, j \in Nat : Live(i) /\ Live(j) => i = j
      /\ \A c \in Calls : call[c] # Idle =>
           \A i \in Nat : Live(i) => Polls(c, i)

Inv == TypeOK /\ CallsAreCurrent /\ LiveIsPolled /\ PaidOnce /\ OwnOnce

-----------------------------------------------------------------------------

LEMMA InvGives == Inv => PaysOnceButForLostAnswers
  <1> SUFFICES ASSUME Inv, NEW i \in Committed \ hidden, NEW j \in Committed \ hidden
               PROVE  i = j
    BY DEF PaysOnceButForLostAnswers
  <1>1. DOMAIN subs \subseteq Nat
    BY DEF Inv, TypeOK
  <1>2. Live(i) /\ Live(j) /\ i \in Nat /\ j \in Nat
    BY <1>1 DEF Live, Committed, Refused
  <1>3. subs[i].bytes = prepared /\ subs[j].bytes = prepared
    BY <1>2 DEF Inv, LiveIsPolled
  <1>4. CASE prepared = Own
    BY <1>2, <1>4 DEF Inv, OwnOnce
  <1>5. CASE prepared # Own
    BY <1>3, <1>5 DEF Inv, PaidOnce
  <1> QED
    BY <1>4, <1>5

LEMMA IdleIs == Idle.pc = "idle" /\ Idle \notin Asked
  BY DEF Idle, Asked

LEMMA Initially == Init => Inv
  <1> SUFFICES ASSUME Init PROVE Inv
    OBVIOUS
  <1>1. TypeOK
    BY DEF Init, TypeOK
  <1>2. subs = << >> /\ hidden = {} /\ \A c \in Calls : call[c] = Idle
    BY DEF Init
  <1>3. \A i : ~Live(i)
    BY <1>2 DEF Live
  <1>4. Committed = {}
    BY <1>2 DEF Committed
  <1> QED
    BY <1>1, <1>2, <1>3, <1>4 DEF Inv, CallsAreCurrent, LiveIsPolled, PaidOnce, OwnOnce

\* a call is idle, or it is at one of its awaits
LEMMA Asking ==
    ASSUME TypeOK, NEW c \in Calls
    PROVE  call[c] = Idle \/ call[c] \in Asked
  BY DEF TypeOK

-----------------------------------------------------------------------------
(* The wallet.                                                             *)

LEMMA PrepareKeeps == ASSUME Inv, Prepare PROVE Inv'
  <1>1. /\ prepared' = prepared + 1 /\ told' = {}
        /\ UNCHANGED <<call, subs, hidden>>
        /\ \A c \in Calls : call[c] = Idle
        /\ told \subseteq {"refused"}
    BY DEF Prepare
  <1>2. TypeOK'
    BY <1>1 DEF Inv, TypeOK
  <1>3. \A i \in Nat \ hidden : ~Live(i)
    BY <1>1, IdleIs DEF Inv, LiveIsPolled, Polls
  <1>4. prepared' # Own
    BY <1>1 DEF Inv, TypeOK, Own
  <1>5. \A i : Live(i)' = Live(i)
    BY <1>1 DEF Live
  <1>6. CallsAreCurrent' /\ LiveIsPolled' /\ OwnOnce'
    BY <1>1, <1>3, <1>4, <1>5 DEF CallsAreCurrent, LiveIsPolled, OwnOnce
  <1>7. PaidOnce'
    BY <1>1 DEF Inv, PaidOnce, Committed
  <1> QED
    BY <1>2, <1>6, <1>7 DEF Inv

\* a call begins: nothing was told but refusals
LEMMA BeginKeeps ==
    ASSUME Inv, NEW c \in Calls, call[c] = Idle, NEW r \in Asked, r.pc # "poll",
           r.bytes = prepared, call' = [call EXCEPT ![c] = r],
           UNCHANGED <<prepared, told, subs, hidden>>,
           prepared = Own => told = {} /\ \A d \in Calls : call[d] = Idle
    PROVE  Inv'
  <1>1. \A d \in Calls : call'[d] = IF d = c THEN r ELSE call[d]
    BY DEF Inv, TypeOK
  <1>2. TypeOK'
    BY DEF Inv, TypeOK
  <1>3. \A i : Live(i)' = Live(i)
    BY DEF Live
  <1>4. \A d \in Calls : \A i : Polls(d, i) => Polls(d, i)'
    BY <1>1, IdleIs DEF Polls
  <1>5. CallsAreCurrent'
    BY <1>1 DEF Inv, CallsAreCurrent
  <1>6. LiveIsPolled'
    BY <1>3, <1>4 DEF Inv, LiveIsPolled
  <1>7. PaidOnce'
    BY DEF Inv, PaidOnce, Committed
  <1>8. OwnOnce'
    <2> SUFFICES ASSUME prepared = Own PROVE OwnOnce'
      BY DEF OwnOnce
    <2>1. \A i \in Nat : ~Live(i)
      BY IdleIs DEF Inv, OwnOnce, LiveIsPolled, Polls
    <2> QED
      BY <1>3, <2>1 DEF Inv, OwnOnce
  <1> QED
    BY <1>2, <1>5, <1>6, <1>7, <1>8 DEF Inv

LEMMA ExecuteKeeps ==
    ASSUME Inv, NEW c \in Calls, Execute(c) \/ CreateTransferPreapproval(c)
    PROVE  Inv'
  <1>1. CASE Execute(c)
    <2> DEFINE r == At("end", prepared, FALSE, 0)
    <2>1. r \in Asked /\ r.pc # "poll" /\ r.bytes = prepared
      BY DEF At, Asked, Inv, TypeOK
    <2>2. call' = [call EXCEPT ![c] = r] /\ call[c] = Idle /\ prepared # Own
          /\ UNCHANGED <<prepared, told, subs, hidden>>
      BY <1>1 DEF Execute, Own
    <2> HIDE DEF r
    <2> QED
      BY <2>1, <2>2, BeginKeeps
  <1>2. CASE CreateTransferPreapproval(c)
    <2> DEFINE r == At("post", Own, FALSE, 0)
    <2>1. r \in Asked /\ r.pc # "poll" /\ r.bytes = Own
      BY DEF At, Asked, Own
    <2>2. /\ call' = [call EXCEPT ![c] = r] /\ call[c] = Idle /\ prepared = Own
          /\ told = {} /\ \A d \in Calls : call[d] = Idle
          /\ UNCHANGED <<prepared, told, subs, hidden>>
      BY <1>2 DEF CreateTransferPreapproval, Own
    <2> HIDE DEF r
    <2> QED
      BY <2>1, <2>2, BeginKeeps
  <1> QED
    BY <1>1, <1>2

-----------------------------------------------------------------------------
(* The relay.                                                              *)

Verdicts == {"refused", "could_not", "unknown", "paid"}

\* a refusal is told only by a call whose submission does not pay
LEMMA AnswerKeeps ==
    ASSUME Inv, NEW c \in Calls, call[c] # Idle, NEW v \in Verdicts, Answer(c, v),
           UNCHANGED <<subs, hidden>>,
           v = "refused" => \A i : Polls(c, i) => ~Live(i)
    PROVE  Inv'
  <1>1. /\ call' = [call EXCEPT ![c] = Idle] /\ told' = told \cup {v}
        /\ prepared' = prepared
    BY DEF Answer
  <1>2. \A d \in Calls : call'[d] = IF d = c THEN Idle ELSE call[d]
    BY <1>1 DEF Inv, TypeOK
  <1>3. TypeOK'
    BY <1>1 DEF Inv, TypeOK, Verdicts
  <1>4. \A i : Live(i)' = Live(i)
    BY DEF Live
  <1>5. CallsAreCurrent'
    BY <1>1, <1>2 DEF Inv, CallsAreCurrent
  <1>6. LiveIsPolled'
    <2> SUFFICES ASSUME NEW i \in Nat \ hidden, Live(i)
                 PROVE  /\ subs[i].bytes = prepared
                        /\ told' \subseteq {"refused"} => \E d \in Calls : Polls(d, i)'
      BY <1>1, <1>4 DEF LiveIsPolled
    <2>1. subs[i].bytes = prepared
      BY DEF Inv, LiveIsPolled
    <2>2. ASSUME told' \subseteq {"refused"}
          PROVE  \E d \in Calls : Polls(d, i)'
      <3>1. v = "refused" /\ told \subseteq {"refused"}
        BY <1>1, <2>2
      <3>2. PICK d \in Calls : Polls(d, i)
        BY <3>1 DEF Inv, LiveIsPolled
      <3>3. d # c
        BY <3>1, <3>2
      <3> QED
        BY <1>2, <3>2, <3>3 DEF Polls
    <2> QED
      BY <2>1, <2>2
  <1>7. PaidOnce'
    BY DEF Inv, PaidOnce, Committed
  <1>8. OwnOnce'
    BY <1>1, <1>2, <1>4 DEF Inv, OwnOnce, CallsAreCurrent
  <1> QED
    BY <1>3, <1>5, <1>6, <1>7, <1>8 DEF Inv

\* a call goes on to its next await, and what it has submitted does not pay
LEMMA AwaitKeeps ==
    ASSUME Inv, NEW c \in Calls, call[c] # Idle, NEW r \in Asked, Await(c, r),
           r.bytes = call[c].bytes, UNCHANGED <<subs, hidden>>,
           \A i : Polls(c, i) => ~Live(i)
    PROVE  Inv'
  <1>1. call' = [call EXCEPT ![c] = r] /\ UNCHANGED <<prepared, told>>
    BY DEF Await
  <1>2. \A d \in Calls : call'[d] = IF d = c THEN r ELSE call[d]
    BY <1>1 DEF Inv, TypeOK
  <1>3. TypeOK'
    BY <1>1 DEF Inv, TypeOK
  <1>4. \A i : Live(i)' = Live(i)
    BY DEF Live
  <1>5. CallsAreCurrent'
    BY <1>1, <1>2, IdleIs DEF Inv, CallsAreCurrent
  <1>6. \A d \in Calls : \A i : Live(i) /\ Polls(d, i) => Polls(d, i)'
    BY <1>2 DEF Polls
  <1>7. LiveIsPolled'
    BY <1>1, <1>4, <1>6 DEF Inv, LiveIsPolled
  <1>8. PaidOnce'
    BY DEF Inv, PaidOnce, Committed
  <1>9. OwnOnce'
    <2> SUFFICES ASSUME prepared = Own PROVE OwnOnce'
      BY <1>1 DEF OwnOnce
    <2>1. \A i \in Nat : ~Live(i)
      BY DEF Inv, OwnOnce
    <2> QED
      BY <1>4, <2>1 DEF Inv, OwnOnce
  <1> QED
    BY <1>3, <1>5, <1>7, <1>8, <1>9 DEF Inv

\* a submission reaches the participant: its call polls for it, or something
\* else than a refusal is told, or the answer is lost
LEMMA SubmittedKeeps ==
    ASSUME Inv, NEW c \in Calls, call[c] # Idle, call[c].pc = "post",
           Submitted(c), NEW r \in Asked \cup {Idle},
           call' = [call EXCEPT ![c] = r], prepared' = prepared,
           told \subseteq told', told' \subseteq Verdicts,
           \/ hidden' = hidden
           \/ prepared # Own /\ hidden' = hidden \cup {Len(subs) + 1},
           \/ r \in Asked /\ r.pc = "poll" /\ r.sub = Len(subs) + 1
              /\ r.bytes = call[c].bytes
           \/ r = Idle /\ ~(told' \subseteq {"refused"})
           \/ r = Idle /\ Len(subs) + 1 \in hidden'
    PROVE  Inv'
  <1> DEFINE n == Len(subs) + 1
  <1>1. /\ call[c] \in Asked /\ call[c].bytes = prepared
        /\ subs' = Append(subs, [bytes |-> call[c].bytes, fate |-> "flying"])
    BY DEF Inv, TypeOK, CallsAreCurrent, Submitted
  <1>2. \A d \in Calls : call'[d] = IF d = c THEN r ELSE call[d]
    BY DEF Inv, TypeOK
  <1>3. n \in Nat /\ DOMAIN subs = 1 .. n - 1 /\ DOMAIN subs' = 1 .. n
    BY <1>1 DEF Inv, TypeOK
  <1>4. /\ \A i \in DOMAIN subs : subs'[i] = subs[i]
        /\ subs'[n].bytes = prepared /\ subs'[n].fate = "flying"
    BY <1>1 DEF Inv, TypeOK
  <1>5. TypeOK'
    <2>1. [bytes |-> call[c].bytes, fate |-> "flying"] \in [bytes : Nat, fate : Fates]
      BY <1>1 DEF Asked, Fates
    <2>2. subs' \in Seq([bytes : Nat, fate : Fates])
      BY <1>1, <2>1 DEF Inv, TypeOK
    <2> QED
      BY <1>3, <2>2 DEF Inv, TypeOK, Verdicts
  <1>6. \A i : Live(i)' <=> Live(i) \/ i = n
    BY <1>3, <1>4 DEF Live, Refused
  <1>7. \A i : ~Polls(c, i)
    BY DEF Polls
  <1>8. \A d \in Calls : \A i : Polls(d, i) => Polls(d, i)'
    BY <1>2, <1>7 DEF Polls
  <1>9. CallsAreCurrent'
    BY <1>1, <1>2 DEF Inv, CallsAreCurrent
  <1>10. LiveIsPolled'
    <2> SUFFICES ASSUME NEW i \in Nat \ hidden', Live(i)'
                 PROVE  /\ subs'[i].bytes = prepared
                        /\ told' \subseteq {"refused"} => \E d \in Calls : Polls(d, i)'
      BY DEF LiveIsPolled
    <2>1. CASE i = n
      BY <1>2, <1>4, <2>1 DEF Polls
    <2>2. CASE i # n
      <3>1. i \in DOMAIN subs /\ i \notin hidden /\ Live(i)
        BY <1>6, <2>2 DEF Live
      <3>2. subs[i].bytes = prepared
            /\ (told \subseteq {"refused"} => \E d \in Calls : Polls(d, i))
        BY <3>1 DEF Inv, LiveIsPolled
      <3>3. subs'[i].bytes = prepared
        BY <1>4, <3>1, <3>2
      <3>4. told' \subseteq {"refused"} => \E d \in Calls : Polls(d, i)'
        BY <1>8, <3>2
      <3> QED
        BY <3>3, <3>4
    <2> QED
      BY <2>1, <2>2
  <1>11. PaidOnce'
    <2>1. \A i \in Committed' : i \in Committed /\ subs'[i] = subs[i]
      BY <1>3, <1>4 DEF Committed
    <2> QED
      BY <2>1 DEF Inv, PaidOnce
  <1>12. OwnOnce'
    <2> SUFFICES ASSUME prepared = Own PROVE OwnOnce'
      BY DEF OwnOnce
    <2>1. \A i \in Nat : ~Live(i)
      BY <1>7 DEF Inv, OwnOnce
    <2>2. \A d \in Calls : call'[d] # Idle => d = c
      BY <1>2 DEF Inv, CallsAreCurrent
    <2>3. hidden' = {}
      BY DEF Inv, OwnOnce
    <2>4. \A i \in Nat : Live(i)' => i = n
      BY <1>6, <2>1
    <2>5. \A i \in Nat : i = n /\ call'[c] # Idle => Polls(c, i)'
      BY <1>2 DEF Polls
    <2> QED
      BY <2>2, <2>3, <2>4, <2>5 DEF OwnOnce
  <1> QED
    BY <1>5, <1>9, <1>10, <1>11, <1>12 DEF Inv

LEMMA LedgerEndKeeps ==
    ASSUME Inv, NEW c \in Calls, LedgerEnd(c)
    PROVE  Inv'
  <1>1. /\ call[c] # Idle /\ call[c] \in Asked /\ call[c].pc = "end"
        /\ UNCHANGED <<subs, hidden>>
    BY IdleIs DEF LedgerEnd, Inv, TypeOK
  <1>2. \A i : ~Polls(c, i)
    BY <1>1 DEF Polls
  <1>3. CASE Answer(c, "refused")
    BY <1>1, <1>2, <1>3, AnswerKeeps DEF Verdicts
  <1>4. CASE Await(c, At("post", call[c].bytes, FALSE, 0))
    <2> DEFINE r == At("post", call[c].bytes, FALSE, 0)
    <2>1. r \in Asked /\ r.bytes = call[c].bytes
      BY <1>1 DEF At, Asked
    <2> HIDE DEF r
    <2> QED
      BY <1>1, <1>2, <1>4, <2>1, AwaitKeeps DEF r
  <1> QED
    BY <1>3, <1>4 DEF LedgerEnd

LEMMA PostKeeps ==
    ASSUME Inv, NEW c \in Calls,
           PostRefused(c) \/ PostLost(c) \/ \E party \in BOOLEAN : PostAccepted(c, party)
    PROVE  Inv'
  <1>1. call[c] # Idle /\ call[c] \in Asked /\ call[c].pc = "post"
    BY IdleIs DEF PostRefused, PostLost, PostAccepted, Inv, TypeOK
  <1>2. \A i : ~Polls(c, i)
    BY <1>1 DEF Polls
  <1>3. Error(c) \in Verdicts
    BY DEF Error, Verdicts
  <1>4. CASE Answer(c, Error(c)) /\ UNCHANGED <<subs, hidden>>
    BY <1>1, <1>2, <1>3, <1>4, AnswerKeeps
  <1>5. call[c].bytes = prepared /\ told \subseteq Verdicts
    BY <1>1 DEF Inv, CallsAreCurrent, TypeOK, Verdicts
  <1>6. CASE /\ Submitted(c) /\ Answer(c, Error(c))
             /\ hidden' = IF Error(c) = "refused" THEN hidden \cup {Len(subs) + 1}
                          ELSE hidden
    <2>1. /\ call' = [call EXCEPT ![c] = Idle] /\ prepared' = prepared
          /\ told \subseteq told' /\ told' \subseteq Verdicts
          /\ Error(c) \in told'
      BY <1>3, <1>5, <1>6 DEF Answer
    <2>2. CASE Error(c) = "refused"
      <3>1. prepared # Own
        BY <1>5, <2>2 DEF Error
      <3> QED
        BY <1>1, <1>6, <2>1, <2>2, <3>1, SubmittedKeeps
    <2>3. CASE Error(c) # "refused"
      BY <1>1, <1>6, <2>1, <2>3, SubmittedKeeps
    <2> QED
      BY <2>2, <2>3
  <1>7. ASSUME NEW party \in BOOLEAN, PostAccepted(c, party)
        PROVE  Inv'
    <2> DEFINE r == At("poll", call[c].bytes, call[c].fresh, Len(subs) + 1)
    <2>1. Submitted(c) /\ UNCHANGED hidden
      BY <1>7 DEF PostAccepted
    <2>2. CASE Await(c, r)
      <3>1. r \in Asked /\ r.pc = "poll" /\ r.sub = Len(subs) + 1
            /\ r.bytes = call[c].bytes
        BY <1>1 DEF At, Asked, Inv, TypeOK
      <3>2. call' = [call EXCEPT ![c] = r] /\ UNCHANGED <<prepared, told>>
        BY <2>2 DEF Await
      <3> HIDE DEF r
      <3> QED
        BY <1>1, <1>5, <2>1, <3>1, <3>2, SubmittedKeeps
    <2>3. CASE Answer(c, "unknown")
      <3>1. /\ call' = [call EXCEPT ![c] = Idle] /\ prepared' = prepared
            /\ told \subseteq told' /\ told' \subseteq Verdicts
            /\ "unknown" \in told'
        BY <1>5, <2>3 DEF Answer, Verdicts
      <3> QED
        BY <1>1, <2>1, <3>1, SubmittedKeeps
    <2> QED
      BY <1>7, <2>2, <2>3 DEF PostAccepted
  <1> QED
    BY <1>4, <1>6, <1>7 DEF PostRefused, PostLost

LEMMA PollKeeps ==
    ASSUME Inv, NEW c \in Calls, Found(c) \/ Rejected(c) \/ Unreadable(c)
    PROVE  Inv'
  <1>1. /\ call[c] # Idle /\ call[c] \in Asked /\ call[c].pc = "poll"
        /\ UNCHANGED <<subs, hidden>>
    BY IdleIs DEF Found, Rejected, Unreadable, Inv, TypeOK
  <1>2. CASE Found(c)
    BY <1>1, <1>2, AnswerKeeps DEF Found, Verdicts
  <1>3. CASE Unreadable(c)
    <2>1. PICK v \in {"could_not", "unknown"} : Answer(c, v)
      BY <1>3 DEF Unreadable
    <2> QED
      BY <1>1, <2>1, AnswerKeeps DEF Verdicts
  <1>4. CASE Rejected(c)
    <2>1. \A i : Polls(c, i) => ~Live(i)
      BY <1>4 DEF Rejected, Polls, Live
    <2>2. CASE Answer(c, Error(c))
      BY <1>1, <2>1, <2>2, AnswerKeeps DEF Error, Verdicts
    <2>3. CASE call[c].bytes = Own /\ Await(c, At("post", Own, TRUE, 0))
      <3> DEFINE r == At("post", Own, TRUE, 0)
      <3>1. r \in Asked /\ r.bytes = call[c].bytes
        BY <2>3 DEF At, Asked, Own
      <3>2. Await(c, r)
        BY <2>3
      <3> HIDE DEF r
      <3> QED
        BY <1>1, <2>1, <3>1, <3>2, AwaitKeeps
    <2> QED
      BY <1>4, <2>2, <2>3 DEF Rejected
  <1> QED
    BY <1>2, <1>3, <1>4

-----------------------------------------------------------------------------
(* The participant.                                                        *)

LEMMA SettleKeeps ==
    ASSUME Inv, NEW i \in DOMAIN subs, Settle(i)
    PROVE  Inv'
  <1>1. UNCHANGED <<prepared, told, call, hidden>> /\ subs[i].fate = "flying"
    BY DEF Settle
  <1>2. PICK fate \in {"committed"} \cup Refused :
          /\ subs' = [subs EXCEPT ![i] = [subs[i] EXCEPT !.fate = fate]]
          /\ fate = "committed" => ~Spent(i)
    BY DEF Settle, Refused
  <1>3. i \in Nat /\ subs[i] \in [bytes : Nat, fate : Fates]
    <2> DEFINE S == [bytes : Nat, fate : Fates]
    <2>1. subs \in Seq(S)
      BY DEF Inv, TypeOK
    <2> HIDE DEF S
    <2>2. i \in Nat /\ subs[i] \in S
      BY <2>1
    <2> QED
      BY <2>2 DEF S
  <1>4. /\ [subs[i] EXCEPT !.fate = fate] \in [bytes : Nat, fate : Fates]
        /\ [subs[i] EXCEPT !.fate = fate].bytes = subs[i].bytes
        /\ [subs[i] EXCEPT !.fate = fate].fate = fate
    BY <1>3 DEF Fates
  <1>5. /\ subs' \in Seq([bytes : Nat, fate : Fates]) /\ DOMAIN subs' = DOMAIN subs
        /\ \A j \in DOMAIN subs : j # i => subs'[j] = subs[j]
        /\ subs'[i].bytes = subs[i].bytes /\ subs'[i].fate = fate
    BY <1>2, <1>4 DEF Inv, TypeOK
  <1>6. TypeOK'
    BY <1>1, <1>5 DEF Inv, TypeOK
  <1>7. \A j : Live(j)' => Live(j) /\ subs'[j].bytes = subs[j].bytes
    BY <1>1, <1>5 DEF Live, Refused
  <1>8. CallsAreCurrent' /\ LiveIsPolled' /\ OwnOnce'
    BY <1>1, <1>7 DEF Inv, CallsAreCurrent, LiveIsPolled, OwnOnce, Polls
  <1>9. PaidOnce'
    <2> SUFFICES ASSUME NEW j \in Committed', NEW k \in Committed',
                        subs'[j].bytes = subs'[k].bytes, subs'[j].bytes # Own, j # k
                 PROVE  FALSE
      BY DEF PaidOnce
    <2>1. \A m \in Committed' :
            \/ m \in Committed
            \/ m = i /\ fate = "committed"
      BY <1>5 DEF Committed
    <2>2. \A m \in DOMAIN subs : subs'[m].bytes = subs[m].bytes
      BY <1>5
    <2>3. j \in DOMAIN subs /\ k \in DOMAIN subs
      BY <1>5 DEF Committed
    <2>4. CASE j \in Committed /\ k \in Committed
      BY <2>2, <2>3, <2>4 DEF Inv, PaidOnce
    <2>5. CASE j = i /\ k \in Committed /\ fate = "committed"
      BY <1>2, <2>2, <2>3, <2>5 DEF Spent
    <2>6. CASE k = i /\ j \in Committed /\ fate = "committed"
      BY <1>2, <2>2, <2>3, <2>6 DEF Spent
    <2> QED
      BY <2>1, <2>4, <2>5, <2>6
  <1> QED
    BY <1>6, <1>8, <1>9 DEF Inv

-----------------------------------------------------------------------------

(***************************************************************************)
(* Of the submissions whose answers were not lost at most one pays, for a  *)
(* wallet that prepares another transfer only when all it was told is that *)
(* nothing was paid: the relay never tells a refusal of what may still pay.*)
(***************************************************************************)
THEOREM PaysOnce == Spec => []PaysOnceButForLostAnswers
  <1>1. Init => Inv
    BY Initially
  <1>2. Inv /\ [Next]_vars => Inv'
    <2> SUFFICES ASSUME Inv, [Next]_vars PROVE Inv'
      OBVIOUS
    <2>1. CASE Prepare
      BY <2>1, PrepareKeeps
    <2>2. ASSUME NEW c \in Calls,
                 Execute(c) \/ CreateTransferPreapproval(c) \/ LedgerEnd(c)
          PROVE  Inv'
      BY <2>2, ExecuteKeeps, LedgerEndKeeps
    <2>3. ASSUME NEW c \in Calls,
                 \/ PostRefused(c) \/ PostLost(c)
                 \/ \E party \in BOOLEAN : PostAccepted(c, party)
          PROVE  Inv'
      BY <2>3, PostKeeps
    <2>4. ASSUME NEW c \in Calls, Found(c) \/ Rejected(c) \/ Unreadable(c)
          PROVE  Inv'
      BY <2>4, PollKeeps
    <2>5. ASSUME NEW i \in DOMAIN subs, Settle(i)
          PROVE  Inv'
      BY <2>5, SettleKeeps
    <2>6. CASE UNCHANGED vars
      BY <2>6 DEF vars, Inv, TypeOK, CallsAreCurrent, LiveIsPolled, PaidOnce,
         OwnOnce, Live, Polls, Committed
    <2> QED
      BY <2>1, <2>2, <2>3, <2>4, <2>5, <2>6 DEF Next
  <1>3. Inv => PaysOnceButForLostAnswers
    BY InvGives
  <1> QED
    BY <1>1, <1>2, <1>3, PTL DEF Spec

-----------------------------------------------------------------------------
(* The other components of the relay, each on variables of its own.        *)

CONSTANTS
    Parties, Requests, TtlMs, MaxEntries, LookupTimeoutMs, UnavailableMs, MaxMoves,
    Pairs, WasteMax, WindowMs,
    Ips, Senders, Doorways, Config,
    MaxTime

VARIABLES
    clock,
    hosted, moves, cache, unavailableUntil, req, hostedAt, absentAt,
    waste, prepare, wasted,
    doors, box, refused, served, allocated

Clock == 0 .. MaxTime

Router == INSTANCE ParticipantRouter
Waste == INSTANCE PrepareBudget WITH call <- prepare
Doors == INSTANCE RelayDoors

-----------------------------------------------------------------------------
(* The router.                                                             *)

\* what the router is configured with
Routing == TtlMs \in Nat /\ LookupTimeoutMs \in Nat /\ MaxEntries \in Nat \ {0} /\ MaxTime \in Nat

Hosts == {"primary", "secondary", "none"}
Entries == [party : Parties, host : Hosts, at : Nat]
Asks == [pc : {"primary", "secondary"}, party : Parties, hit : Hosts \cup {"unknown"}, deadline : Nat]
Routes == [pc : {"routed"}, party : Parties, host : Hosts \cup {"unknown"}, failed : BOOLEAN,
           to : {"primary", "secondary"}]

RouterTypes ==
    /\ clock \in Nat
    /\ hosted \in [Parties -> SUBSET {"primary", "secondary"}]
    /\ cache \in Seq(Entries)
    /\ req \in [Requests -> {[pc |-> "idle"]} \cup Asks \cup Routes]
    /\ hostedAt \in [Parties \X {"primary", "secondary"} -> Int]
    /\ absentAt \in [Parties \X {"primary", "secondary"} -> Int]

\* the histories are of the ledger
HistoryIs(party, p) ==
    /\ hostedAt[<<party, p>>] <= clock /\ absentAt[<<party, p>>] <= clock
    /\ p \in hosted[party] => hostedAt[<<party, p>>] = clock
    /\ p \notin hosted[party] => absentAt[<<party, p>>] = clock

\* what was known of a party, at some time since
Told(party, host, since) ==
    /\ host \in {"primary", "secondary"} => hostedAt[<<party, host>>] >= since
    /\ host \in {"secondary", "none"} => absentAt[<<party, "primary">>] >= since
    /\ host = "none" => absentAt[<<party, "secondary">>] >= since

\* an entry was true at most a lookup before it was made
EntryIs(e) ==
    /\ Told(e.party, e.host, e.at - LookupTimeoutMs) /\ Told(e.party, e.host, 0)
    /\ e.at <= clock

\* a lookup within its deadline has the primary's no, when it asks the
\* secondary, and what was remembered as the request came
AskIs(ask) ==
    /\ clock <= ask.deadline
    /\ ask.pc = "secondary" =>
         /\ absentAt[<<ask.party, "primary">>] >= ask.deadline - LookupTimeoutMs
         /\ absentAt[<<ask.party, "primary">>] >= 0
    /\ Told(ask.party, ask.hit, 0)

\* what was known since a time was known since an earlier one
LEMMA ToldEarlier ==
    ASSUME NEW party, NEW host, NEW since, NEW before,
           party \in Parties, since \in Int, before \in Int, before <= since,
           hostedAt \in [Parties \X {"primary", "secondary"} -> Int],
           absentAt \in [Parties \X {"primary", "secondary"} -> Int],
           Told(party, host, since)
    PROVE  Told(party, host, before)
  <1>1. /\ absentAt[<<party, "primary">>] \in Int /\ absentAt[<<party, "secondary">>] \in Int
        /\ host \in {"primary", "secondary"} => hostedAt[<<party, host>>] \in Int
    OBVIOUS
  <1> QED
    BY <1>1 DEF Told

\* a map: a party has one entry
OneEntryEach(entries) ==
    \A i, j \in DOMAIN entries : entries[i].party = entries[j].party => i = j

RouterInv ==
    /\ RouterTypes /\ OneEntryEach(cache)
    /\ \A party \in Parties, p \in {"primary", "secondary"} : HistoryIs(party, p)
    /\ \A i \in DOMAIN cache : EntryIs(cache[i])
    /\ \A r \in Requests : req[r] \in Asks => AskIs(req[r])

\* a sequence made of entries of another, each taken once
Part(part, whole) ==
    \E f \in [DOMAIN part -> DOMAIN whole] :
      /\ \A i, j \in DOMAIN part : f[i] = f[j] => i = j
      /\ \A i \in DOMAIN part : part[i] = whole[f[i]]

\* such a sequence has what the other has
LEMMA PartKeeps ==
    ASSUME NEW part, NEW whole, Part(part, whole)
    PROVE  /\ OneEntryEach(whole) => OneEntryEach(part)
           /\ \A i \in DOMAIN part : \E j \in DOMAIN whole : part[i] = whole[j]
  <1>1. PICK f \in [DOMAIN part -> DOMAIN whole] :
          /\ \A i, j \in DOMAIN part : f[i] = f[j] => i = j
          /\ \A i \in DOMAIN part : part[i] = whole[f[i]]
    BY DEF Part
  <1>2. ASSUME OneEntryEach(whole), NEW i \in DOMAIN part, NEW j \in DOMAIN part,
               part[i].party = part[j].party
        PROVE  i = j
    <2>1. whole[f[i]].party = whole[f[j]].party /\ f[i] \in DOMAIN whole /\ f[j] \in DOMAIN whole
      BY <1>1, <1>2
    <2>2. f[i] = f[j]
      BY <1>2, <2>1 DEF OneEntryEach
    <2> QED
      BY <1>1, <2>2
  <1>3. OneEntryEach(whole) => OneEntryEach(part)
    BY <1>2 DEF OneEntryEach
  <1> QED
    BY <1>1, <1>3

\* the latest entries
LEMMA LatestAre ==
    ASSUME NEW S, NEW s \in Seq(S), NEW n \in Nat \ {0}, Len(s) >= n
    PROVE  LET kept == SubSeq(s, Len(s) - n + 2, Len(s))
           IN  kept \in Seq(S) /\ Part(kept, s)
  <1> DEFINE m == Len(s) - n + 2
             kept == SubSeq(s, m, Len(s))
             f == [i \in DOMAIN kept |-> m + i - 1]
  <1>1. /\ Len(s) \in Nat /\ DOMAIN s = 1 .. Len(s) /\ \A i \in 1 .. Len(s) : s[i] \in S
    BY LenProperties, ElementOfSeq
  <1>2. m \in Int /\ m >= 2 /\ m <= Len(s) + 1
    BY <1>1
  <1> HIDE DEF m
  <1>3. \A i \in m .. Len(s) : s[i] \in S
    BY <1>1, <1>2
  <1>4. /\ kept \in Seq(S)
        /\ Len(kept) = IF m <= Len(s) THEN Len(s) - m + 1 ELSE 0
        /\ \A i \in 1 .. (Len(s) - m + 1) : kept[i] = s[m + i - 1]
    BY <1>1, <1>2, <1>3, SubSeqProperties
  <1>5. DOMAIN kept = 1 .. (Len(s) - m + 1)
    <2>1. DOMAIN kept = 1 .. Len(kept)
      BY <1>4, LenProperties
    <2> HIDE DEF kept
    <2> QED
      BY <1>1, <1>2, <1>4, <2>1
  <1> HIDE DEF kept
  <1>6. f \in [DOMAIN kept -> DOMAIN s]
    BY <1>1, <1>2, <1>5
  <1>7. \A i, j \in DOMAIN kept : f[i] = f[j] => i = j
    BY <1>1, <1>2, <1>5
  <1>8. \A i \in DOMAIN kept : kept[i] = s[f[i]]
    BY <1>4, <1>5
  <1> HIDE DEF f
  <1> QED
    BY <1>4, <1>6, <1>7, <1>8 DEF Part, kept, m

\* all entries but one
Others(others, s, n, S) ==
    /\ others \in Seq(S) /\ Part(others, s)
    /\ \A i \in DOMAIN others : \E j \in DOMAIN s \ {n} : others[i] = s[j]

LEMMA OthersAre ==
    ASSUME NEW S, NEW s \in Seq(S), NEW n \in DOMAIN s
    PROVE  Others(SubSeq(s, 1, n - 1) \o SubSeq(s, n + 1, Len(s)), s, n, S)
  <1> DEFINE a == SubSeq(s, 1, n - 1)
             b == SubSeq(s, n + 1, Len(s))
             others == a \o b
             f == [i \in DOMAIN others |-> IF i < n THEN i ELSE i + 1]
  <1>1. /\ Len(s) \in Nat /\ DOMAIN s = 1 .. Len(s) /\ \A i \in 1 .. Len(s) : s[i] \in S
        /\ n \in 1 .. Len(s)
    BY LenProperties, ElementOfSeq
  <1>2. /\ a \in Seq(S) /\ Len(a) = n - 1 /\ \A i \in 1 .. (n - 1) : a[i] = s[i]
    <2>1. \A i \in 1 .. (n - 1) : s[i] \in S
      BY <1>1
    <2>2. /\ a \in Seq(S) /\ Len(a) = IF 1 <= n - 1 THEN (n - 1) - 1 + 1 ELSE 0
          /\ \A i \in 1 .. ((n - 1) - 1 + 1) : a[i] = s[1 + i - 1]
      BY <1>1, <2>1, SubSeqProperties
    <2> HIDE DEF a
    <2> QED
      BY <1>1, <2>2
  <1>3. /\ b \in Seq(S) /\ Len(b) = Len(s) - n /\ \A i \in 1 .. (Len(s) - n) : b[i] = s[n + i]
    <2>1. \A i \in (n + 1) .. Len(s) : s[i] \in S
      BY <1>1
    <2>2. /\ b \in Seq(S) /\ Len(b) = IF n + 1 <= Len(s) THEN Len(s) - (n + 1) + 1 ELSE 0
          /\ \A i \in 1 .. (Len(s) - (n + 1) + 1) : b[i] = s[(n + 1) + i - 1]
      BY <1>1, <2>1, SubSeqProperties
    <2> HIDE DEF b
    <2>3. Len(b) = Len(s) - n
      BY <1>1, <2>2
    <2>4. ASSUME NEW i \in 1 .. (Len(s) - n) PROVE b[i] = s[n + i]
      <3>1. i \in 1 .. (Len(s) - (n + 1) + 1) /\ (n + 1) + i - 1 = n + i
        BY <1>1
      <3>2. b[i] = s[(n + 1) + i - 1]
        BY <2>2, <3>1
      <3> QED
        BY <3>1, <3>2
    <2> QED
      BY <2>2, <2>3, <2>4
  <1> HIDE DEF a, b
  <1>4. /\ others \in Seq(S) /\ Len(others) = Len(a) + Len(b)
        /\ \A i \in 1 .. Len(a) + Len(b) : others[i] = IF i <= Len(a) THEN a[i] ELSE b[i - Len(a)]
    BY <1>2, <1>3, ConcatProperties
  <1>5. DOMAIN others = 1 .. (Len(s) - 1)
    <2>1. DOMAIN others = 1 .. Len(others)
      BY <1>4, LenProperties
    <2> HIDE DEF others
    <2> QED
      BY <1>1, <1>2, <1>3, <1>4, <2>1
  <1> HIDE DEF others
  <1>6. f \in [DOMAIN others -> DOMAIN s]
    BY <1>1, <1>5
  <1>7. \A i, j \in DOMAIN others : f[i] = f[j] => i = j
    BY <1>1, <1>5
  <1>8. ASSUME NEW i \in DOMAIN others PROVE others[i] = s[f[i]] /\ f[i] # n
    <2>1. CASE i < n
      BY <1>1, <1>2, <1>3, <1>4, <1>5, <2>1
    <2>2. CASE ~(i < n)
      <3>1. others[i] = b[i - (n - 1)]
        BY <1>1, <1>2, <1>3, <1>4, <1>5, <2>2
      <3>2. i - (n - 1) \in 1 .. (Len(s) - n) /\ n + (i - (n - 1)) = i + 1
        BY <1>1, <1>5, <2>2
      <3>3. b[i - (n - 1)] = s[i + 1]
        BY <1>3, <3>2
      <3> QED
        BY <1>1, <1>5, <2>2, <3>1, <3>3
    <2> QED
      BY <2>1, <2>2
  <1> HIDE DEF f
  <1>9. Part(others, s)
    BY <1>6, <1>7, <1>8 DEF Part
  <1>10. \A i \in DOMAIN others : \E j \in DOMAIN s \ {n} : others[i] = s[j]
    BY <1>6, <1>8
  <1> QED
    BY <1>4, <1>9, <1>10 DEF Others, others, a, b

\* remembering an answer: the party's only entry, and no other is made
LEMMA RememberIs ==
    ASSUME Routing, cache \in Seq(Entries), OneEntryEach(cache), clock \in Nat,
           NEW party \in Parties, NEW host \in Hosts, Router!Remember(party, host)
    PROVE  /\ cache' \in Seq(Entries) /\ OneEntryEach(cache')
           /\ \A i \in DOMAIN cache' :
                \/ cache'[i] = [party |-> party, host |-> host, at |-> clock]
                \/ \E j \in DOMAIN cache : cache'[i] = cache[j]
  <1> DEFINE hit == CHOOSE i \in Router!Hit(party) : TRUE
             others == IF Router!Hit(party) = {} THEN cache
                       ELSE SubSeq(cache, 1, hit - 1) \o SubSeq(cache, hit + 1, Len(cache))
             kept == IF Len(others) >= MaxEntries
                     THEN SubSeq(others, Len(others) - MaxEntries + 2, Len(others))
                     ELSE others
             e == [party |-> party, host |-> host, at |-> clock]
  <1>1. cache' = Append(kept, e)
    BY DEF Router!Remember, Router!RemoveAt
  <1>2. MaxEntries \in Nat \ {0} /\ e \in Entries
    BY DEF Routing, Entries
  <1>3. /\ others \in Seq(Entries) /\ OneEntryEach(others)
        /\ \A i \in DOMAIN others : others[i].party # party
        /\ \A i \in DOMAIN others : \E j \in DOMAIN cache : others[i] = cache[j]
    <2>1. CASE Router!Hit(party) = {}
      <3>1. others = cache /\ \A i \in DOMAIN cache : cache[i].party # party
        BY <2>1 DEF Router!Hit
      <3> HIDE DEF others
      <3> QED
        BY <3>1
    <2>2. CASE Router!Hit(party) # {}
      <3>1. hit \in DOMAIN cache /\ cache[hit].party = party
        BY <2>2 DEF Router!Hit
      <3> HIDE DEF hit
      <3>2. others = SubSeq(cache, 1, hit - 1) \o SubSeq(cache, hit + 1, Len(cache))
        BY <2>2
      <3> HIDE DEF others
      <3>3. /\ others \in Seq(Entries) /\ Part(others, cache)
            /\ \A i \in DOMAIN others : \E j \in DOMAIN cache \ {hit} : others[i] = cache[j]
        <4>1. Others(SubSeq(cache, 1, hit - 1) \o SubSeq(cache, hit + 1, Len(cache)),
                     cache, hit, Entries)
          BY <3>1, OthersAre
        <4> QED
          BY <3>2, <4>1 DEF Others
      <3>4. OneEntryEach(others)
        BY <3>3, PartKeeps
      <3>5. \A j \in DOMAIN cache \ {hit} : cache[j].party # party
        BY <3>1 DEF OneEntryEach
      <3> QED
        BY <3>3, <3>4, <3>5
    <2> QED
      BY <2>1, <2>2
  <1> HIDE DEF others
  <1>4. /\ kept \in Seq(Entries) /\ OneEntryEach(kept)
        /\ \A i \in DOMAIN kept : \E j \in DOMAIN others : kept[i] = others[j]
    <2>1. CASE Len(others) >= MaxEntries
      <3>1. kept = SubSeq(others, Len(others) - MaxEntries + 2, Len(others))
        BY <2>1
      <3> HIDE DEF kept
      <3>2. kept \in Seq(Entries) /\ Part(kept, others)
        BY <1>2, <1>3, <2>1, <3>1, LatestAre
      <3> QED
        BY <1>3, <3>2, PartKeeps
    <2>2. CASE ~(Len(others) >= MaxEntries)
      BY <1>3, <2>2
    <2> QED
      BY <2>1, <2>2
  <1> HIDE DEF kept, e
  <1>5. /\ Len(kept) \in Nat /\ DOMAIN kept = 1 .. Len(kept)
        /\ cache' \in Seq(Entries) /\ DOMAIN cache' = 1 .. (Len(kept) + 1)
        /\ \A i \in 1 .. Len(kept) : cache'[i] = kept[i]
        /\ cache'[Len(kept) + 1] = e
    BY <1>1, <1>2, <1>4, LenProperties, AppendProperties
  <1>6. ASSUME NEW i \in DOMAIN kept
        PROVE  /\ kept[i].party # party
               /\ \E j \in DOMAIN cache : kept[i] = cache[j]
    <2>1. PICK j \in DOMAIN others : kept[i] = others[j]
      BY <1>4
    <2> QED
      BY <1>3, <2>1
  <1>7. e.party = party
    BY DEF e
  <1>8. \A i \in DOMAIN cache' : i \in DOMAIN kept \/ i = Len(kept) + 1
    BY <1>5
  <1>9. ASSUME NEW i \in DOMAIN cache', NEW j \in DOMAIN cache', cache'[i].party = cache'[j].party
        PROVE  i = j
    <2>1. CASE i \in DOMAIN kept /\ j \in DOMAIN kept
      BY <1>4, <1>5, <1>9, <2>1 DEF OneEntryEach
    <2>2. CASE i \in DOMAIN kept /\ j = Len(kept) + 1
      BY <1>5, <1>6, <1>7, <1>9, <2>2
    <2>3. CASE i = Len(kept) + 1 /\ j \in DOMAIN kept
      BY <1>5, <1>6, <1>7, <1>9, <2>3
    <2>4. CASE i = Len(kept) + 1 /\ j = Len(kept) + 1
      BY <2>4
    <2> QED
      BY <1>8, <2>1, <2>2, <2>3, <2>4
  <1>10. ASSUME NEW i \in DOMAIN cache'
         PROVE  cache'[i] = e \/ \E j \in DOMAIN cache : cache'[i] = cache[j]
    <2>1. CASE i \in DOMAIN kept
      BY <1>5, <1>6, <2>1
    <2>2. CASE i = Len(kept) + 1
      BY <1>5, <2>2
    <2> QED
      BY <1>8, <2>1, <2>2
  <1> QED
    BY <1>5, <1>9, <1>10 DEF OneEntryEach, e

\* what is remembered of a party was true, lately when it is fresh
LEMMA RememberedIs ==
    ASSUME Routing, RouterInv, NEW party \in Parties
    PROVE  /\ Router!Remembered(party) \in Hosts \cup {"unknown"}
           /\ Told(party, Router!Remembered(party), 0)
           /\ Router!IsFresh(party) => Told(party, Router!Remembered(party), Router!Oldest)
  <1>1. /\ cache \in Seq(Entries) /\ OneEntryEach(cache)
        /\ \A i \in DOMAIN cache : EntryIs(cache[i])
    BY DEF RouterInv, RouterTypes
  <1>2. CASE Router!Hit(party) = {}
    <2>1. Router!Remembered(party) = "unknown" /\ ~Router!IsFresh(party)
      BY <1>2 DEF Router!Remembered, Router!Unknown, Router!IsFresh
    <2> QED
      BY <2>1 DEF Told
  <1>3. CASE Router!Hit(party) # {}
    <2> DEFINE n == CHOOSE i \in Router!Hit(party) : TRUE
    <2>1. /\ n \in Router!Hit(party) /\ n \in DOMAIN cache /\ cache[n].party = party
          /\ Router!Remembered(party) = cache[n].host
      BY <1>3 DEF Router!Remembered, Router!Hit
    <2> HIDE DEF n
    <2>2. cache[n] \in Entries
      BY <1>1, <2>1, LenProperties, ElementOfSeq
    <2>3. /\ cache[n].host \in Hosts /\ cache[n].at \in Nat
          /\ Told(party, cache[n].host, cache[n].at - LookupTimeoutMs)
          /\ Told(party, cache[n].host, 0)
      BY <1>1, <2>1, <2>2 DEF EntryIs, Entries
    <2>4. ASSUME Router!IsFresh(party) PROVE Told(party, cache[n].host, Router!Oldest)
      <3>1. clock - cache[n].at < TtlMs
        BY <1>1, <2>1, <2>4 DEF Router!IsFresh, Router!Hit, OneEntryEach
      <3>2. /\ clock \in Nat /\ TtlMs \in Nat /\ LookupTimeoutMs \in Nat
            /\ hostedAt \in [Parties \X {"primary", "secondary"} -> Int]
            /\ absentAt \in [Parties \X {"primary", "secondary"} -> Int]
        BY DEF Routing, RouterInv, RouterTypes
      <3>3. /\ Router!Oldest \in Int /\ cache[n].at - LookupTimeoutMs \in Int
            /\ Router!Oldest <= cache[n].at - LookupTimeoutMs
        BY <2>3, <3>1, <3>2 DEF Router!Oldest
      <3> QED
        BY <2>3, <3>2, <3>3, ToldEarlier
    <2> QED
      BY <2>1, <2>3, <2>4
  <1> QED
    BY <1>2, <1>3

\* what a step leaves of the ledger and its histories
Settled == clock' = clock /\ hosted' = hosted /\ hostedAt' = hostedAt /\ absentAt' = absentAt

\* the cache keeps what it holds true, whatever the step remembers of it
Remembers(cached) ==
    /\ cached \in Seq(Entries) /\ OneEntryEach(cached)
    /\ \A i \in DOMAIN cached : EntryIs(cached[i])

\* a step of one request
LEMMA RequestInv ==
    ASSUME Routing, RouterInv, Settled, Remembers(cache'),
           NEW r \in Requests, NEW now \in {[pc |-> "idle"]} \cup Asks \cup Routes,
           req' = [req EXCEPT ![r] = now], now \in Asks => AskIs(now)
    PROVE  RouterInv'
  <1>1. RouterTypes /\ RouterTypes'
    BY DEF RouterInv, RouterTypes, Settled, Remembers
  <1>2. \A party \in Parties, p \in {"primary", "secondary"} : HistoryIs(party, p)'
    BY DEF RouterInv, HistoryIs, Settled
  <1>3. \A i \in DOMAIN cache' : EntryIs(cache[i])'
    BY DEF Remembers, EntryIs, Told, Settled
  <1>4. ASSUME NEW q \in Requests, req'[q] \in Asks PROVE AskIs(req'[q])
    <2>1. CASE q = r
      BY <1>1, <1>4, <2>1 DEF RouterTypes
    <2>2. CASE q # r
      <3>1. req'[q] = req[q]
        BY <1>1, <2>2 DEF RouterTypes
      <3> QED
        BY <1>4, <3>1 DEF RouterInv
    <2> QED
      BY <2>1, <2>2
  <1>5. \A q \in Requests : req'[q] \in Asks => AskIs(req[q])'
    BY <1>4 DEF AskIs, Told, Settled
  <1>6. OneEntryEach(cache')
    BY DEF Remembers
  <1> QED
    BY <1>1, <1>2, <1>3, <1>5, <1>6 DEF RouterInv, OneEntryEach

\* a request that is routed by what was known since
LEMMA RouteIs ==
    ASSUME Routing, RouterInv, Settled, Remembers(cache'),
           NEW r \in Requests, NEW party \in Parties, NEW host \in Hosts \cup {"unknown"},
           NEW failed \in BOOLEAN, Router!Route(r, party, host, failed),
           Told(party, host, IF failed THEN 0 ELSE Router!Oldest),
           failed => host = Router!Known(r, party)
    PROVE  RouterInv' /\ Router!Evidence(r) /\ \A q \in Requests : q # r => req'[q] = req[q]
  <1> DEFINE now == [pc |-> "routed", party |-> party, host |-> host, failed |-> failed,
                     to |-> IF host = "secondary" THEN "secondary" ELSE "primary"]
  <1>1. req' = [req EXCEPT ![r] = now] /\ now \in Routes
    BY DEF Router!Route, Routes
  <1>2. now \notin Asks
    BY DEF Asks
  <1>3. req \in [Requests -> {[pc |-> "idle"]} \cup Asks \cup Routes]
    BY DEF RouterInv, RouterTypes
  <1>4. /\ req'[r] = now /\ now.party = party /\ now.host = host /\ now.failed = failed
        /\ now.to = "secondary" <=> host = "secondary"
    BY <1>1, <1>3
  <1>5. \A q \in Requests : q # r => req'[q] = req[q]
    BY <1>1, <1>3
  <1> HIDE DEF now
  <1>6. RouterInv'
    BY <1>1, <1>2, RequestInv
  <1>7. Router!Evidence(r)
    BY <1>4 DEF Router!Evidence, Router!Participants, Told
  <1> QED
    BY <1>5, <1>6, <1>7

\* the steps of a request: what follows of the invariant and of the evidence
Steps(r) ==
    /\ RouterInv'
    /\ Router!Routed(r) => Router!Evidence(r)
    /\ \A q \in Requests : q # r => req'[q] = req[q]

\* a participant is asked, or what was known decides
LEMMA AskSteps ==
    ASSUME Routing, RouterInv, Settled, cache' = cache,
           NEW r \in Requests, NEW p \in {"primary", "secondary"}, NEW party \in Parties,
           NEW hit \in Hosts \cup {"unknown"}, Router!Ask(r, p, party, hit),
           Told(party, hit, 0), hit = Router!Known(r, party),
           p = "secondary" => absentAt[<<party, "primary">>] >= clock
    PROVE  Steps(r)
  <1>1. /\ Remembers(cache') /\ clock \in Nat /\ LookupTimeoutMs \in Nat
        /\ req \in [Requests -> {[pc |-> "idle"]} \cup Asks \cup Routes]
        /\ absentAt[<<party, "primary">>] \in Int
    BY DEF RouterInv, RouterTypes, Remembers, Routing
  <1>2. CASE clock < unavailableUntil[p]
    <2>1. Router!Route(r, party, hit, TRUE)
      BY <1>2 DEF Router!Ask, Router!KeepLast
    <2> QED
      BY <1>1, <2>1, RouteIs DEF Steps
  <1>3. CASE ~(clock < unavailableUntil[p])
    <2> DEFINE now == [pc |-> p, party |-> party, hit |-> hit, deadline |-> clock + LookupTimeoutMs]
    <2>1. req' = [req EXCEPT ![r] = now] /\ now \in Asks
      BY <1>1, <1>3 DEF Router!Ask, Asks
    <2>2. AskIs(now)
      BY <1>1 DEF AskIs
    <2>3. now.pc # "routed"
      OBVIOUS
    <2> HIDE DEF now
    <2>4. RouterInv'
      BY <1>1, <2>1, <2>2, RequestInv
    <2>5. ~Router!Routed(r)
      BY <1>1, <2>1, <2>3 DEF Router!Routed
    <2> QED
      BY <1>1, <2>1, <2>4, <2>5 DEF Steps
  <1> QED
    BY <1>2, <1>3

\* what a lookup knows
LEMMA AskingIs ==
    ASSUME Routing, RouterInv, NEW r \in Requests, Router!Asking(r)
    PROVE  /\ req[r] \in Asks /\ AskIs(req[r])
           /\ req[r].pc \in {"primary", "secondary"} /\ req[r].party \in Parties
           /\ req[r].hit \in Hosts \cup {"unknown"} /\ req[r].deadline \in Nat
           /\ Told(req[r].party, req[r].hit, 0)
           /\ req[r].hit = Router!Known(r, req[r].party)
  <1>1. req[r] \in {[pc |-> "idle"]} \cup Asks \cup Routes
    BY DEF RouterInv, RouterTypes
  <1>2. req[r] \in Asks
    BY <1>1 DEF Router!Asking, Router!Participants, Routes
  <1>3. AskIs(req[r])
    BY <1>2 DEF RouterInv
  <1> QED
    BY <1>2, <1>3 DEF Asks, AskIs, Router!Known

\* an answer: true now, and the primary's no at most a lookup ago
LEMMA FoundSteps ==
    ASSUME Routing, RouterInv, Settled,
           NEW r \in Requests, NEW host \in Hosts, Router!Asking(r), Router!Found(r, host),
           Told(req[r].party, host, clock - LookupTimeoutMs), Told(req[r].party, host, 0)
    PROVE  Steps(r)
  <1> DEFINE party == req[r].party
  <1>1. /\ party \in Parties /\ clock \in Nat /\ LookupTimeoutMs \in Nat /\ TtlMs \in Nat
        /\ cache \in Seq(Entries) /\ OneEntryEach(cache)
        /\ \A i \in DOMAIN cache : EntryIs(cache[i])
        /\ hostedAt \in [Parties \X {"primary", "secondary"} -> Int]
        /\ absentAt \in [Parties \X {"primary", "secondary"} -> Int]
    BY AskingIs DEF RouterInv, RouterTypes, Routing
  <1>2. Router!Remember(party, host) /\ Router!Route(r, party, host, FALSE)
    BY DEF Router!Found
  <1> HIDE DEF party
  <1>3. /\ cache' \in Seq(Entries) /\ OneEntryEach(cache')
        /\ \A i \in DOMAIN cache' :
             \/ cache'[i] = [party |-> party, host |-> host, at |-> clock]
             \/ \E j \in DOMAIN cache : cache'[i] = cache[j]
    BY <1>1, <1>2, RememberIs
  <1>4. EntryIs([party |-> party, host |-> host, at |-> clock])
    BY <1>1 DEF EntryIs, party
  <1>5. Remembers(cache')
    BY <1>1, <1>3, <1>4 DEF Remembers
  <1>6. /\ Router!Oldest \in Int /\ clock - LookupTimeoutMs \in Int
        /\ Router!Oldest <= clock - LookupTimeoutMs
    BY <1>1 DEF Router!Oldest
  <1>7. Told(party, host, Router!Oldest)
    BY <1>1, <1>6, ToldEarlier DEF party
  <1> QED
    BY <1>1, <1>2, <1>5, <1>7, RouteIs DEF Steps

\* a request that comes
LEMMA ResolveSteps ==
    ASSUME Routing, RouterInv, NEW r \in Requests, NEW party \in Parties, Router!Resolve(r, party)
    PROVE  Steps(r)
  <1>1. Settled /\ cache' = cache /\ req[r] = [pc |-> "idle"]
    BY DEF Router!Resolve, Router!ledger, Settled, Router!Idle
  <1>2. Remembers(cache')
    BY <1>1 DEF RouterInv, RouterTypes, Remembers
  <1>3. Router!Known(r, party) = Router!Remembered(party)
    BY <1>1 DEF Router!Known, Router!Asking, Router!Participants
  <1>4. CASE Router!IsFresh(party)
    BY <1>1, <1>2, <1>4, RememberedIs, RouteIs DEF Router!Resolve, Steps
  <1>5. CASE ~Router!IsFresh(party)
    BY <1>1, <1>3, <1>5, RememberedIs, AskSteps DEF Router!Resolve
  <1> QED
    BY <1>4, <1>5

\* an answer: the participant hosts the party
LEMMA YesSteps == ASSUME Routing, RouterInv, NEW r \in Requests, Router!Yes(r) PROVE Steps(r)
  <1> DEFINE party == req[r].party
             p == req[r].pc
  <1>1. /\ Settled /\ Router!Asking(r) /\ Router!Found(r, p) /\ p \in hosted[party]
    BY DEF Router!Yes, Router!ledger, Settled
  <1>2. /\ party \in Parties /\ p \in {"primary", "secondary"} /\ AskIs(req[r])
        /\ req[r].deadline \in Nat
    BY <1>1, AskingIs
  <1>3. /\ hostedAt[<<party, p>>] = clock /\ clock \in Nat /\ LookupTimeoutMs \in Nat
        /\ absentAt[<<party, "primary">>] \in Int
    BY <1>1, <1>2 DEF RouterInv, RouterTypes, HistoryIs, Routing
  <1>4. p = "secondary" => /\ absentAt[<<party, "primary">>] >= clock - LookupTimeoutMs
                           /\ absentAt[<<party, "primary">>] >= 0
    BY <1>2, <1>3 DEF AskIs
  <1> HIDE DEF p, party
  <1>5. Told(party, p, clock - LookupTimeoutMs) /\ Told(party, p, 0) /\ p \in Hosts
    BY <1>2, <1>3, <1>4 DEF Told, Hosts
  <1> QED
    BY <1>1, <1>5, FoundSteps DEF party

\* an answer: it does not
LEMMA NoSteps == ASSUME Routing, RouterInv, NEW r \in Requests, Router!No(r) PROVE Steps(r)
  <1> DEFINE party == req[r].party
             p == req[r].pc
  <1>1. /\ Settled /\ Router!Asking(r) /\ p \notin hosted[party]
    BY DEF Router!No, Router!ledger, Settled
  <1>2. /\ party \in Parties /\ p \in {"primary", "secondary"} /\ AskIs(req[r])
        /\ req[r].deadline \in Nat /\ req[r].hit \in Hosts \cup {"unknown"}
        /\ Told(party, req[r].hit, 0) /\ req[r].hit = Router!Known(r, party)
    BY <1>1, AskingIs
  <1>3. /\ absentAt[<<party, p>>] = clock /\ clock \in Nat /\ LookupTimeoutMs \in Nat
        /\ absentAt[<<party, "primary">>] \in Int
    BY <1>1, <1>2 DEF RouterInv, RouterTypes, HistoryIs, Routing
  <1>4. CASE p = "primary"
    <2>1. Router!Ask(r, "secondary", party, req[r].hit) /\ cache' = cache
      BY <1>4 DEF Router!No
    <2>2. absentAt[<<party, "primary">>] >= clock
      BY <1>3, <1>4
    <2> HIDE DEF p, party
    <2> QED
      BY <1>1, <1>2, <2>1, <2>2, AskSteps
  <1>5. CASE p = "secondary"
    <2>1. Router!Found(r, "none")
      BY <1>5 DEF Router!No
    <2>2. /\ absentAt[<<party, "primary">>] >= clock - LookupTimeoutMs
          /\ absentAt[<<party, "primary">>] >= 0
      BY <1>2, <1>3, <1>5 DEF AskIs
    <2> HIDE DEF p, party
    <2>3. /\ Told(party, "none", clock - LookupTimeoutMs) /\ Told(party, "none", 0)
          /\ "none" \in Hosts
      BY <1>3, <1>5, <2>2 DEF Told, Hosts
    <2> QED
      BY <1>1, <2>1, <2>3, FoundSteps DEF party
  <1> QED
    BY <1>2, <1>4, <1>5

\* no answer
LEMMA FailsSteps ==
    ASSUME Routing, RouterInv, NEW r \in Requests, NEW unavailable, Router!Fails(r, unavailable)
    PROVE  Steps(r)
  <1>1. /\ Settled /\ Router!Asking(r) /\ cache' = cache
        /\ Router!Route(r, req[r].party, req[r].hit, TRUE)
    BY DEF Router!Fails, Router!ledger, Settled, Router!KeepLast
  <1>2. Remembers(cache')
    BY <1>1 DEF RouterInv, RouterTypes, Remembers
  <1> QED
    BY <1>1, <1>2, AskingIs, RouteIs DEF Steps

\* a request that is over
LEMMA DoneSteps == ASSUME Routing, RouterInv, NEW r \in Requests, Router!Done(r) PROVE Steps(r)
  <1> DEFINE now == [pc |-> "idle"]
  <1>1. Settled /\ cache' = cache /\ req' = [req EXCEPT ![r] = now] /\ req[r].pc = "routed"
    BY DEF Router!Done, Router!ledger, Settled, Router!Idle
  <1>2. Remembers(cache') /\ req \in [Requests -> {now} \cup Asks \cup Routes]
    BY <1>1 DEF RouterInv, RouterTypes, Remembers
  <1>3. now \notin Asks
    BY DEF Asks
  <1> HIDE DEF now
  <1>4. RouterInv'
    BY <1>1, <1>2, <1>3, RequestInv DEF now
  <1> QED
    BY <1>1, <1>2, <1>4 DEF Steps, Router!Routed

\* what was known is still known when the histories have grown
LEMMA HistoryGrows ==
    ASSUME Routing, RouterInv, RouterTypes', cache' = cache, req' = req, clock <= clock',
           \A x \in Parties \X {"primary", "secondary"} :
             hostedAt[x] <= hostedAt'[x] /\ absentAt[x] <= absentAt'[x],
           \A party \in Parties, p \in {"primary", "secondary"} : HistoryIs(party, p)',
           \A r \in Requests : req[r] \in Asks => clock' <= req[r].deadline
    PROVE  RouterInv'
  <1>1. /\ hostedAt \in [Parties \X {"primary", "secondary"} -> Int]
        /\ absentAt \in [Parties \X {"primary", "secondary"} -> Int]
        /\ hostedAt' \in [Parties \X {"primary", "secondary"} -> Int]
        /\ absentAt' \in [Parties \X {"primary", "secondary"} -> Int]
        /\ clock \in Nat /\ clock' \in Nat /\ LookupTimeoutMs \in Nat
        /\ cache \in Seq(Entries) /\ OneEntryEach(cache)
        /\ \A i \in DOMAIN cache : EntryIs(cache[i])
    BY DEF RouterInv, RouterTypes, Routing
  <1>2. ASSUME NEW party \in Parties, NEW p \in {"primary", "secondary"}
        PROVE  /\ hostedAt[<<party, p>>] \in Int /\ hostedAt'[<<party, p>>] \in Int
               /\ absentAt[<<party, p>>] \in Int /\ absentAt'[<<party, p>>] \in Int
               /\ hostedAt[<<party, p>>] <= hostedAt'[<<party, p>>]
               /\ absentAt[<<party, p>>] <= absentAt'[<<party, p>>]
    BY <1>1
  <1>3. ASSUME NEW party \in Parties, NEW host, NEW since \in Int, Told(party, host, since)
        PROVE  Told(party, host, since)'
    BY <1>2, <1>3 DEF Told
  <1>4. ASSUME NEW i \in DOMAIN cache PROVE EntryIs(cache[i])'
    <2>1. cache[i] \in Entries
      BY <1>1, LenProperties, ElementOfSeq
    <2>2. /\ cache[i].party \in Parties /\ cache[i].at \in Nat /\ cache[i].at - LookupTimeoutMs \in Int
          /\ EntryIs(cache[i])
      BY <1>1, <2>1 DEF Entries
    <2>3. /\ Told(cache[i].party, cache[i].host, cache[i].at - LookupTimeoutMs)'
          /\ Told(cache[i].party, cache[i].host, 0)'
      BY <1>3, <2>2 DEF EntryIs
    <2>4. cache[i].at <= clock'
      BY <1>1, <2>2 DEF EntryIs
    <2> QED
      BY <2>3, <2>4 DEF EntryIs
  <1>5. ASSUME NEW r \in Requests, req[r] \in Asks PROVE AskIs(req[r])'
    <2>1. /\ req[r].party \in Parties /\ req[r].deadline \in Nat /\ AskIs(req[r])
          /\ clock' <= req[r].deadline
      BY <1>5 DEF Asks, RouterInv
    <2>2. Told(req[r].party, req[r].hit, 0)'
      BY <1>3, <2>1 DEF AskIs
    <2>3. /\ absentAt[<<req[r].party, "primary">>] \in Int
          /\ absentAt'[<<req[r].party, "primary">>] \in Int
          /\ absentAt[<<req[r].party, "primary">>] <= absentAt'[<<req[r].party, "primary">>]
      BY <1>2, <2>1
    <2>4. req[r].pc = "secondary" =>
            /\ absentAt'[<<req[r].party, "primary">>] >= req[r].deadline - LookupTimeoutMs
            /\ absentAt'[<<req[r].party, "primary">>] >= 0
      <3>1. req[r].pc = "secondary" =>
              /\ absentAt[<<req[r].party, "primary">>] >= req[r].deadline - LookupTimeoutMs
              /\ absentAt[<<req[r].party, "primary">>] >= 0
        BY <2>1 DEF AskIs
      <3>2. req[r].deadline - LookupTimeoutMs \in Int
        BY <1>1, <2>1
      <3> QED
        BY <2>3, <3>1, <3>2
    <2> QED
      BY <2>1, <2>2, <2>4 DEF AskIs
  <1> QED
    BY <1>1, <1>4, <1>5 DEF RouterInv

\* time passes
LEMMA RouterAged == ASSUME Routing, RouterInv, Router!Tick PROVE RouterInv'
  <1>1. /\ clock \in Nat /\ clock' = clock + 1 /\ cache' = cache /\ req' = req /\ hosted' = hosted
        /\ hostedAt' = [x \in Parties \X {"primary", "secondary"} |->
                          IF x[2] \in hosted[x[1]] THEN clock' ELSE hostedAt[x]]
        /\ absentAt' = [x \in Parties \X {"primary", "secondary"} |->
                          IF x[2] \in hosted[x[1]] THEN absentAt[x] ELSE clock']
        /\ hostedAt \in [Parties \X {"primary", "secondary"} -> Int]
        /\ absentAt \in [Parties \X {"primary", "secondary"} -> Int]
    BY DEF Router!Tick, Router!ledger, Router!Participants, RouterInv, RouterTypes
  <1>2. RouterTypes'
    BY <1>1 DEF RouterInv, RouterTypes
  <1>3. ASSUME NEW party \in Parties, NEW p \in {"primary", "secondary"} PROVE HistoryIs(party, p)'
    <2>1. HistoryIs(party, p) /\ <<party, p>> \in Parties \X {"primary", "secondary"}
      BY DEF RouterInv
    <2>2. /\ hostedAt'[<<party, p>>] = IF p \in hosted[party] THEN clock' ELSE hostedAt[<<party, p>>]
          /\ absentAt'[<<party, p>>] = IF p \in hosted[party] THEN absentAt[<<party, p>>] ELSE clock'
      BY <1>1, <2>1
    <2>3. hostedAt[<<party, p>>] \in Int /\ absentAt[<<party, p>>] \in Int
      BY <1>1, <2>1
    <2> QED
      BY <1>1, <2>1, <2>2, <2>3 DEF HistoryIs
  <1>4. ASSUME NEW x \in Parties \X {"primary", "secondary"}
        PROVE  hostedAt[x] <= hostedAt'[x] /\ absentAt[x] <= absentAt'[x]
    <2>1. HistoryIs(x[1], x[2]) /\ x = <<x[1], x[2]>>
      BY DEF RouterInv
    <2>2. hostedAt[x] <= clock /\ absentAt[x] <= clock
      BY <2>1 DEF HistoryIs
    <2>3. /\ hostedAt[x] \in Int /\ absentAt[x] \in Int
          /\ hostedAt'[x] \in {hostedAt[x], clock'} /\ absentAt'[x] \in {absentAt[x], clock'}
      BY <1>1
    <2> QED
      BY <1>1, <2>2, <2>3
  <1>5. ASSUME NEW r \in Requests, req[r] \in Asks PROVE clock' <= req[r].deadline
    <2>1. clock < req[r].deadline /\ req[r].deadline \in Nat
      BY <1>5 DEF Router!Tick, Router!Asking, Router!Participants, Asks
    <2> QED
      BY <1>1, <2>1
  <1>6. clock <= clock'
    BY <1>1
  <1> QED
    BY <1>1, <1>2, <1>3, <1>4, <1>5, <1>6, HistoryGrows

\* a party moves
LEMMA RouterMoved ==
    ASSUME Routing, RouterInv, NEW party \in Parties, NEW p \in {"primary", "secondary"},
           Router!Move(party, p)
    PROVE  RouterInv'
  <1>1. /\ clock \in Nat /\ clock' = clock /\ cache' = cache /\ req' = req
        /\ hosted' = [hosted EXCEPT ![party] = IF p \in @ THEN @ \ {p} ELSE @ \cup {p}]
        /\ hosted \in [Parties -> SUBSET {"primary", "secondary"}]
        /\ hostedAt \in [Parties \X {"primary", "secondary"} -> Int]
        /\ absentAt \in [Parties \X {"primary", "secondary"} -> Int]
    BY DEF Router!Move, RouterInv, RouterTypes
  <1>2. /\ p \in hosted[party] => /\ absentAt' = [absentAt EXCEPT ![<<party, p>>] = clock]
                                  /\ hostedAt' = hostedAt
        /\ p \notin hosted[party] => /\ hostedAt' = [hostedAt EXCEPT ![<<party, p>>] = clock]
                                     /\ absentAt' = absentAt
    BY DEF Router!Move
  <1>3. RouterTypes'
    <2>1. hosted' \in [Parties -> SUBSET {"primary", "secondary"}]
      BY <1>1
    <2>2. hostedAt' \in [Parties \X {"primary", "secondary"} -> Int]
      BY <1>1, <1>2
    <2>3. absentAt' \in [Parties \X {"primary", "secondary"} -> Int]
      BY <1>1, <1>2
    <2> QED
      BY <1>1, <2>1, <2>2, <2>3 DEF RouterInv, RouterTypes
  <1>4. ASSUME NEW other \in Parties, NEW q \in {"primary", "secondary"} PROVE HistoryIs(other, q)'
    <2>1. HistoryIs(other, q)
      BY DEF RouterInv
    <2>2. CASE other = party /\ q = p
      BY <1>1, <1>2, <2>1, <2>2 DEF HistoryIs
    <2>3. CASE ~(other = party /\ q = p)
      <3>1. /\ <<other, q>> # <<party, p>>
            /\ hostedAt'[<<other, q>>] = hostedAt[<<other, q>>]
            /\ absentAt'[<<other, q>>] = absentAt[<<other, q>>]
        BY <1>1, <1>2, <2>3
      <3>2. q \in hosted'[other] <=> q \in hosted[other]
        BY <1>1, <2>3
      <3> QED
        BY <1>1, <2>1, <3>1, <3>2 DEF HistoryIs
    <2> QED
      BY <2>2, <2>3
  <1>5. ASSUME NEW x \in Parties \X {"primary", "secondary"}
        PROVE  hostedAt[x] <= hostedAt'[x] /\ absentAt[x] <= absentAt'[x]
    <2>1. HistoryIs(x[1], x[2]) /\ x = <<x[1], x[2]>>
      BY DEF RouterInv
    <2> QED
      BY <1>1, <1>2, <2>1 DEF HistoryIs
  <1>6. ASSUME NEW r \in Requests, req[r] \in Asks PROVE clock' <= req[r].deadline
    BY <1>1, <1>6 DEF RouterInv, AskIs
  <1>7. clock <= clock'
    BY <1>1
  <1> QED
    BY <1>1, <1>3, <1>4, <1>5, <1>6, <1>7, HistoryGrows

\* the invariant at the start
LEMMA RouterAtFirst == ASSUME Routing, Router!Init PROVE RouterInv
  <1>1. /\ clock = 0 /\ cache = << >> /\ req = [r \in Requests |-> [pc |-> "idle"]]
        /\ hosted \in [Parties -> SUBSET {"primary", "secondary"}]
        /\ hostedAt = [x \in Parties \X {"primary", "secondary"} |->
                         IF x[2] \in hosted[x[1]] THEN 0 ELSE -1]
        /\ absentAt = [x \in Parties \X {"primary", "secondary"} |->
                         IF x[2] \in hosted[x[1]] THEN -1 ELSE 0]
    BY DEF Router!Init, Router!Participants, Router!Idle
  <1>2. << >> \in Seq(Entries) /\ DOMAIN << >> = {}
    BY EmptySeq
  <1>3. RouterTypes
    BY <1>1, <1>2 DEF RouterTypes
  <1>4. \A party \in Parties, p \in {"primary", "secondary"} : HistoryIs(party, p)
    BY <1>1 DEF HistoryIs
  <1>5. \A r \in Requests : req[r] \notin Asks
    BY <1>1 DEF Asks
  <1> QED
    BY <1>1, <1>2, <1>3, <1>4, <1>5 DEF RouterInv, OneEntryEach

\* a step keeps the invariant, and routes a request by evidence
LEMMA RouterNext ==
    ASSUME Routing, RouterInv, [Router!Next]_Router!vars
    PROVE  RouterInv' /\ \A r \in Requests : Router!Routed(r) => Router!Evidence(r)
  <1>1. ASSUME NEW r \in Requests, Steps(r)
        PROVE  RouterInv' /\ \A q \in Requests : Router!Routed(q) => Router!Evidence(q)
    BY <1>1 DEF Steps, Router!Routed
  <1>2. ASSUME NEW r \in Requests, NEW party \in Parties, Router!Resolve(r, party) PROVE Steps(r)
    BY <1>2, ResolveSteps
  <1>3. ASSUME NEW r \in Requests, Router!Yes(r) PROVE Steps(r)
    BY <1>3, YesSteps
  <1>4. ASSUME NEW r \in Requests, Router!No(r) PROVE Steps(r)
    BY <1>4, NoSteps
  <1>5. ASSUME NEW r \in Requests, Router!Done(r) PROVE Steps(r)
    BY <1>5, DoneSteps
  <1>6. ASSUME NEW r \in Requests, NEW unavailable, Router!Fails(r, unavailable) PROVE Steps(r)
    BY <1>6, FailsSteps
  <1>7. ASSUME NEW party \in Parties, NEW p \in {"primary", "secondary"}, Router!Move(party, p)
        PROVE  RouterInv' /\ req' = req
    BY <1>7, RouterMoved DEF Router!Move
  <1>8. ASSUME Router!Tick PROVE RouterInv' /\ req' = req
    BY <1>8, RouterAged DEF Router!Tick
  <1>9. ASSUME UNCHANGED Router!vars PROVE RouterInv' /\ req' = req
    BY <1>9 DEF Router!vars, Router!ledger, RouterInv, RouterTypes, OneEntryEach, HistoryIs, EntryIs,
                AskIs, Told
  <1>10. ASSUME RouterInv', req' = req
         PROVE  RouterInv' /\ \A q \in Requests : Router!Routed(q) => Router!Evidence(q)
    BY <1>10 DEF Router!Routed
  <1> QED
    BY <1>1, <1>2, <1>3, <1>4, <1>5, <1>6, <1>7, <1>8, <1>9, <1>10
       DEF Router!Next, Router!Participants

(***************************************************************************)
(* A request goes where the ledger said, within an entry's life and a      *)
(* lookup; when a participant fails to answer, what was known of the party *)
(* as the request came decides, and nobody is sent past a primary that has *)
(* always hosted him.                                                      *)
(***************************************************************************)
THEOREM RoutesByEvidence == ASSUME Routing PROVE Router!Spec => Router!RoutedByEvidence
  <1>1. Router!Init => RouterInv
    BY RouterAtFirst
  <1>2. RouterInv /\ [Router!Next]_Router!vars => RouterInv'
    BY RouterNext
  <1>3. RouterInv /\ [Router!Next]_Router!vars =>
          [\A r \in Requests : Router!Routed(r) => Router!Evidence(r)]_Router!vars
    BY RouterNext
  <1> QED
    BY <1>1, <1>2, <1>3, PTL DEF Router!Spec, Router!RoutedByEvidence

-----------------------------------------------------------------------------
(* The budget of wasted prepares.                                          *)

\* finitely many calls, and a pair is not the absence of one
Budgeted ==
    /\ IsFiniteSet(Calls) /\ Calls # {}
    /\ << >> \notin Pairs
    /\ WasteMax \in Int /\ WindowMs \in Nat \ {0} /\ MaxTime \in Nat

\* a pair's bucket, and what is spent of it
Budget(pair) == TimesOf(waste, pair)
SpentOf(pair) == Len(Prune(Budget(pair), clock, WindowMs))
Flying(pair) == {c \in Calls : prepare[c] = pair}

\* the calls that will be refused without a charge, if they are refused now
Held(pair) == IF SpentOf(pair) < WasteMax THEN 0 ELSE Cardinality(Flying(pair))

\* of a time, the charges since and the wasted calls since: a charge is a wasted
\* call, and while no other is charged each call but the one charged last is
\* wasted once at most
Matched(charges, wastes, held) ==
    /\ charges <= wastes
    /\ wastes + held <= Cardinality(Calls) * charges + Cardinality(Calls) - 1

BudgetTypes ==
    /\ clock \in Clock
    /\ IsLimiter(waste, Clock)
    /\ prepare \in [Calls -> Pairs \cup {<< >>}]
    /\ wasted \in [Pairs -> Seq(Clock)]

BudgetHolds(pair) ==
    /\ InOrder(Budget(pair), clock) /\ Len(Budget(pair)) <= WasteMax
    /\ InOrder(wasted[pair], clock)
    /\ \A i \in DOMAIN wasted[pair] : wasted[pair][i] > clock - WindowMs
    /\ \A k \in Int : k >= clock - WindowMs =>
         Matched(Count(Budget(pair), k), Count(wasted[pair], k), Held(pair))

WasteInv == BudgetTypes /\ (WasteMax > 0 => \A pair \in Pairs : BudgetHolds(pair))

\* the instance has the operators of Limits
LEMMA WasteLimits ==
    /\ \A times, now, windowMs : Waste!Prune(times, now, windowMs) = Prune(times, now, windowMs)
    /\ \A l, key : Waste!TimesOf(l, key) = TimesOf(l, key)
    /\ \A l, entries, now, windowMs :
         Waste!AllowKeys(l, entries, now, windowMs) = AllowKeys(l, entries, now, windowMs)
    /\ \A windowMs : Waste!NewLimiter(windowMs) = NewLimiter(windowMs)
  <1>1. \A times, now, windowMs : Waste!Prune(times, now, windowMs) = Prune(times, now, windowMs)
    BY Zenon DEF Waste!Prune, Prune, Waste!Aged, Aged
  <1>2. \A l, key : Waste!TimesOf(l, key) = TimesOf(l, key)
    BY Zenon DEF Waste!TimesOf, TimesOf
  <1>3. \A l, entries, now, windowMs :
          Waste!AllowKeys(l, entries, now, windowMs) = AllowKeys(l, entries, now, windowMs)
    <2> SUFFICES ASSUME NEW l, NEW entries, NEW now, NEW windowMs
                 PROVE  Waste!AllowKeys(l, entries, now, windowMs) = AllowKeys(l, entries, now, windowMs)
      OBVIOUS
    <2> QED
      BY Zenon DEF Waste!AllowKeys, AllowKeys, Waste!Sweep, Sweep, Waste!Prune, Prune, Waste!Aged, Aged,
                   Waste!TimesOf, TimesOf
  <1>4. \A windowMs : Waste!NewLimiter(windowMs) = NewLimiter(windowMs)
    BY Zenon DEF Waste!NewLimiter, NewLimiter
  <1> QED
    BY <1>1, <1>2, <1>3, <1>4

\* and of FiniteSets
LEMMA WasteCounts == \A S : Waste!Cardinality(S) = Cardinality(S)
  BY Zenon DEF Waste!Cardinality, Cardinality, Waste!IsFiniteSet, IsFiniteSet

\* what the invariant speaks of is well typed
LEMMA BudgetsAre ==
    ASSUME Budgeted, BudgetTypes, NEW pair \in Pairs
    PROVE  /\ Budget(pair) \in Seq(Clock) /\ Budget(pair) \in Seq(Int)
           /\ wasted[pair] \in Seq(Clock) /\ wasted[pair] \in Seq(Int)
           /\ clock \in Int /\ clock \in Clock /\ Clock \subseteq Int /\ WindowMs \in Int
           /\ Cardinality(Calls) \in Nat /\ Cardinality(Calls) > 0
           /\ IsFiniteSet(Flying(pair)) /\ Cardinality(Flying(pair)) \in Nat
           /\ Cardinality(Flying(pair)) <= Cardinality(Calls)
           /\ SpentOf(pair) \in Nat /\ Held(pair) \in Nat
           /\ InOrder(Budget(pair), clock) => SpentOf(pair) = Count(Budget(pair), clock - WindowMs)
  <1>1. /\ Clock \subseteq Int /\ clock \in Clock /\ clock \in Int /\ WindowMs \in Int
        /\ IsLimiter(waste, Clock)
    BY DEF Budgeted, BudgetTypes, Clock
  <1>2. Budget(pair) \in Seq(Clock) /\ wasted[pair] \in Seq(Clock)
    BY <1>1, TimesAre DEF BudgetTypes, Budget
  <1>3. Budget(pair) \in Seq(Int) /\ wasted[pair] \in Seq(Int)
    BY <1>1, <1>2, SeqMonotonic
  <1>4. Cardinality(Calls) \in Nat /\ Cardinality(Calls) > 0
    BY FS_CardinalityType, FS_EmptySet DEF Budgeted
  <1>5. /\ IsFiniteSet(Flying(pair)) /\ Cardinality(Flying(pair)) <= Cardinality(Calls)
    BY FS_Subset DEF Budgeted, Flying
  <1>6. Cardinality(Flying(pair)) \in Nat
    BY <1>5, FS_CardinalityType
  <1>7. SpentOf(pair) \in Nat
    BY <1>1, <1>3, PruneIs, LenProperties DEF SpentOf
  <1>8. Held(pair) \in Nat
    BY <1>6 DEF Held
  <1>9. InOrder(Budget(pair), clock) => SpentOf(pair) = Count(Budget(pair), clock - WindowMs)
    BY <1>1, <1>3, PrunedIsLater DEF SpentOf
  <1> QED
    BY <1>1, <1>2, <1>3, <1>4, <1>5, <1>6, <1>7, <1>8, <1>9

\* the invariant gives the property
LEMMA WasteGives == ASSUME Budgeted, WasteInv PROVE Waste!WasteIsOnesOwn
  <1> SUFFICES ASSUME WasteMax > 0, NEW pair \in Pairs
               PROVE  /\ ~Waste!Peek(pair) => Waste!Wasted(pair) >= WasteMax
                      /\ Waste!Wasted(pair) < (WasteMax + 1) * Cardinality(Calls)
    BY WasteCounts DEF Waste!WasteIsOnesOwn
  <1>1. BudgetHolds(pair) /\ BudgetTypes
    BY DEF WasteInv
  <1>2. Waste!Wasted(pair) = Len(wasted[pair])
    BY DEF Waste!Wasted
  <1>3. ~Waste!Peek(pair) => ~(SpentOf(pair) < WasteMax)
    BY WasteLimits DEF Waste!Peek, SpentOf, Budget
  <1> DEFINE cutoff == clock - WindowMs
             m == Count(Budget(pair), cutoff)
             n == Cardinality(Calls)
  <1>4. /\ Budget(pair) \in Seq(Int) /\ wasted[pair] \in Seq(Int) /\ cutoff \in Int
        /\ n \in Nat /\ n > 0 /\ Held(pair) \in Nat /\ SpentOf(pair) \in Nat
        /\ SpentOf(pair) = m
    BY <1>1, BudgetsAre DEF BudgetHolds
  <1> HIDE DEF cutoff
  <1>5. Count(wasted[pair], cutoff) = Len(wasted[pair])
    BY <1>1, <1>4, CountIs DEF BudgetHolds, cutoff
  <1>6. m \in Nat /\ m <= Len(Budget(pair))
    BY <1>4, CountIs
  <1> HIDE DEF m
  <1>7. Matched(m, Len(wasted[pair]), Held(pair))
    BY <1>1, <1>4, <1>5 DEF BudgetHolds, m, cutoff
  <1>8. Len(wasted[pair]) \in Nat /\ Len(Budget(pair)) \in Nat /\ WasteMax \in Int
    BY <1>4, LenProperties DEF Budgeted
  <1>9. m <= WasteMax /\ m <= Len(wasted[pair]) /\ Len(wasted[pair]) <= n * m + n - 1
    BY <1>1, <1>4, <1>6, <1>7, <1>8 DEF BudgetHolds, Matched
  <1> HIDE DEF n
  <1> DEFINE p == n * m
             q == n * WasteMax
             r == (WasteMax + 1) * n
  <1>10. p <= q /\ r = q + n
    BY <1>4, <1>6, <1>8, <1>9
  <1>11. p \in Int /\ q \in Int
    BY <1>4, <1>6, <1>8
  <1> HIDE DEF p, q, r
  <1>12. Len(wasted[pair]) < r
    <2>1. Len(wasted[pair]) <= p + n - 1
      BY <1>9 DEF p
    <2> QED
      BY <1>4, <1>8, <1>10, <1>11, <2>1
  <1>13. ~Waste!Peek(pair) => Len(wasted[pair]) >= WasteMax
    BY <1>3, <1>4, <1>6, <1>8, <1>9
  <1> QED
    BY <1>2, <1>12, <1>13 DEF n, r

\* the invariant at the start
LEMMA WasteAtFirst == ASSUME Budgeted, Waste!Init PROVE WasteInv
  <1>1. /\ clock = 0 /\ waste = NewLimiter(WindowMs)
        /\ prepare = [c \in Calls |-> << >>] /\ wasted = [pair \in Pairs |-> << >>]
    BY WasteLimits DEF Waste!Init
  <1>2. << >> \in Seq(Clock) /\ Len(<< >>) = 0 /\ DOMAIN << >> = {}
    BY EmptySeq
  <1>3. << >> \in [{} -> Seq(Clock)]
    OBVIOUS
  <1>4. IsLimiter(waste, Clock) /\ waste.perKey = << >>
    BY <1>1, <1>2, <1>3 DEF NewLimiter, IsLimiter, Budgeted
  <1>5. BudgetTypes
    BY <1>1, <1>2, <1>4 DEF BudgetTypes, Budgeted, Clock
  <1>6. ASSUME NEW pair \in Pairs, WasteMax > 0 PROVE BudgetHolds(pair)
    <2>1. Budget(pair) = << >> /\ wasted[pair] = << >>
      BY <1>1, <1>2, <1>4 DEF Budget, TimesOf
    <2>2. \A now : InOrder(<< >>, now)
      BY <1>2 DEF InOrder
    <2>3. \A k : Count(<< >>, k) = 0
      BY <1>2, FS_EmptySet DEF Count, Later
    <2>4. Flying(pair) = {}
      BY <1>1 DEF Flying, Budgeted
    <2>5. Held(pair) = 0
      BY <2>4, FS_EmptySet DEF Held
    <2>6. Cardinality(Calls) \in Nat /\ Cardinality(Calls) > 0
      BY <1>5, BudgetsAre
    <2>7. Matched(0, 0, 0)
      BY <2>6 DEF Matched
    <2> QED
      BY <1>2, <1>6, <2>1, <2>2, <2>3, <2>5, <2>7 DEF BudgetHolds, Budgeted
  <1> QED
    BY <1>5, <1>6 DEF WasteInv

\* less is held, of what was matched
LEMMA MatchedLess ==
    ASSUME NEW m \in Nat, NEW w \in Nat, NEW h \in Nat, NEW held \in Nat, held <= h,
           Cardinality(Calls) \in Nat, Matched(m, w, h)
    PROVE  Matched(m, w, held)
  <1> DEFINE n == Cardinality(Calls)
             p == n * m
  <1>1. p \in Int /\ n \in Nat
    OBVIOUS
  <1>2. m <= w /\ w + h <= p + n - 1
    BY DEF Matched
  <1> HIDE DEF p, n
  <1>3. w + held <= p + n - 1
    BY <1>1, <1>2
  <1> QED
    BY <1>2, <1>3 DEF Matched, p, n

\* a call is charged: of those in flight all but this one may be wasted uncharged
LEMMA MatchedCharge ==
    ASSUME NEW m \in Nat, NEW w \in Nat, NEW held \in Nat,
           Cardinality(Calls) \in Nat, held <= Cardinality(Calls) - 1, Matched(m, w, 0)
    PROVE  Matched(m + 1, w + 1, held)
  <1> DEFINE n == Cardinality(Calls)
             p == n * m
             p1 == n * (m + 1)
  <1>1. p \in Int /\ n \in Nat /\ p1 = p + n
    OBVIOUS
  <1>2. m <= w /\ w + 0 <= p + n - 1 /\ held <= n - 1
    BY DEF Matched
  <1> HIDE DEF p, p1, n
  <1>3. m + 1 <= w + 1 /\ w + 1 + held <= p1 + n - 1
    BY <1>1, <1>2
  <1> QED
    BY <1>3 DEF Matched, p1, n

\* a call is wasted uncharged, and no longer in flight
LEMMA MatchedWaste ==
    ASSUME NEW m \in Nat, NEW v \in Nat, NEW w \in {v, v + 1}, NEW h \in Nat, NEW held \in Nat,
           Cardinality(Calls) \in Nat, held <= h - 1, Matched(m, v, h)
    PROVE  Matched(m, w, held)
  <1> DEFINE n == Cardinality(Calls)
             p == n * m
  <1>1. p \in Int /\ n \in Nat
    OBVIOUS
  <1>2. m <= v /\ v + h <= p + n - 1
    BY DEF Matched
  <1> HIDE DEF p, n
  <1>3. CASE w = v
    BY <1>1, <1>2, <1>3 DEF Matched, p, n
  <1>4. CASE w = v + 1
    <2>1. m <= w /\ w + held <= p + n - 1
      BY <1>1, <1>2, <1>4
    <2> QED
      BY <2>1 DEF Matched, p, n
  <1> QED
    BY <1>3, <1>4

\* a pair that is charged nothing, and wastes nothing
LEMMA BudgetKept ==
    ASSUME Budgeted, WasteMax > 0, BudgetTypes, BudgetTypes',
           NEW pair \in Pairs, BudgetHolds(pair),
           clock' = clock, wasted'[pair] = wasted[pair],
           Budget(pair)' \in {Budget(pair), Prune(Budget(pair), clock, WindowMs)},
           SpentOf(pair) < WasteMax \/ Flying(pair)' \subseteq Flying(pair)
    PROVE  BudgetHolds(pair)'
  <1>1. /\ Budget(pair) \in Seq(Int) /\ clock \in Int /\ WindowMs \in Int
        /\ wasted[pair] \in Seq(Int)
        /\ Cardinality(Calls) \in Nat
        /\ IsFiniteSet(Flying(pair)) /\ Cardinality(Flying(pair)) \in Nat
        /\ Held(pair) \in Nat /\ SpentOf(pair) \in Nat
        /\ InOrder(Budget(pair), clock) /\ Len(Budget(pair)) <= WasteMax
        /\ SpentOf(pair) = Count(Budget(pair), clock - WindowMs)
    BY BudgetsAre DEF BudgetHolds
  <1> DEFINE left == Prune(Budget(pair), clock, WindowMs)
  <1>2. /\ left \in Seq(Int) /\ InOrder(left, clock) /\ Len(left) <= Len(Budget(pair))
    BY <1>1, PrunedIsYoung
  <1>3. ASSUME NEW k \in Int, k >= clock - WindowMs PROVE Count(left, k) = Count(Budget(pair), k)
    BY <1>1, <1>3, CountPruned
  <1> HIDE DEF left
  <1>4. /\ Budget(pair)' \in Seq(Int) /\ InOrder(Budget(pair)', clock)
        /\ Len(Budget(pair)') <= WasteMax
        /\ \A k \in Int : k >= clock - WindowMs => Count(Budget(pair)', k) = Count(Budget(pair), k)
    <2>1. Budget(pair)' = Budget(pair) \/ Budget(pair)' = left
      BY DEF left
    <2>2. Len(left) \in Nat /\ Len(Budget(pair)) \in Nat /\ WasteMax \in Int
      BY <1>1, <1>2, LenProperties DEF Budgeted
    <2> QED
      BY <1>1, <1>2, <1>3, <2>1, <2>2
  <1>5. SpentOf(pair)' = SpentOf(pair)
    <2>1. SpentOf(pair)' = Count(Budget(pair)', clock - WindowMs)
      <3>1. SpentOf(pair)' = Len(Prune(Budget(pair)', clock, WindowMs))
        BY DEF SpentOf
      <3> QED
        BY <1>1, <1>4, <3>1, PrunedIsLater
    <2>2. clock - WindowMs \in Int /\ clock - WindowMs >= clock - WindowMs
      BY <1>1
    <2> QED
      BY <1>1, <1>4, <2>1, <2>2
  <1>6. Held(pair)' \in Nat /\ Held(pair)' <= Held(pair)
    <2>1. CASE SpentOf(pair) < WasteMax
      BY <1>5, <2>1 DEF Held
    <2>2. CASE ~(SpentOf(pair) < WasteMax)
      <3>1. Flying(pair)' \subseteq Flying(pair)
        BY <2>2
      <3>2. IsFiniteSet(Flying(pair)') /\ Cardinality(Flying(pair)') <= Cardinality(Flying(pair))
        BY <1>1, <3>1, FS_Subset
      <3>3. Cardinality(Flying(pair)') \in Nat
        BY <3>2, FS_CardinalityType
      <3>4. Held(pair)' = Cardinality(Flying(pair)') /\ Held(pair) = Cardinality(Flying(pair))
        BY <1>5, <2>2 DEF Held
      <3> QED
        BY <3>2, <3>3, <3>4
    <2> QED
      BY <2>1, <2>2
  <1>7. ASSUME NEW k \in Int, k >= clock - WindowMs
        PROVE  Matched(Count(Budget(pair)', k), Count(wasted'[pair], k), Held(pair)')
    <2>1. Matched(Count(Budget(pair), k), Count(wasted[pair], k), Held(pair))
      BY <1>7 DEF BudgetHolds
    <2>2. Count(Budget(pair), k) \in Nat /\ Count(wasted[pair], k) \in Nat
      BY <1>1, CountIs
    <2>3. Matched(Count(Budget(pair), k), Count(wasted[pair], k), Held(pair)')
      BY <1>1, <1>6, <2>1, <2>2, MatchedLess
    <2> QED
      BY <1>4, <1>7, <2>3
  <1> QED
    BY <1>4, <1>7 DEF BudgetHolds

\* a call of the pair is refused, and charged unless its budget is spent
LEMMA BudgetCharged ==
    ASSUME Budgeted, WasteMax > 0, BudgetTypes, BudgetTypes',
           NEW pair \in Pairs, BudgetHolds(pair),
           NEW c \in Calls, prepare[c] = pair, Flying(pair)' = Flying(pair) \ {c},
           clock' = clock, wasted'[pair] = Append(wasted[pair], clock),
           \/ /\ SpentOf(pair) < WasteMax
              /\ Budget(pair)' = Append(Prune(Budget(pair), clock, WindowMs), clock)
           \/ /\ ~(SpentOf(pair) < WasteMax)
              /\ Budget(pair)' \in {Budget(pair), Prune(Budget(pair), clock, WindowMs)}
    PROVE  BudgetHolds(pair)'
  <1> DEFINE left == Prune(Budget(pair), clock, WindowMs)
             w == wasted[pair]
             n == Cardinality(Calls)
  <1>1. /\ Budget(pair) \in Seq(Int) /\ clock \in Int /\ WindowMs \in Int
        /\ w \in Seq(Int) /\ n \in Nat /\ n > 0
        /\ IsFiniteSet(Flying(pair)) /\ Cardinality(Flying(pair)) \in Nat
        /\ Cardinality(Flying(pair)) <= n
        /\ Held(pair) \in Nat /\ SpentOf(pair) \in Nat
        /\ InOrder(Budget(pair), clock) /\ Len(Budget(pair)) <= WasteMax
        /\ InOrder(w, clock) /\ \A i \in DOMAIN w : w[i] > clock - WindowMs
        /\ SpentOf(pair) = Count(Budget(pair), clock - WindowMs)
    BY BudgetsAre DEF BudgetHolds
  <1>2. /\ left \in Seq(Int) /\ InOrder(left, clock) /\ Len(left) <= Len(Budget(pair))
    BY <1>1, PrunedIsYoung
  <1>3. ASSUME NEW k \in Int, k >= clock - WindowMs PROVE Count(left, k) = Count(Budget(pair), k)
    BY <1>1, <1>3, CountPruned
  <1>4. SpentOf(pair) = Len(left) /\ WasteMax \in Int /\ WindowMs > 0
    BY DEF SpentOf, Budgeted
  <1> HIDE DEF left, w, n
  <1>5. /\ InOrder(wasted'[pair], clock)
        /\ \A i \in DOMAIN wasted'[pair] : wasted'[pair][i] > clock - WindowMs
    <2>1. InOrder(Append(w, clock), clock)
      BY <1>1, InOrderAppended
    <2>2. /\ Len(w) \in Nat /\ DOMAIN w = 1 .. Len(w)
          /\ DOMAIN Append(w, clock) = 1 .. (Len(w) + 1)
          /\ \A i \in 1 .. Len(w) : Append(w, clock)[i] = w[i]
          /\ Append(w, clock)[Len(w) + 1] = clock
      BY <1>1, LenProperties, AppendProperties
    <2>3. clock > clock - WindowMs
      BY <1>1, <1>4
    <2>4. ASSUME NEW i \in DOMAIN Append(w, clock) PROVE Append(w, clock)[i] > clock - WindowMs
      <3>1. CASE i \in 1 .. Len(w)
        <4>1. w[i] > clock - WindowMs /\ Append(w, clock)[i] = w[i]
          BY <1>1, <2>2, <3>1
        <4> QED
          BY <4>1
      <3>2. CASE i = Len(w) + 1
        BY <2>2, <2>3, <3>2
      <3> QED
        BY <2>2, <2>4, <3>1, <3>2
    <2> QED
      BY <2>1, <2>4 DEF w
  <1>6. Cardinality(Flying(pair)') = Cardinality(Flying(pair)) - 1
    <2>1. c \in Flying(pair)
      BY DEF Flying
    <2>2. Cardinality(Flying(pair) \ {c}) = Cardinality(Flying(pair)) - 1
      BY <1>1, <2>1, FS_RemoveElement
    <2> QED
      BY <2>2
  <1>7. Cardinality(Flying(pair)') \in Nat
    <2>1. IsFiniteSet(Flying(pair)')
      BY <1>1, FS_Subset
    <2> QED
      BY <2>1, FS_CardinalityType
  <1>8. ASSUME NEW k \in Int
        PROVE  /\ Count(wasted'[pair], k) = Count(w, k) + (IF clock > k THEN 1 ELSE 0)
               /\ Count(w, k) \in Nat
               /\ clock <= k => Count(w, k) = 0
    <2>1. Count(Append(w, clock), k) = Count(w, k) + (IF clock > k THEN 1 ELSE 0)
      BY <1>1, CountAppended
    <2>2. Count(w, k) \in Nat
      BY <1>1, CountIs
    <2>3. clock <= k => Count(w, k) = 0
      BY <1>1, CountNone
    <2> QED
      BY <2>1, <2>2, <2>3 DEF w
  <1>9. CASE /\ SpentOf(pair) < WasteMax
             /\ Budget(pair)' = Append(left, clock)
    <2>1. /\ Len(Budget(pair)') = Len(left) + 1 /\ Len(left) \in Nat
      BY <1>1, <1>2, <1>9, AppendProperties, LenProperties
    <2>2. Len(Budget(pair)') <= WasteMax
      BY <1>4, <1>9, <2>1
    <2>3. InOrder(Budget(pair)', clock)
      BY <1>1, <1>2, <1>9, InOrderAppended
    <2>4. Held(pair) = 0
      BY <1>9 DEF Held
    <2>5. Held(pair)' \in Nat /\ Held(pair)' <= n - 1
      BY <1>1, <1>6, <1>7 DEF Held
    <2>6. ASSUME NEW k \in Int, k >= clock - WindowMs
          PROVE  Matched(Count(Budget(pair)', k), Count(wasted'[pair], k), Held(pair)')
      <3> DEFINE m == Count(Budget(pair), k)
                 v == Count(w, k)
      <3>1. Count(Budget(pair)', k) = m + IF clock > k THEN 1 ELSE 0
        <4>1. Count(Append(left, clock), k) = Count(left, k) + IF clock > k THEN 1 ELSE 0
          BY <1>1, <1>2, CountAppended
        <4> QED
          BY <1>3, <1>9, <2>6, <4>1
      <3>2. Matched(m, v, 0)
        BY <2>4, <2>6 DEF BudgetHolds, w
      <3>3. m \in Nat /\ v \in Nat
        BY <1>1, CountIs
      <3>4. CASE clock > k
        <4>1. Count(Budget(pair)', k) = m + 1 /\ Count(wasted'[pair], k) = v + 1
          BY <1>8, <3>1, <3>4
        <4>2. Matched(m + 1, v + 1, Held(pair)')
          BY <1>1, <2>5, <3>2, <3>3, MatchedCharge DEF n
        <4> QED
          BY <4>1, <4>2
      <3>5. CASE ~(clock > k)
        <4>1. Count(Budget(pair)', k) = m /\ Count(wasted'[pair], k) = v /\ v = 0
          <5>1. clock <= k
            BY <1>1, <3>5
          <5> QED
            BY <1>8, <3>1, <3>3, <3>5, <5>1
        <4>2. m = 0
          BY <3>2, <3>3, <4>1 DEF Matched
        <4>3. Matched(0, 0, Held(pair)')
          BY <1>1, <2>5 DEF Matched, n
        <4> QED
          BY <4>1, <4>2, <4>3
      <3> QED
        BY <3>4, <3>5
    <2> QED
      BY <1>5, <2>2, <2>3, <2>6 DEF BudgetHolds
  <1>10. CASE /\ ~(SpentOf(pair) < WasteMax)
              /\ Budget(pair)' \in {Budget(pair), left}
    <2>1. /\ InOrder(Budget(pair)', clock) /\ Len(Budget(pair)') <= WasteMax
          /\ Budget(pair)' \in Seq(Int)
          /\ \A k \in Int : k >= clock - WindowMs => Count(Budget(pair)', k) = Count(Budget(pair), k)
      <3>1. Len(left) \in Nat /\ Len(Budget(pair)) \in Nat
        BY <1>1, <1>2, LenProperties
      <3> QED
        BY <1>1, <1>2, <1>3, <1>4, <1>10, <3>1
    <2>2. Held(pair) = Cardinality(Flying(pair))
      BY <1>10 DEF Held
    <2>3. Held(pair)' \in Nat /\ Held(pair)' <= Held(pair) - 1
      <3>1. SpentOf(pair)' = SpentOf(pair)
        <4>1. SpentOf(pair)' = Len(Prune(Budget(pair)', clock, WindowMs))
          BY DEF SpentOf
        <4>2. SpentOf(pair)' = Count(Budget(pair)', clock - WindowMs)
          BY <1>1, <2>1, <4>1, PrunedIsLater
        <4>3. clock - WindowMs \in Int /\ clock - WindowMs >= clock - WindowMs
          BY <1>1
        <4> QED
          BY <1>1, <2>1, <4>2, <4>3
      <3>2. Held(pair)' = Cardinality(Flying(pair)')
        BY <1>10, <3>1 DEF Held
      <3> QED
        BY <1>1, <1>6, <1>7, <2>2, <3>2
    <2>4. ASSUME NEW k \in Int, k >= clock - WindowMs
          PROVE  Matched(Count(Budget(pair)', k), Count(wasted'[pair], k), Held(pair)')
      <3> DEFINE m == Count(Budget(pair), k)
                 v == Count(w, k)
      <3>1. Count(Budget(pair)', k) = m
        BY <2>1, <2>4
      <3>2. Matched(m, v, Held(pair))
        BY <2>4 DEF BudgetHolds, w
      <3>3. m \in Nat /\ v \in Nat
        BY <1>1, CountIs
      <3>4. Count(wasted'[pair], k) \in {v, v + 1}
        BY <1>8, <3>3
      <3>5. Matched(m, Count(wasted'[pair], k), Held(pair)')
        BY <1>1, <2>3, <3>2, <3>3, <3>4, MatchedWaste DEF n
      <3> QED
        BY <3>1, <3>5
    <2> QED
      BY <1>5, <2>1, <2>4 DEF BudgetHolds
  <1> QED
    BY <1>9, <1>10 DEF left

\* the window moves on
LEMMA BudgetAged ==
    ASSUME Budgeted, WasteMax > 0, BudgetTypes, BudgetTypes',
           NEW pair \in Pairs, BudgetHolds(pair),
           clock' = clock + 1, UNCHANGED <<waste, prepare>>,
           wasted'[pair] = Prune(wasted[pair], clock', WindowMs)
    PROVE  BudgetHolds(pair)'
  <1> DEFINE w == wasted[pair]
  <1>1. /\ Budget(pair) \in Seq(Int) /\ clock \in Int /\ WindowMs \in Int
        /\ w \in Seq(Int) /\ Cardinality(Calls) \in Nat
        /\ Held(pair) \in Nat /\ SpentOf(pair) \in Nat
        /\ Cardinality(Flying(pair)) \in Nat
        /\ InOrder(Budget(pair), clock) /\ Len(Budget(pair)) <= WasteMax
        /\ InOrder(w, clock)
        /\ SpentOf(pair) = Count(Budget(pair), clock - WindowMs)
    BY BudgetsAre DEF BudgetHolds
  <1>2. /\ Budget(pair)' = Budget(pair) /\ Flying(pair)' = Flying(pair)
        /\ clock' \in Int /\ clock <= clock'
        /\ clock - WindowMs \in Int /\ clock' - WindowMs \in Int
        /\ clock - WindowMs <= clock' - WindowMs
        /\ SpentOf(pair)' = Len(Prune(Budget(pair), clock', WindowMs))
    BY <1>1 DEF Budget, Flying, SpentOf
  <1> HIDE DEF w
  <1>3. InOrder(Budget(pair), clock') /\ InOrder(w, clock')
    BY <1>1, <1>2, InOrderStays
  <1>4. /\ InOrder(wasted'[pair], clock') /\ wasted'[pair] \in Seq(Int)
        /\ \A i \in DOMAIN wasted'[pair] : wasted'[pair][i] > clock' - WindowMs
    <2>1. wasted'[pair] = Prune(w, clock', WindowMs)
      BY DEF w
    <2> QED
      BY <1>1, <1>2, <1>3, <2>1, PrunedIsYoung
  <1>5. SpentOf(pair)' \in Nat /\ SpentOf(pair)' <= SpentOf(pair)
    <2>1. SpentOf(pair)' = Count(Budget(pair), clock' - WindowMs)
      BY <1>1, <1>2, <1>3, PrunedIsLater
    <2>2. Count(Budget(pair), clock' - WindowMs) <= Count(Budget(pair), clock - WindowMs)
      BY <1>1, <1>2, CountFalls
    <2> QED
      BY <1>1, <1>2, <2>1, <2>2, CountIs
  <1>6. Held(pair)' \in Nat /\ Held(pair)' <= Held(pair)
    <2>1. WasteMax \in Int
      BY DEF Budgeted
    <2> QED
      BY <1>1, <1>2, <1>5, <2>1 DEF Held
  <1>7. ASSUME NEW k \in Int, k >= clock' - WindowMs
        PROVE  Matched(Count(Budget(pair)', k), Count(wasted'[pair], k), Held(pair)')
    <2>1. k >= clock - WindowMs
      BY <1>1, <1>2, <1>7
    <2>2. Matched(Count(Budget(pair), k), Count(w, k), Held(pair))
      BY <2>1 DEF BudgetHolds, w
    <2>3. Count(Budget(pair), k) \in Nat /\ Count(w, k) \in Nat
      BY <1>1, CountIs
    <2>4. Count(wasted'[pair], k) = Count(w, k)
      <3>1. Count(Prune(w, clock', WindowMs), k) = Count(w, k)
        BY <1>1, <1>2, <1>7, CountPruned
      <3> QED
        BY <3>1 DEF w
    <2>5. Matched(Count(Budget(pair), k), Count(w, k), Held(pair)')
      BY <1>1, <1>6, <2>2, <2>3, MatchedLess
    <2> QED
      BY <1>2, <2>4, <2>5
  <1> QED
    BY <1>1, <1>2, <1>3, <1>4, <1>7 DEF BudgetHolds

\* what a refusal leaves of the limiter
LEMMA RefusalIs ==
    ASSUME Budgeted, WasteMax > 0, BudgetTypes, NEW c \in Calls, prepare[c] \in Pairs,
           waste' = AllowKeys(waste, << [key |-> prepare[c], max |-> WasteMax] >>,
                              clock, WindowMs).limiter
    PROVE  /\ IsLimiter(waste', Clock)
           /\ \/ /\ SpentOf(prepare[c]) < WasteMax
                 /\ TimesOf(waste', prepare[c])
                      = Append(Prune(Budget(prepare[c]), clock, WindowMs), clock)
              \/ /\ ~(SpentOf(prepare[c]) < WasteMax)
                 /\ TimesOf(waste', prepare[c])
                      \in {Budget(prepare[c]), Prune(Budget(prepare[c]), clock, WindowMs)}
           /\ \A pair : pair # prepare[c] =>
                TimesOf(waste', pair) \in {Budget(pair), Prune(Budget(pair), clock, WindowMs)}
  <1> DEFINE entries == << [key |-> prepare[c], max |-> WasteMax] >>
             r == AllowKeys(waste, entries, clock, WindowMs)
  <1>1. /\ DOMAIN entries = {1} /\ entries[1].key = prepare[c] /\ entries[1].max = WasteMax
        /\ Clock \subseteq Int /\ IsLimiter(waste, Clock) /\ clock \in Clock
        /\ WindowMs \in Nat \ {0} /\ WasteMax \in Int
    BY DEF Budgeted, BudgetTypes, Clock
  <1>2. r.looked \subseteq {prepare[c]}
    BY LookedAt
  <1> HIDE DEF entries
  <1>3. IsAnswer(r, waste, entries, clock, WindowMs, Clock)
    BY <1>1, AllowKeysIs
  <1>4. waste' = r.limiter
    BY DEF entries
  <1> HIDE DEF r
  <1>5. IsLimiter(waste', Clock) /\ r.allowed \in BOOLEAN
    BY <1>3, <1>4 DEF IsAnswer
  <1>6. SpentOf(prepare[c]) \in Nat
    BY BudgetsAre
  <1>7. \A key : \/ TimesOf(waste', key) \in {Budget(key), Prune(Budget(key), clock, WindowMs)}
                 \/ r.allowed /\ key \in r.looked
    BY <1>3, <1>4 DEF IsAnswer, Charged, Budget
  <1>8. CASE r.allowed
    <2>1. /\ SpentOf(prepare[c]) < WasteMax
          /\ TimesOf(waste', prepare[c])
               = Append(Prune(Budget(prepare[c]), clock, WindowMs), clock)
      BY <1>1, <1>3, <1>4, <1>8 DEF IsAnswer, SpentOf, Budget
    <2> QED
      BY <1>2, <1>5, <1>7, <2>1
  <1>9. CASE ~r.allowed
    <2>1. SpentOf(prepare[c]) >= WasteMax
      BY <1>1, <1>3, <1>9 DEF IsAnswer, SpentOf, Budget
    <2>2. ~(SpentOf(prepare[c]) < WasteMax)
      BY <1>1, <1>6, <2>1
    <2> QED
      BY <1>5, <1>7, <1>9, <2>2
  <1> QED
    BY <1>5, <1>8, <1>9

\* every step keeps the types
LEMMA BudgetTyped ==
    ASSUME Budgeted, WasteMax > 0, BudgetTypes, [Waste!Next]_Waste!vars
    PROVE  BudgetTypes'
  <1>1. /\ clock \in Clock /\ clock \in Int /\ Clock \subseteq Int /\ IsLimiter(waste, Clock)
        /\ prepare \in [Calls -> Pairs \cup {<< >>}]
        /\ wasted \in [Pairs -> Seq(Clock)]
    BY DEF BudgetTypes, Clock
  <1>2. ASSUME NEW c \in Calls, NEW pair \in Pairs, Waste!Ask(c, pair) PROVE BudgetTypes'
    BY <1>1, <1>2 DEF BudgetTypes, Waste!Ask
  <1>3. ASSUME NEW c \in Calls, Waste!Done(c) PROVE BudgetTypes'
    BY <1>1, <1>3 DEF BudgetTypes, Waste!Done, Waste!Answer
  <1>4. ASSUME NEW c \in Calls, Waste!Refuse(c) PROVE BudgetTypes'
    <2>1. /\ prepare[c] \in Pairs /\ clock' = clock
          /\ prepare' = [prepare EXCEPT ![c] = << >>]
          /\ wasted' = [wasted EXCEPT ![prepare[c]] = Append(@, clock)]
          /\ waste' = AllowKeys(waste, << [key |-> prepare[c], max |-> WasteMax] >>,
                                clock, WindowMs).limiter
      BY <1>1, <1>4, WasteLimits DEF Waste!Refuse, Waste!Answer
    <2>2. IsLimiter(waste', Clock)
      BY <2>1, RefusalIs
    <2>3. Append(wasted[prepare[c]], clock) \in Seq(Clock)
      BY <1>1, <2>1, AppendProperties
    <2> QED
      BY <1>1, <2>1, <2>2, <2>3 DEF BudgetTypes
  <1>5. ASSUME Waste!Tick PROVE BudgetTypes'
    <2>1. /\ clock < MaxTime /\ clock' = clock + 1 /\ waste' = waste /\ prepare' = prepare
          /\ wasted' = [pair \in Pairs |-> Prune(wasted[pair], clock', WindowMs)]
      BY <1>5, WasteLimits DEF Waste!Tick
    <2>2. clock' \in Clock /\ clock' \in Int /\ WindowMs \in Int
      BY <1>1, <2>1 DEF Budgeted, Clock
    <2>3. ASSUME NEW pair \in Pairs PROVE Prune(wasted[pair], clock', WindowMs) \in Seq(Clock)
      <3>1. wasted[pair] \in Seq(Clock)
        BY <1>1
      <3> QED
        BY <1>1, <2>2, <3>1, PruneIs
    <2> QED
      BY <1>1, <2>1, <2>2, <2>3 DEF BudgetTypes
  <1>6. ASSUME UNCHANGED Waste!vars PROVE BudgetTypes'
    BY <1>1, <1>6 DEF BudgetTypes, Waste!vars
  <1> QED
    BY <1>2, <1>3, <1>4, <1>5, <1>6 DEF Waste!Next

\* a pair that is charged nothing, and wastes nothing, by a call or by none
LEMMA BudgetUntouched ==
    ASSUME Budgeted, WasteMax > 0, BudgetTypes, BudgetTypes', NEW pair \in Pairs, NEW c \in Calls,
           BudgetHolds(pair), clock' = clock, wasted'[pair] = wasted[pair],
           TimesOf(waste', pair) \in {Budget(pair), Prune(Budget(pair), clock, WindowMs)},
           \A d \in Calls : d # c => prepare'[d] = prepare[d],
           prepare'[c] # pair \/ SpentOf(pair) < WasteMax
    PROVE  BudgetHolds(pair)'
  <1>1. Budget(pair)' \in {Budget(pair), Prune(Budget(pair), clock, WindowMs)}
    BY DEF Budget
  <1>2. SpentOf(pair) < WasteMax \/ Flying(pair)' \subseteq Flying(pair)
    BY DEF Flying
  <1> QED
    BY <1>1, <1>2, BudgetKept

\* and every step
LEMMA WasteNext ==
    ASSUME Budgeted, WasteInv, [Waste!Next]_Waste!vars, WasteMax > 0
    PROVE  WasteInv'
  <1>1. /\ BudgetTypes /\ BudgetTypes' /\ Calls # {}
        /\ prepare \in [Calls -> Pairs \cup {<< >>}]
        /\ wasted \in [Pairs -> Seq(Clock)]
    BY BudgetTyped DEF WasteInv, BudgetTypes, Budgeted
  <1>2. SUFFICES ASSUME NEW pair \in Pairs PROVE BudgetHolds(pair)'
    BY <1>1 DEF WasteInv
  <1>3. BudgetHolds(pair) /\ pair # << >>
    BY DEF WasteInv, Budgeted
  <1>4. ASSUME NEW c \in Calls, NEW asked \in Pairs, Waste!Ask(c, asked) PROVE BudgetHolds(pair)'
    <2>1. /\ prepare' = [prepare EXCEPT ![c] = asked] /\ clock' = clock
          /\ waste' = waste /\ wasted' = wasted /\ Waste!Peek(asked)
      BY <1>4 DEF Waste!Ask
    <2>2. SpentOf(asked) < WasteMax
      BY <2>1, WasteLimits DEF Waste!Peek, SpentOf, Budget
    <2>3. TimesOf(waste', pair) = Budget(pair) /\ wasted'[pair] = wasted[pair]
      BY <2>1 DEF Budget
    <2>4. /\ \A d \in Calls : d # c => prepare'[d] = prepare[d]
          /\ prepare'[c] # pair \/ SpentOf(pair) < WasteMax
      BY <1>1, <2>1, <2>2
    <2> QED
      BY <1>1, <1>3, <2>1, <2>3, <2>4, BudgetUntouched
  <1>5. ASSUME NEW c \in Calls, Waste!Done(c) PROVE BudgetHolds(pair)'
    <2>1. /\ prepare' = [prepare EXCEPT ![c] = << >>] /\ clock' = clock
          /\ waste' = waste /\ wasted' = wasted
      BY <1>5 DEF Waste!Done, Waste!Answer
    <2>2. TimesOf(waste', pair) = Budget(pair) /\ wasted'[pair] = wasted[pair]
      BY <2>1 DEF Budget
    <2>3. /\ \A d \in Calls : d # c => prepare'[d] = prepare[d]
          /\ prepare'[c] # pair
      BY <1>1, <1>3, <2>1
    <2> QED
      BY <1>1, <1>3, <2>1, <2>2, <2>3, BudgetUntouched
  <1>6. ASSUME NEW c \in Calls, Waste!Refuse(c) PROVE BudgetHolds(pair)'
    <2>1. /\ prepare[c] \in Pairs /\ clock' = clock
          /\ prepare' = [prepare EXCEPT ![c] = << >>]
          /\ wasted' = [wasted EXCEPT ![prepare[c]] = Append(@, clock)]
          /\ waste' = AllowKeys(waste, << [key |-> prepare[c], max |-> WasteMax] >>,
                                clock, WindowMs).limiter
      BY <1>1, <1>6, WasteLimits DEF Waste!Refuse, Waste!Answer
    <2>2. /\ \/ /\ SpentOf(prepare[c]) < WasteMax
                /\ TimesOf(waste', prepare[c])
                     = Append(Prune(Budget(prepare[c]), clock, WindowMs), clock)
             \/ /\ ~(SpentOf(prepare[c]) < WasteMax)
                /\ TimesOf(waste', prepare[c])
                     \in {Budget(prepare[c]), Prune(Budget(prepare[c]), clock, WindowMs)}
          /\ pair # prepare[c] =>
               TimesOf(waste', pair) \in {Budget(pair), Prune(Budget(pair), clock, WindowMs)}
      BY <1>1, <2>1, RefusalIs
    <2>3. /\ \A d \in Calls : d # c => prepare'[d] = prepare[d]
          /\ prepare'[c] = << >>
      BY <1>1, <2>1
    <2>4. CASE pair = prepare[c]
      <3>1. /\ Budget(pair)' = TimesOf(waste', pair)
            /\ Flying(pair)' = {d \in Calls : prepare'[d] = pair}
        BY DEF Budget, Flying
      <3>2. wasted'[pair] = Append(wasted[pair], clock)
        BY <1>1, <2>1, <2>4
      <3>3. {d \in Calls : prepare'[d] = pair} = {d \in Calls : prepare[d] = pair} \ {c}
        BY <1>3, <2>3
      <3>4. Flying(pair)' = Flying(pair) \ {c}
        BY <3>1, <3>3 DEF Flying
      <3>5. \/ /\ SpentOf(pair) < WasteMax
               /\ Budget(pair)' = Append(Prune(Budget(pair), clock, WindowMs), clock)
            \/ /\ ~(SpentOf(pair) < WasteMax)
               /\ Budget(pair)' \in {Budget(pair), Prune(Budget(pair), clock, WindowMs)}
        BY <2>2, <2>4, <3>1
      <3> QED
        BY <1>1, <1>3, <2>1, <2>4, <3>2, <3>4, <3>5, BudgetCharged
    <2>5. CASE pair # prepare[c]
      <3>1. wasted'[pair] = wasted[pair]
        BY <1>1, <2>1, <2>5
      <3> QED
        BY <1>1, <1>3, <2>1, <2>2, <2>3, <2>5, <3>1, BudgetUntouched
    <2> QED
      BY <2>4, <2>5
  <1>7. ASSUME Waste!Tick PROVE BudgetHolds(pair)'
    <2>1. /\ clock' = clock + 1 /\ UNCHANGED <<waste, prepare>>
          /\ wasted'[pair] = Prune(wasted[pair], clock', WindowMs)
      BY <1>7, WasteLimits DEF Waste!Tick
    <2> QED
      BY <1>1, <1>3, <2>1, BudgetAged
  <1>8. ASSUME UNCHANGED Waste!vars PROVE BudgetHolds(pair)'
    <2>1. waste' = waste /\ prepare' = prepare /\ clock' = clock /\ wasted' = wasted
      BY <1>8 DEF Waste!vars
    <2> QED
      BY <1>3, <2>1 DEF BudgetHolds, Budget, SpentOf, Flying, Held, Matched
  <1> QED
    BY <1>4, <1>5, <1>6, <1>7, <1>8 DEF Waste!Next

(***************************************************************************)
(* A pair that is refused has wasted its budget itself, from its own       *)
(* address; and what it wastes in a window stays within one budget more    *)
(* for each call it has in flight.                                         *)
(***************************************************************************)
THEOREM WasteBoundedOwn == ASSUME Budgeted PROVE Waste!Spec => []Waste!WasteIsOnesOwn
  <1>1. CASE WasteMax > 0
    <2>1. Waste!Init => WasteInv
      BY WasteAtFirst
    <2>2. WasteInv /\ [Waste!Next]_Waste!vars => WasteInv'
      BY <1>1, WasteNext
    <2>3. WasteInv => Waste!WasteIsOnesOwn
      BY WasteGives
    <2> QED
      BY <2>1, <2>2, <2>3, PTL DEF Waste!Spec
  <1>2. CASE ~(WasteMax > 0)
    <2>1. Waste!WasteIsOnesOwn
      BY <1>2 DEF Waste!WasteIsOnesOwn
    <2> QED
      BY <2>1, PTL
  <1> QED
    BY <1>1, <1>2

-----------------------------------------------------------------------------
(* The budget of party allocations.                                        *)

\* what the configuration is
Capped ==
    /\ Config.submitMax \in Int /\ Config.onboardGlobal \in Int /\ Config.dailyMax \in Int
    /\ Config.minuteMs \in Nat \ {0} /\ Config.dayMs \in Nat \ {0} /\ MaxTime \in Nat

DoorTypes ==
    /\ clock \in Clock
    /\ doors \in [submit : {doors.submit}, onboard : {doors.onboard}, daily : {doors.daily}]
    /\ IsLimiter(doors.onboard, Clock) /\ IsLimiter(doors.daily, Clock)
    /\ allocated \in Seq(Clock)

\* the slots of a budget that are taken, as they came
Taken(hits, max) == InOrder(hits, clock) /\ Len(hits) <= max

Minute == doors.onboard.globalHits
Day == doors.daily.globalHits

\* every allocation begun took a slot of its minute, and no other event took
\* one of its day
MinuteHolds ==
    /\ Taken(Minute, Config.onboardGlobal)
    /\ \A k \in Int : k >= clock - Config.minuteMs => Count(allocated, k) <= Count(Minute, k)
DayHolds ==
    /\ Taken(Day, Config.dailyMax)
    /\ \A k \in Int : k >= clock - Config.dayMs => Count(Day, k) = Count(allocated, k)

DoorsInv ==
    /\ DoorTypes
    /\ InOrder(allocated, clock) /\ \A i \in DOMAIN allocated : allocated[i] > clock - Config.dayMs
    /\ Config.onboardGlobal > 0 => MinuteHolds
    /\ Config.dailyMax > 0 => DayHolds

\* the instance has the operators of Limits
LEMMA DoorsLimits ==
    /\ \A times, now, windowMs : Doors!Prune(times, now, windowMs) = Prune(times, now, windowMs)
    /\ \A l, key : Doors!TimesOf(l, key) = TimesOf(l, key)
    /\ \A l, entries, now, windowMs :
         Doors!AllowKeys(l, entries, now, windowMs) = AllowKeys(l, entries, now, windowMs)
    /\ \A l, now, max, windowMs :
         Doors!AllowGlobal(l, now, max, windowMs) = AllowGlobal(l, now, max, windowMs)
    /\ \A windowMs : Doors!NewLimiter(windowMs) = NewLimiter(windowMs)
  <1>1. \A times, now, windowMs : Doors!Prune(times, now, windowMs) = Prune(times, now, windowMs)
    BY Zenon DEF Doors!Prune, Prune, Doors!Aged, Aged
  <1>2. \A l, key : Doors!TimesOf(l, key) = TimesOf(l, key)
    BY Zenon DEF Doors!TimesOf, TimesOf
  <1>3. \A l, entries, now, windowMs :
          Doors!AllowKeys(l, entries, now, windowMs) = AllowKeys(l, entries, now, windowMs)
    <2> SUFFICES ASSUME NEW l, NEW entries, NEW now, NEW windowMs
                 PROVE  Doors!AllowKeys(l, entries, now, windowMs) = AllowKeys(l, entries, now, windowMs)
      OBVIOUS
    <2> QED
      BY Zenon DEF Doors!AllowKeys, AllowKeys, Doors!Sweep, Sweep, Doors!Prune, Prune, Doors!Aged, Aged,
                   Doors!TimesOf, TimesOf
  <1>4. \A windowMs : Doors!NewLimiter(windowMs) = NewLimiter(windowMs)
    BY Zenon DEF Doors!NewLimiter, NewLimiter
  <1>5. \A l, now, max, windowMs :
          Doors!AllowGlobal(l, now, max, windowMs) = AllowGlobal(l, now, max, windowMs)
    <2> SUFFICES ASSUME NEW l, NEW now, NEW max, NEW windowMs
                 PROVE  Doors!AllowGlobal(l, now, max, windowMs) = AllowGlobal(l, now, max, windowMs)
      OBVIOUS
    <2> QED
      BY Zenon DEF Doors!AllowGlobal, AllowGlobal, Doors!Prune, Prune, Doors!Aged, Aged
  <1> QED
    BY <1>1, <1>2, <1>3, <1>4, <1>5

\* what the invariant speaks of is well typed
LEMMA DoorsAre ==
    ASSUME Capped, DoorTypes
    PROVE  /\ Clock \subseteq Int /\ clock \in Int /\ clock \in Clock
           /\ Config.minuteMs \in Int /\ Config.dayMs \in Int
           /\ clock - Config.minuteMs \in Int /\ clock - Config.dayMs \in Int
           /\ Minute \in Seq(Int) /\ Day \in Seq(Int) /\ allocated \in Seq(Int)
           /\ Len(Minute) \in Nat /\ Len(Day) \in Nat /\ Len(allocated) \in Nat
  <1>1. /\ Clock \subseteq Int /\ clock \in Int /\ clock \in Clock
        /\ Config.minuteMs \in Int /\ Config.dayMs \in Int
    BY DEF Capped, DoorTypes, Clock
  <1>2. Minute \in Seq(Clock) /\ Day \in Seq(Clock) /\ allocated \in Seq(Clock)
    BY DEF DoorTypes, IsLimiter, Minute, Day
  <1>3. Minute \in Seq(Int) /\ Day \in Seq(Int) /\ allocated \in Seq(Int)
    BY <1>1, <1>2, SeqMonotonic
  <1> QED
    BY <1>1, <1>3, LenProperties

\* the invariant gives the property
LEMMA DoorsGive == ASSUME Capped, DoorsInv PROVE Doors!AllocationBudgets
  <1> DEFINE minute == clock - Config.minuteMs
             day == clock - Config.dayMs
  <1>1. /\ clock \in Int /\ minute \in Int /\ day \in Int
        /\ Config.minuteMs \in Int /\ Config.dayMs \in Int
        /\ Minute \in Seq(Int) /\ Day \in Seq(Int) /\ allocated \in Seq(Int)
        /\ Len(Minute) \in Nat /\ Len(Day) \in Nat /\ Len(allocated) \in Nat
        /\ Config.onboardGlobal \in Int /\ Config.dailyMax \in Int
        /\ InOrder(allocated, clock) /\ \A i \in DOMAIN allocated : allocated[i] > day
    BY DoorsAre DEF DoorsInv, Capped
  <1>2. ASSUME Config.onboardGlobal > 0
        PROVE  Len(Prune(allocated, clock, Config.minuteMs)) <= Config.onboardGlobal
    <2>1. Len(Prune(allocated, clock, Config.minuteMs)) = Count(allocated, minute)
      BY <1>1, PrunedIsLater
    <2>2. minute >= clock - Config.minuteMs
      BY <1>1
    <2>3. Count(allocated, minute) <= Count(Minute, minute) /\ Len(Minute) <= Config.onboardGlobal
      BY <1>1, <1>2, <2>2 DEF DoorsInv, MinuteHolds, Taken
    <2>4. Count(Minute, minute) \in Nat /\ Count(Minute, minute) <= Len(Minute)
      BY <1>1, CountIs
    <2>5. Count(allocated, minute) \in Nat
      BY <1>1, CountIs
    <2> HIDE DEF minute
    <2> QED
      BY <1>1, <2>1, <2>3, <2>4, <2>5
  <1>3. ASSUME Config.dailyMax > 0
        PROVE  /\ Len(allocated) <= Config.dailyMax
               /\ Len(Prune(Day, clock, Config.dayMs)) = Len(allocated)
    <2>1. day >= clock - Config.dayMs
      BY <1>1
    <2>2. /\ Count(Day, day) = Count(allocated, day) /\ Len(Day) <= Config.dailyMax
          /\ InOrder(Day, clock)
      BY <1>1, <1>3, <2>1 DEF DoorsInv, DayHolds, Taken
    <2>3. Count(allocated, day) = Len(allocated)
      BY <1>1, CountIs
    <2>4. Count(Day, day) \in Nat /\ Count(Day, day) <= Len(Day)
      BY <1>1, CountIs
    <2>5. Len(Prune(Day, clock, Config.dayMs)) = Count(Day, day)
      BY <1>1, <2>2, PrunedIsLater
    <2> HIDE DEF day
    <2> QED
      BY <1>1, <2>2, <2>3, <2>4, <2>5
  <1> QED
    BY <1>2, <1>3, DoorsLimits DEF Doors!AllocationBudgets, Day

\* the invariant at the start
LEMMA DoorsAtFirst == ASSUME Capped, Doors!Init PROVE DoorsInv
  <1>1. /\ clock = 0 /\ allocated = << >>
        /\ doors = [submit |-> NewLimiter(Config.minuteMs),
                    onboard |-> NewLimiter(Config.minuteMs),
                    daily |-> NewLimiter(Config.dayMs)]
    BY DoorsLimits DEF Doors!Init
  <1>2. << >> \in Seq(Clock) /\ Len(<< >>) = 0 /\ DOMAIN << >> = {}
    BY EmptySeq
  <1>3. Config.minuteMs \in Int /\ Config.dayMs \in Int
    BY DEF Capped
  <1>4. /\ IsLimiter(doors.onboard, Clock) /\ Minute = << >>
        /\ IsLimiter(doors.daily, Clock) /\ Day = << >>
    BY <1>1, <1>3, NewIs DEF Minute, Day
  <1>5. DoorTypes
    BY <1>1, <1>2, <1>4 DEF DoorTypes, Capped, Clock
  <1>6. /\ \A now : InOrder(<< >>, now)
        /\ \A k : Count(<< >>, k) = 0
    BY <1>2, FS_EmptySet DEF InOrder, Count, Later
  <1>7. Config.onboardGlobal > 0 => MinuteHolds
    BY <1>1, <1>2, <1>4, <1>6 DEF MinuteHolds, Taken, Capped
  <1>8. Config.dailyMax > 0 => DayHolds
    BY <1>1, <1>2, <1>4, <1>6 DEF DayHolds, Taken, Capped
  <1> QED
    BY <1>1, <1>2, <1>5, <1>6, <1>7, <1>8 DEF DoorsInv

\* a budget that is asked for a slot: one more is taken when it grants one
OneMore(r, l, max, windowMs) ==
    /\ Taken(r.limiter.globalHits, max)
    /\ \A k \in Int : k >= clock - windowMs =>
         Count(r.limiter.globalHits, k)
           = Count(l.globalHits, k) + IF r.allowed /\ clock > k THEN 1 ELSE 0

LEMMA SlotTaken ==
    ASSUME NEW l, NEW r, NEW max \in Int, NEW windowMs \in Nat \ {0}, Capped, DoorTypes,
           IsLimiter(l, Clock), IsGlobalAnswer(r, l, clock, max, windowMs, Clock),
           max > 0, Taken(l.globalHits, max)
    PROVE  OneMore(r, l, max, windowMs)
  <1> DEFINE hits == l.globalHits
             left == Prune(l.globalHits, clock, windowMs)
             new == r.limiter.globalHits
  <1>1. Clock \subseteq Int /\ clock \in Int /\ windowMs \in Int
    BY DoorsAre
  <1>2. hits \in Seq(Int) /\ InOrder(hits, clock) /\ Len(hits) <= max
    BY <1>1, SeqMonotonic DEF IsLimiter, Taken
  <1>3. left \in Seq(Int) /\ InOrder(left, clock) /\ Len(left) <= Len(hits)
    BY <1>1, <1>2, PrunedIsYoung
  <1>4. ASSUME NEW k \in Int, k >= clock - windowMs
        PROVE  Count(left, k) = Count(hits, k) /\ Count(hits, k) \in Nat
    <2>1. Count(left, k) = Count(hits, k)
      BY <1>1, <1>2, <1>4, CountPruned
    <2>2. Count(hits, k) \in Nat
      BY <1>2, CountIs
    <2> QED
      BY <2>1, <2>2
  <1>5. r.allowed => Len(left) < max /\ new = Append(left, clock)
    BY DEF IsGlobalAnswer
  <1>6. ~r.allowed => new = left
    BY DEF IsGlobalAnswer
  <1> HIDE DEF hits, left, new
  <1>7. Len(left) \in Nat /\ Len(hits) \in Nat
    BY <1>2, <1>3, LenProperties
  <1>8. CASE r.allowed
    <2>1. InOrder(Append(left, clock), clock)
      BY <1>1, <1>3, InOrderAppended
    <2>3. Len(Append(left, clock)) = Len(left) + 1
      BY <1>1, <1>3, AppendProperties
    <2>2. ASSUME NEW k \in Int, k >= clock - windowMs
          PROVE  Count(new, k) = Count(hits, k) + IF r.allowed /\ clock > k THEN 1 ELSE 0
      <3>1. Count(Append(left, clock), k) = Count(left, k) + IF clock > k THEN 1 ELSE 0
        BY <1>1, <1>3, CountAppended
      <3> QED
        BY <1>4, <1>5, <1>8, <2>2, <3>1
    <2>4. InOrder(new, clock) /\ Len(new) <= max
      <3>1. new = Append(left, clock) /\ Len(left) < max
        BY <1>5, <1>8
      <3>2. Len(new) = Len(left) + 1
        BY <2>3, <3>1
      <3> QED
        BY <1>7, <2>1, <3>1, <3>2
    <2> QED
      BY <2>2, <2>4 DEF OneMore, Taken, new, hits
  <1>9. CASE ~r.allowed
    <2>1. Len(new) <= max
      BY <1>2, <1>3, <1>6, <1>7, <1>9
    <2>2. ASSUME NEW k \in Int, k >= clock - windowMs
          PROVE  Count(new, k) = Count(hits, k) + IF r.allowed /\ clock > k THEN 1 ELSE 0
      <3>1. Count(new, k) = Count(hits, k) /\ Count(hits, k) \in Nat
        BY <1>4, <1>6, <1>9, <2>2
      <3> QED
        BY <1>9, <3>1
    <2> QED
      BY <1>3, <1>6, <1>9, <2>1, <2>2 DEF OneMore, Taken, new, hits
  <1> QED
    BY <1>8, <1>9

\* admission at the door of an address leaves the global budget alone
LEMMA AdmissionIs ==
    ASSUME Capped, DoorTypes, NEW where, NEW ip,
           NEW r, r = Doors!OnboardAdmission(where, ip)
    PROVE  IsLimiter(r.limiter, Clock) /\ r.limiter.globalHits = Minute
  <1>1. IsLimiter(doors.onboard, Clock) /\ Clock \subseteq Int /\ clock \in Clock
    BY DoorsAre DEF DoorTypes
  <1>2. CASE Config.submitMax <= 0
    BY <1>1, <1>2 DEF Doors!OnboardAdmission, Minute
  <1>3. CASE ~(Config.submitMax <= 0)
    <2> DEFINE entries == << [key |-> <<where, ip>>, max |-> Config.submitMax] >>
    <2>1. \A i \in DOMAIN entries : entries[i].max \in Int
      BY DEF Capped
    <2>2. r = AllowKeys(doors.onboard, entries, clock, Config.minuteMs)
      BY <1>3, DoorsLimits DEF Doors!OnboardAdmission
    <2>3. Config.minuteMs \in Nat \ {0}
      BY DEF Capped
    <2> HIDE DEF entries
    <2>4. IsAnswer(r, doors.onboard, entries, clock, Config.minuteMs, Clock)
      BY <1>1, <2>1, <2>2, <2>3, AllowKeysIs
    <2> QED
      BY <2>4 DEF IsAnswer, Minute
  <1> QED
    BY <1>2, <1>3

\* a step that allocates nothing and leaves both budgets as they are
LEMMA DoorsKept ==
    ASSUME Capped, DoorsInv, clock' = clock, allocated' = allocated, DoorTypes',
           Minute' = Minute, Day' = Day
    PROVE  DoorsInv'
  BY DEF DoorsInv, MinuteHolds, DayHolds, Taken

\* an onboarding that was admitted asks the minute, then the day
LEMMA SlotsSpent ==
    ASSUME Capped, DoorsInv, NEW admitted, NEW spend,
           IsLimiter(admitted.onboard, Clock), admitted.onboard.globalHits = Minute,
           admitted = [doors EXCEPT !.onboard = admitted.onboard],
           spend = Doors!SpendAllowed(admitted), clock' = clock, doors' = spend.limiters,
           allocated' = IF spend.allowed THEN Append(allocated, clock) ELSE allocated
    PROVE  DoorsInv'
  <1> DEFINE minute == AllowGlobal(admitted.onboard, clock, Config.onboardGlobal, Config.minuteMs)
             day == AllowGlobal(doors.daily, clock, Config.dailyMax, Config.dayMs)
  <1>1. /\ Clock \subseteq Int /\ clock \in Int /\ clock \in Clock
        /\ Minute \in Seq(Int) /\ Day \in Seq(Int) /\ allocated \in Seq(Int)
        /\ allocated \in Seq(Clock) /\ IsLimiter(doors.daily, Clock)
        /\ doors \in [submit : {doors.submit}, onboard : {doors.onboard}, daily : {doors.daily}]
        /\ InOrder(allocated, clock) /\ \A i \in DOMAIN allocated : allocated[i] > clock - Config.dayMs
        /\ Config.onboardGlobal \in Int /\ Config.dailyMax \in Int
        /\ Config.minuteMs \in Nat \ {0} /\ Config.dayMs \in Nat \ {0}
        /\ DoorTypes
    BY DoorsAre DEF DoorsInv, DoorTypes, Capped
  <1>2. /\ admitted.onboard \in {admitted.onboard} /\ admitted.daily = doors.daily
        /\ admitted \in [submit : {doors.submit}, onboard : {admitted.onboard}, daily : {doors.daily}]
    BY <1>1
  <1>3. IsGlobalAnswer(minute, admitted.onboard, clock, Config.onboardGlobal, Config.minuteMs, Clock)
    BY <1>1, AllowGlobalIs
  <1>4. IsGlobalAnswer(day, doors.daily, clock, Config.dailyMax, Config.dayMs, Clock)
    BY <1>1, AllowGlobalIs
  <1>5. /\ spend.allowed = (minute.allowed /\ day.allowed)
        /\ spend.limiters = [admitted EXCEPT
                               !.onboard = minute.limiter,
                               !.daily = IF minute.allowed THEN day.limiter ELSE @]
    BY <1>2, DoorsLimits DEF Doors!SpendAllowed
  <1> HIDE DEF minute, day
  <1>6. /\ doors'.onboard = minute.limiter
        /\ doors'.daily = IF minute.allowed THEN day.limiter ELSE doors.daily
        /\ doors' \in [submit : {doors'.submit}, onboard : {doors'.onboard}, daily : {doors'.daily}]
    BY <1>2, <1>5
  <1>7. /\ minute.allowed \in BOOLEAN /\ day.allowed \in BOOLEAN
        /\ IsLimiter(minute.limiter, Clock) /\ IsLimiter(day.limiter, Clock)
    BY <1>3, <1>4 DEF IsGlobalAnswer
  <1>8. Append(allocated, clock) \in Seq(Clock)
    BY <1>1, AppendProperties
  <1>9. DoorTypes'
    BY <1>1, <1>5, <1>6, <1>7, <1>8 DEF DoorTypes
  <1> DEFINE granted == minute.allowed /\ day.allowed
  <1>10. ASSUME NEW k \in Int
         PROVE  /\ Count(allocated, k) \in Nat
                /\ Count(allocated', k) = Count(allocated, k) + IF granted /\ clock > k THEN 1 ELSE 0
    <2>1. Count(allocated, k) \in Nat
      BY <1>1, CountIs
    <2>2. Count(Append(allocated, clock), k) = Count(allocated, k) + IF clock > k THEN 1 ELSE 0
      BY <1>1, CountAppended
    <2> QED
      BY <1>5, <1>7, <2>1, <2>2
  <1>11. InOrder(allocated', clock) /\ \A i \in DOMAIN allocated' : allocated'[i] > clock - Config.dayMs
    <2>1. InOrder(Append(allocated, clock), clock)
      BY <1>1, InOrderAppended
    <2>2. /\ Len(allocated) \in Nat /\ DOMAIN allocated = 1 .. Len(allocated)
          /\ DOMAIN Append(allocated, clock) = 1 .. (Len(allocated) + 1)
          /\ \A i \in 1 .. Len(allocated) : Append(allocated, clock)[i] = allocated[i]
          /\ Append(allocated, clock)[Len(allocated) + 1] = clock
      BY <1>1, LenProperties, AppendProperties
    <2>3. clock > clock - Config.dayMs
      BY <1>1
    <2>4. ASSUME NEW i \in DOMAIN Append(allocated, clock)
          PROVE  Append(allocated, clock)[i] > clock - Config.dayMs
      <3>1. CASE i \in 1 .. Len(allocated)
        <4>1. /\ allocated[i] > clock - Config.dayMs
              /\ Append(allocated, clock)[i] = allocated[i]
          BY <1>1, <2>2, <3>1
        <4> QED
          BY <4>1
      <3>2. CASE i = Len(allocated) + 1
        BY <2>2, <2>3, <3>2
      <3> QED
        BY <2>2, <2>4, <3>1, <3>2
    <2>5. CASE granted
      BY <1>5, <2>1, <2>4, <2>5
    <2>6. CASE ~granted
      BY <1>1, <1>5, <2>6
    <2> QED
      BY <2>5, <2>6
  <1>12. ASSUME Config.onboardGlobal > 0 PROVE MinuteHolds'
    <2>1. Taken(admitted.onboard.globalHits, Config.onboardGlobal)
      BY <1>12 DEF DoorsInv, MinuteHolds
    <2>5. OneMore(minute, admitted.onboard, Config.onboardGlobal, Config.minuteMs)
      BY <1>1, <1>3, <1>12, <2>1, SlotTaken
    <2>2. /\ Taken(minute.limiter.globalHits, Config.onboardGlobal)
          /\ \A k \in Int : k >= clock - Config.minuteMs =>
               Count(minute.limiter.globalHits, k)
                 = Count(Minute, k) + IF minute.allowed /\ clock > k THEN 1 ELSE 0
      BY <2>5 DEF OneMore
    <2>3. Minute' = minute.limiter.globalHits
      BY <1>6 DEF Minute
    <2>4. ASSUME NEW k \in Int, k >= clock - Config.minuteMs
          PROVE  Count(allocated', k) <= Count(Minute', k)
      <3>1. Count(allocated, k) <= Count(Minute, k)
        BY <1>12, <2>4 DEF DoorsInv, MinuteHolds
      <3>2. Count(Minute', k) = Count(Minute, k) + IF minute.allowed /\ clock > k THEN 1 ELSE 0
        BY <2>2, <2>3, <2>4
      <3>3. Count(Minute, k) \in Nat
        BY <1>1, CountIs
      <3> QED
        BY <1>7, <1>10, <3>1, <3>2, <3>3
    <2> QED
      BY <2>2, <2>3, <2>4 DEF MinuteHolds, Taken
  <1>13. ASSUME Config.dailyMax > 0 PROVE DayHolds'
    <2>1. Taken(doors.daily.globalHits, Config.dailyMax)
      BY <1>13 DEF DoorsInv, DayHolds, Day
    <2>6. OneMore(day, doors.daily, Config.dailyMax, Config.dayMs)
      BY <1>1, <1>4, <1>13, <2>1, SlotTaken
    <2>2. /\ Taken(day.limiter.globalHits, Config.dailyMax)
          /\ \A k \in Int : k >= clock - Config.dayMs =>
               Count(day.limiter.globalHits, k)
                 = Count(Day, k) + IF day.allowed /\ clock > k THEN 1 ELSE 0
      BY <2>6 DEF OneMore, Day
    <2>3. Day' = IF minute.allowed THEN day.limiter.globalHits ELSE Day
      BY <1>6 DEF Day
    <2>4. ASSUME NEW k \in Int, k >= clock - Config.dayMs
          PROVE  Count(Day', k) = Count(allocated', k)
      <3>1. Count(Day, k) = Count(allocated, k)
        BY <1>13, <2>4 DEF DoorsInv, DayHolds
      <3>2. CASE minute.allowed
        <4>1. Count(Day', k) = Count(Day, k) + IF day.allowed /\ clock > k THEN 1 ELSE 0
          BY <2>2, <2>3, <2>4, <3>2
        <4> QED
          BY <1>10, <3>1, <3>2, <4>1
      <3>3. CASE ~minute.allowed
        <4>1. Count(allocated', k) = Count(allocated, k)
          BY <1>10, <3>3
        <4> QED
          BY <2>3, <3>1, <3>3, <4>1
      <3> QED
        BY <3>2, <3>3
    <2>5. Taken(Day', Config.dailyMax)
      BY <2>1, <2>2, <2>3 DEF Day
    <2> QED
      BY <2>4, <2>5 DEF DayHolds, Taken
  <1> QED
    BY <1>9, <1>11, <1>12, <1>13 DEF DoorsInv

\* the window moves on
LEMMA DoorsAged ==
    ASSUME Capped, DoorsInv, clock < MaxTime, clock' = clock + 1, doors' = doors,
           allocated' = Prune(allocated, clock', Config.dayMs)
    PROVE  DoorsInv'
  <1>1. /\ Clock \subseteq Int /\ clock \in Int /\ clock \in Clock
        /\ Minute \in Seq(Int) /\ Day \in Seq(Int) /\ allocated \in Seq(Int)
        /\ allocated \in Seq(Clock) /\ DoorTypes
        /\ InOrder(allocated, clock)
        /\ Config.minuteMs \in Int /\ Config.dayMs \in Int
    BY DoorsAre DEF DoorsInv, DoorTypes, Capped
  <1>2. /\ clock' \in Clock /\ clock' \in Int /\ clock <= clock'
        /\ Minute' = Minute /\ Day' = Day
    BY <1>1 DEF Capped, Clock, Minute, Day
  <1>3. DoorTypes'
    <2>1. Prune(allocated, clock', Config.dayMs) \in Seq(Clock)
      BY <1>1, <1>2, PruneIs
    <2> QED
      BY <1>1, <1>2, <2>1 DEF DoorTypes
  <1>4. InOrder(allocated, clock')
    BY <1>1, <1>2, InOrderStays
  <1>5. /\ InOrder(allocated', clock')
        /\ \A i \in DOMAIN allocated' : allocated'[i] > clock' - Config.dayMs
        /\ allocated' \in Seq(Int)
    BY <1>1, <1>2, <1>4, PrunedIsYoung
  <1>6. ASSUME Config.onboardGlobal > 0 PROVE MinuteHolds'
    <2>1. InOrder(Minute, clock) /\ Len(Minute) <= Config.onboardGlobal
      BY <1>6 DEF DoorsInv, MinuteHolds, Taken
    <2>2. InOrder(Minute, clock')
      BY <1>1, <1>2, <2>1, InOrderStays
    <2>3. ASSUME NEW k \in Int, k >= clock' - Config.minuteMs
          PROVE  Count(allocated', k) <= Count(Minute, k)
      <3>1. k >= clock - Config.minuteMs
        BY <1>1, <1>2, <2>3
      <3>2. Count(allocated, k) <= Count(Minute, k)
        BY <1>6, <3>1 DEF DoorsInv, MinuteHolds
      <3>3. Count(allocated', k) <= Count(allocated, k)
        BY <1>1, <1>2, <1>4, CountShrinks
      <3>4. Count(allocated', k) \in Nat /\ Count(allocated, k) \in Nat /\ Count(Minute, k) \in Nat
        BY <1>1, <1>5, CountIs
      <3> QED
        BY <3>2, <3>3, <3>4
    <2> QED
      BY <1>2, <2>1, <2>2, <2>3 DEF MinuteHolds, Taken
  <1>7. ASSUME Config.dailyMax > 0 PROVE DayHolds'
    <2>1. InOrder(Day, clock) /\ Len(Day) <= Config.dailyMax
      BY <1>7 DEF DoorsInv, DayHolds, Taken
    <2>2. InOrder(Day, clock')
      BY <1>1, <1>2, <2>1, InOrderStays
    <2>3. ASSUME NEW k \in Int, k >= clock' - Config.dayMs
          PROVE  Count(Day, k) = Count(allocated', k)
      <3>1. k >= clock - Config.dayMs
        BY <1>1, <1>2, <2>3
      <3>2. Count(Day, k) = Count(allocated, k)
        BY <1>7, <3>1 DEF DoorsInv, DayHolds
      <3>3. Count(allocated', k) = Count(allocated, k)
        BY <1>1, <1>2, <2>3, CountPruned
      <3> QED
        BY <3>2, <3>3
    <2> QED
      BY <1>2, <2>1, <2>2, <2>3 DEF DayHolds, Taken
  <1> QED
    BY <1>3, <1>5, <1>6, <1>7 DEF DoorsInv

\* and every step
LEMMA DoorsNext == ASSUME Capped, DoorsInv, [Doors!Next]_Doors!vars PROVE DoorsInv'
  <1>1. /\ DoorTypes /\ allocated \in Seq(Clock) /\ clock \in Clock
        /\ doors \in [submit : {doors.submit}, onboard : {doors.onboard}, daily : {doors.daily}]
    BY DEF DoorsInv, DoorTypes
  <1>2. ASSUME NEW where, NEW ip, NEW l, l = Doors!OnboardAdmission(where, ip).limiter,
               doors' = [doors EXCEPT !.onboard = l], clock' = clock, allocated' = allocated
        PROVE  DoorsInv'
    <2>1. IsLimiter(l, Clock) /\ l.globalHits = Minute
      BY <1>1, <1>2, AdmissionIs
    <2>2. /\ doors'.onboard = l /\ doors'.daily = doors.daily
          /\ doors' \in [submit : {doors'.submit}, onboard : {doors'.onboard}, daily : {doors'.daily}]
      BY <1>1, <1>2
    <2>3. DoorTypes' /\ Minute' = Minute /\ Day' = Day
      BY <1>1, <1>2, <2>1, <2>2 DEF DoorTypes, Minute, Day
    <2> QED
      BY <1>2, <2>3, DoorsKept
  <1>3. ASSUME NEW where, NEW ip, Doors!Prepare(where, ip) PROVE DoorsInv'
    BY <1>2, <1>3 DEF Doors!Prepare
  <1>4. ASSUME NEW ip, NEW wellFormed \in BOOLEAN, Doors!Finalize(ip, wellFormed) PROVE DoorsInv'
    <2> DEFINE r == Doors!OnboardAdmission("onboard/finalize", ip)
               admitted == [doors EXCEPT !.onboard = r.limiter]
               spend == Doors!SpendAllowed(admitted)
               spends == r.allowed /\ wellFormed
    <2>1. /\ doors' = IF spends THEN spend.limiters ELSE admitted
          /\ allocated' = IF spends /\ spend.allowed THEN Append(allocated, clock) ELSE allocated
          /\ clock' = clock
      BY <1>4 DEF Doors!Finalize
    <2>2. IsLimiter(r.limiter, Clock) /\ r.limiter.globalHits = Minute
      BY <1>1, AdmissionIs
    <2>3. admitted.onboard = r.limiter
      BY <1>1
    <2>4. CASE ~spends
      <3>1. doors' = admitted /\ allocated' = allocated
        BY <2>1, <2>4
      <3> QED
        BY <1>2, <2>1, <3>1
    <2>5. CASE spends
      <3>1. /\ doors' = spend.limiters
            /\ allocated' = IF spend.allowed THEN Append(allocated, clock) ELSE allocated
        BY <2>1, <2>5
      <3> HIDE DEF r
      <3>2. /\ IsLimiter(admitted.onboard, Clock) /\ admitted.onboard.globalHits = Minute
            /\ admitted = [doors EXCEPT !.onboard = admitted.onboard]
        BY <2>2, <2>3
      <3>3. spend = Doors!SpendAllowed(admitted)
        OBVIOUS
      <3> HIDE DEF spend, admitted
      <3> QED
        BY <2>1, <3>1, <3>2, <3>3, SlotsSpent
    <2> QED
      BY <2>4, <2>5
  <1>5. ASSUME NEW party, NEW ip, Doors!Submit(party, ip) PROVE DoorsInv'
    <2>1. PICK l : doors' = [doors EXCEPT !.submit = l]
      BY <1>5 DEF Doors!Submit
    <2>2. clock' = clock /\ allocated' = allocated
      BY <1>5 DEF Doors!Submit
    <2>3. /\ doors'.onboard = doors.onboard /\ doors'.daily = doors.daily
          /\ doors' \in [submit : {doors'.submit}, onboard : {doors'.onboard}, daily : {doors'.daily}]
      BY <1>1, <2>1
    <2>4. DoorTypes' /\ Minute' = Minute /\ Day' = Day
      BY <1>1, <2>2, <2>3 DEF DoorTypes, Minute, Day
    <2> QED
      BY <2>2, <2>4, DoorsKept
  <1>6. ASSUME Doors!Tick PROVE DoorsInv'
    BY <1>6, DoorsLimits, DoorsAged DEF Doors!Tick
  <1>7. ASSUME UNCHANGED Doors!vars PROVE DoorsInv'
    BY <1>1, <1>7, DoorsKept DEF Doors!vars, DoorTypes, Minute, Day
  <1> QED
    BY <1>3, <1>4, <1>5, <1>6, <1>7 DEF Doors!Next

(***************************************************************************)
(* However callers spread over addresses, no minute and no day sees more   *)
(* allocations begun than it has slots, and every slot of the day that is  *)
(* taken is an allocation begun.                                           *)
(***************************************************************************)
THEOREM AllocationsBounded == ASSUME Capped PROVE Doors!Spec => []Doors!AllocationBudgets
  <1>1. Doors!Init => DoorsInv
    BY DoorsAtFirst
  <1>2. DoorsInv /\ [Doors!Next]_Doors!vars => DoorsInv'
    BY DoorsNext
  <1>3. DoorsInv => Doors!AllocationBudgets
    BY DoorsGive
  <1> QED
    BY <1>1, <1>2, <1>3, PTL DEF Doors!Spec

-----------------------------------------------------------------------------
(* The penalty box.                                                        *)

\* the powers of m up to the n-th
Powers(g, m, n) ==
    g \in [0 .. n -> Nat] /\ g[0] = 1 /\ \A i \in 1 .. n : g[i] = m * g[i - 1]

\* they exist, up to any
LEMMA PowersUpTo == ASSUME NEW m \in Nat, NEW n \in Nat PROVE \E g : Powers(g, m, n)
  <1> DEFINE T == {k \in Nat : ~\E g : Powers(g, m, k)}
  <1>1. ASSUME NEW k \in T, \A j \in T : k <= j PROVE FALSE
    <2>1. CASE k = 0
      <3>1. Powers([i \in 0 .. 0 |-> 1], m, 0)
        BY DEF Powers
      <3> QED
        BY <1>1, <2>1, <3>1
    <2>2. CASE k # 0
      <3>1. k - 1 \in Nat /\ k \in Nat /\ k - 1 \notin T
        BY <1>1, <2>2
      <3>2. PICK g : Powers(g, m, k - 1)
        BY <3>1
      <3> DEFINE h == [i \in 0 .. k |-> IF i = k THEN m * g[k - 1] ELSE g[i]]
      <3>3. /\ g \in [0 .. k - 1 -> Nat] /\ g[0] = 1
            /\ \A i \in 1 .. k - 1 : g[i] = m * g[i - 1]
        BY <3>2 DEF Powers
      <3>4. m * g[k - 1] \in Nat
        <4>1. g[k - 1] \in Nat
          BY <3>1, <3>3
        <4> QED
          BY <4>1
      <3>5. h \in [0 .. k -> Nat] /\ h[0] = 1
        BY <2>2, <3>1, <3>3, <3>4
      <3>6. \A i \in 1 .. k : h[i] = m * h[i - 1]
        BY <3>1, <3>3
      <3> HIDE DEF h
      <3>7. Powers(h, m, k)
        BY <3>5, <3>6 DEF Powers
      <3> QED
        BY <1>1, <3>7
    <2> QED
      BY <2>1, <2>2
  <1>2. T = {}
    BY <1>1, LeastNat
  <1> QED
    BY <1>2

\* and are the same, however far they go
LEMMA PowersAgree ==
    ASSUME NEW m \in Nat, NEW n \in Nat, NEW k \in Nat, n <= k,
           NEW g, NEW h, Powers(g, m, n), Powers(h, m, k)
    PROVE  \A i \in 0 .. n : g[i] = h[i]
  <1> DEFINE T == {i \in 0 .. n : g[i] # h[i]}
  <1>1. ASSUME NEW i \in T, \A j \in T : i <= j PROVE FALSE
    <2>1. i # 0 /\ i \in 1 .. n /\ i \in 1 .. k
      BY <1>1 DEF Powers
    <2>2. g[i] = m * g[i - 1] /\ h[i] = m * h[i - 1]
      BY <2>1 DEF Powers
    <2>3. i - 1 \in 0 .. n /\ i - 1 \notin T
      BY <1>1, <2>1
    <2> QED
      BY <1>1, <2>2, <2>3
  <1>2. T \subseteq Nat
    OBVIOUS
  <1>3. T = {}
    BY <1>1, <1>2, LeastNat
  <1> QED
    BY <1>3

\* so the recursion has a function
LEMMA PowersExist ==
    ASSUME NEW m \in Nat
    PROVE  \E g : g = [n \in Nat |-> IF n = 0 THEN 1 ELSE m * g[n - 1]]
  <1> DEFINE P(n) == CHOOSE g : Powers(g, m, n)
             f == [n \in Nat |-> P(n)[n]]
  <1>1. \A n \in Nat : Powers(P(n), m, n)
    BY PowersUpTo
  <1>2. f[0] = 1
    BY <1>1 DEF Powers
  <1>3. ASSUME NEW n \in Nat, n # 0 PROVE f[n] = m * f[n - 1]
    <2>1. n - 1 \in Nat /\ n - 1 <= n /\ Powers(P(n), m, n) /\ Powers(P(n - 1), m, n - 1)
      BY <1>1, <1>3
    <2> HIDE DEF P
    <2>2. P(n)[n] = m * P(n)[n - 1]
      BY <1>3, <2>1 DEF Powers
    <2>3. P(n - 1)[n - 1] = P(n)[n - 1]
      BY <2>1, PowersAgree
    <2> QED
      BY <2>1, <2>2, <2>3
  <1> HIDE DEF P
  <1>4. f = [n \in Nat |-> IF n = 0 THEN 1 ELSE m * f[n - 1]]
    BY <1>2, <1>3
  <1> QED
    BY <1>4

\* it is the escalation
LEMMA EscalationIs ==
    ASSUME Config.multiplier \in Nat
    PROVE  \A n \in Nat :
             /\ Doors!Escalation[n] \in Nat
             /\ Doors!Escalation[n + 1] = Config.multiplier * Doors!Escalation[n]
  <1> DEFINE f == Doors!Escalation
             m == Config.multiplier
  <1>1. f = CHOOSE g : g = [n \in Nat |-> IF n = 0 THEN 1 ELSE m * g[n - 1]]
    BY Zenon DEF Doors!Escalation
  <1> HIDE DEF f, m
  <1>2. m \in Nat
    BY DEF m
  <1>3. f = [n \in Nat |-> IF n = 0 THEN 1 ELSE m * f[n - 1]]
    BY <1>1, <1>2, PowersExist, Zenon
  <1>4. f[0] = 1 /\ \A n \in Nat : f[n + 1] = m * f[n]
    <2>1. f[0] = 1
      BY <1>3
    <2>2. ASSUME NEW n \in Nat PROVE f[n + 1] = m * f[n]
      <3>1. n + 1 \in Nat /\ n + 1 # 0 /\ (n + 1) - 1 = n
        OBVIOUS
      <3>2. f[n + 1] = m * f[(n + 1) - 1]
        BY <1>3, <3>1
      <3> QED
        BY <3>1, <3>2
    <2> QED
      BY <2>1, <2>2
  <1>5. \A n \in Nat : f[n] \in Nat
    <2> DEFINE T == {n \in Nat : f[n] \notin Nat}
    <2>1. ASSUME NEW n \in T, \A k \in T : n <= k PROVE FALSE
      <3>1. n # 0 /\ n - 1 \in Nat /\ n - 1 \notin T
        BY <1>4, <2>1
      <3>2. f[(n - 1) + 1] = m * f[n - 1] /\ f[n - 1] \in Nat /\ (n - 1) + 1 = n
        BY <1>4, <3>1
      <3>3. m * f[n - 1] \in Nat
        BY <1>2, <3>2
      <3> QED
        BY <2>1, <3>2, <3>3
    <2>2. T = {}
      BY <2>1, LeastNat
    <2> QED
      BY <2>2
  <1> QED
    BY <1>4, <1>5 DEF f, m

\* what the box is configured with: a spacing of zero counts every refusal, and
\* the refusals of one instant are one in a set of times
Boxed ==
    /\ Config.strikesToBan \in Int
    /\ Config.strikeWindowMs \in Nat \ {0} /\ Config.strikeSpacingMs \in Nat \ {0}
    /\ Config.baseBanMs \in Nat /\ Config.multiplier \in Nat /\ Config.maxBanMs \in Nat
    /\ Config.submitMax \in Int /\ Config.submitIpMax \in Int
    /\ Config.onboardGlobal \in Int /\ Config.minuteMs \in Nat \ {0}
    /\ MaxTime \in Nat

\* each strike is an episode of its own
Spaced(strikes) ==
    \A i, j \in DOMAIN strikes : i < j => strikes[j] - strikes[i] >= Config.strikeSpacingMs

\* the times that have left the window
Cutoff(now) == now - Config.strikeWindowMs

\* the refusal belongs to the episode of a strike
OfEpisode(t, strikes, i, now) ==
    strikes[i] > Cutoff(now) /\ strikes[i] <= t /\ t < strikes[i] + Config.strikeSpacingMs

\* every recent strike is a refusal; every refusal is of a recent strike's
\* episode, or of the one episode whose strike has left the window
StrikesHold(strikes, refusals, now) ==
    /\ strikes \in Seq(Int) /\ now \in Int /\ refusals \subseteq Int
    /\ Spaced(strikes) /\ Len(strikes) < Config.strikesToBan
    /\ \A i \in DOMAIN strikes : strikes[i] <= now
    /\ \A i \in DOMAIN strikes : strikes[i] > Cutoff(now) => strikes[i] \in refusals
    /\ \A t \in refusals : t > Cutoff(now)
    /\ \A t \in refusals : \/ t < Cutoff(now) + Config.strikeSpacingMs
                       \/ \E i \in DOMAIN strikes : OfEpisode(t, strikes, i, now)

\* the recent strikes
Recent(strikes, now) == Prune(strikes, now, Config.strikeWindowMs)

\* at the start, and when a ban has just opened
LEMMA NoStrikes ==
    ASSUME Boxed, Config.strikesToBan > 0, NEW now \in Int
    PROVE  StrikesHold(<< >>, {}, now)
  BY EmptySeq DEF StrikesHold, Spaced, Boxed

\* strikes come in order
LEMMA SpacedInOrder ==
    ASSUME Boxed, NEW strikes \in Seq(Int), NEW now \in Int, Spaced(strikes),
           \A i \in DOMAIN strikes : strikes[i] <= now
    PROVE  InOrder(strikes, now)
  <1>1. /\ \A i \in DOMAIN strikes : strikes[i] \in Int /\ i \in Int
        /\ Config.strikeSpacingMs \in Int /\ Config.strikeSpacingMs > 0
    BY LenProperties, ElementOfSeq DEF Boxed
  <1>2. ASSUME NEW i \in DOMAIN strikes, NEW j \in DOMAIN strikes, i <= j
        PROVE  strikes[i] <= strikes[j]
    <2>1. strikes[i] \in Int /\ strikes[j] \in Int /\ i \in Int /\ j \in Int
      BY <1>1
    <2>2. CASE i = j
      BY <2>1, <2>2
    <2>3. CASE i # j
      <3>1. strikes[j] - strikes[i] >= Config.strikeSpacingMs
        BY <1>2, <2>1, <2>3 DEF Spaced
      <3> QED
        BY <1>1, <2>1, <3>1
    <2> QED
      BY <2>2, <2>3
  <1> QED
    BY <1>2 DEF InOrder

\* what pruning leaves of them
LEMMA RecentHold ==
    ASSUME Boxed, NEW strikes, NEW refusals, NEW now, StrikesHold(strikes, refusals, now)
    PROVE  /\ StrikesHold(Recent(strikes, now), refusals, now)
           /\ \A i \in DOMAIN Recent(strikes, now) : Recent(strikes, now)[i] > Cutoff(now)
  <1> DEFINE left == Recent(strikes, now)
  <1>1. /\ strikes \in Seq(Int) /\ now \in Int /\ refusals \subseteq Int
        /\ Config.strikeWindowMs \in Int /\ Cutoff(now) \in Int
        /\ now - Config.strikeWindowMs = Cutoff(now)
    BY DEF StrikesHold, Boxed, Cutoff
  <1>2. InOrder(strikes, now)
    BY <1>1, SpacedInOrder DEF StrikesHold
  <1>3. /\ left \in Seq(Int) /\ InOrder(left, now) /\ Len(left) <= Len(strikes)
        /\ \A i \in DOMAIN left : left[i] > Cutoff(now)
    BY <1>1, <1>2, PrunedIsYoung DEF Recent
  <1>4. PICK n \in Nat : Leaves(left, strikes, Cutoff(now), n)
    BY <1>1, PruneIs DEF Recent
  <1>5. /\ Len(strikes) \in Nat /\ DOMAIN strikes = 1 .. Len(strikes)
        /\ Len(left) \in Nat /\ DOMAIN left = 1 .. Len(left)
        /\ Len(left) = Len(strikes) - n /\ n <= Len(strikes)
    BY <1>1, <1>3, <1>4, LenProperties DEF Leaves
  <1> HIDE DEF left
  <1>6. /\ \A i \in DOMAIN left : n + i \in DOMAIN strikes /\ left[i] = strikes[n + i]
        /\ \A i \in DOMAIN strikes : i <= n => strikes[i] <= Cutoff(now)
        /\ \A i \in DOMAIN strikes : i > n => i - n \in DOMAIN left /\ left[i - n] = strikes[i]
    BY <1>4, <1>5 DEF Leaves
  <1>7. Spaced(left)
    BY <1>5, <1>6 DEF Spaced, StrikesHold
  <1>8. Len(left) < Config.strikesToBan
    BY <1>3, <1>5 DEF StrikesHold, Boxed
  <1>9. \A i \in DOMAIN left : left[i] <= now /\ (left[i] > Cutoff(now) => left[i] \in refusals)
    BY <1>6 DEF StrikesHold
  <1>10. ASSUME NEW t \in refusals, ~(t < Cutoff(now) + Config.strikeSpacingMs)
         PROVE  \E i \in DOMAIN left : OfEpisode(t, left, i, now)
    <2>1. PICK i \in DOMAIN strikes : OfEpisode(t, strikes, i, now)
      BY <1>10 DEF StrikesHold
    <2>2. strikes[i] > Cutoff(now) /\ strikes[i] \in Int /\ i \in Int
      BY <1>1, <1>5, <2>1, ElementOfSeq DEF OfEpisode
    <2>3. i > n
      BY <1>1, <1>6, <2>2
    <2>4. i - n \in DOMAIN left /\ left[i - n] = strikes[i]
      BY <1>6, <2>3
    <2> QED
      BY <2>1, <2>4 DEF OfEpisode
  <1>11. StrikesHold(left, refusals, now)
    BY <1>1, <1>3, <1>7, <1>8, <1>9, <1>10 DEF StrikesHold
  <1> QED
    BY <1>3, <1>11 DEF left

\* time passes
LEMMA StrikesLater ==
    ASSUME Boxed, NEW strikes, NEW refusals, NEW now, StrikesHold(strikes, refusals, now)
    PROVE  StrikesHold(strikes, {t \in refusals : now + 1 - t < Config.strikeWindowMs}, now + 1)
  <1> DEFINE left == {t \in refusals : now + 1 - t < Config.strikeWindowMs}
             gap == Config.strikeSpacingMs
  <1>1. /\ strikes \in Seq(Int) /\ now \in Int /\ refusals \subseteq Int
        /\ gap \in Int /\ Config.strikeWindowMs \in Int
        /\ Cutoff(now) \in Int /\ Cutoff(now + 1) = Cutoff(now) + 1
        /\ \A t \in refusals : t \in left <=> t > Cutoff(now + 1)
        /\ \A i \in DOMAIN strikes : strikes[i] \in Int
    <2>1. strikes \in Seq(Int) /\ now \in Int /\ refusals \subseteq Int
      BY DEF StrikesHold
    <2>2. gap \in Int /\ Config.strikeWindowMs \in Int
      BY DEF Boxed
    <2>3. Cutoff(now) \in Int /\ Cutoff(now + 1) = Cutoff(now) + 1
      BY <2>1, <2>2 DEF Cutoff
    <2>4. \A t \in refusals : t \in left <=> t > Cutoff(now + 1)
      BY <2>1, <2>2 DEF Cutoff
    <2>5. \A i \in DOMAIN strikes : strikes[i] \in Int
      BY <2>1, LenProperties, ElementOfSeq
    <2> QED
      BY <2>1, <2>2, <2>3, <2>4, <2>5
  <1> HIDE DEF left
  <1>2. \A i \in DOMAIN strikes :
          /\ strikes[i] <= now + 1
          /\ strikes[i] > Cutoff(now + 1) => strikes[i] \in left
    BY <1>1 DEF StrikesHold
  <1>3. ASSUME NEW t \in left, ~(t < Cutoff(now + 1) + gap)
        PROVE  \E i \in DOMAIN strikes : OfEpisode(t, strikes, i, now + 1)
    <2>1. t \in refusals /\ t \in Int /\ ~(t < Cutoff(now) + gap)
      BY <1>1, <1>3 DEF left
    <2>2. PICK i \in DOMAIN strikes : OfEpisode(t, strikes, i, now)
      BY <2>1 DEF StrikesHold
    <2>3. strikes[i] > Cutoff(now + 1)
      BY <1>1, <1>3, <2>1, <2>2 DEF OfEpisode
    <2> QED
      BY <2>2, <2>3 DEF OfEpisode
  <1>4. left \subseteq refusals
    BY DEF left
  <1>5. StrikesHold(strikes, left, now + 1)
    BY <1>1, <1>2, <1>3, <1>4 DEF StrikesHold
  <1> QED
    BY <1>5 DEF left

\* a refusal close to the last strike
LEMMA StrikesTold ==
    ASSUME Boxed, NEW strikes, NEW refusals, NEW now, StrikesHold(strikes, refusals, now),
           strikes # << >>, now - strikes[Len(strikes)] < Config.strikeSpacingMs,
           strikes[Len(strikes)] > Cutoff(now)
    PROVE  StrikesHold(strikes, refusals \cup {now}, now)
  <1>1. /\ strikes \in Seq(Int) /\ now \in Int /\ refusals \subseteq Int
        /\ Len(strikes) \in Nat /\ DOMAIN strikes = 1 .. Len(strikes)
        /\ \A i \in DOMAIN strikes : strikes[i] \in Int
    BY LenProperties, ElementOfSeq DEF StrikesHold
  <1>2. Len(strikes) \in DOMAIN strikes
    BY <1>1, EmptySeq
  <1>3. strikes[Len(strikes)] \in Int /\ strikes[Len(strikes)] <= now
        /\ Config.strikeSpacingMs \in Int
    BY <1>1, <1>2 DEF StrikesHold, Boxed
  <1>4. OfEpisode(now, strikes, Len(strikes), now)
    BY <1>1, <1>3 DEF OfEpisode
  <1>5. now > Cutoff(now)
    BY <1>1 DEF Cutoff, Boxed
  <1> QED
    BY <1>1, <1>2, <1>4, <1>5 DEF StrikesHold

\* no strike left, or the last not close
Apart(strikes, now) ==
    strikes # << >> => now - strikes[Len(strikes)] >= Config.strikeSpacingMs

\* the strikes with a new one
LEMMA NewStrike ==
    ASSUME Boxed, NEW strikes, NEW refusals, NEW now, StrikesHold(strikes, refusals, now),
           Apart(strikes, now), \A i \in DOMAIN strikes : strikes[i] > Cutoff(now)
    PROVE  LET after == Append(strikes, now)
           IN  /\ after \in Seq(Int) /\ Spaced(after) /\ Len(after) = Len(strikes) + 1
               /\ \A i \in DOMAIN after : after[i] \in refusals \cup {now}
               /\ Len(after) < Config.strikesToBan => StrikesHold(after, refusals \cup {now}, now)
  <1> DEFINE after == Append(strikes, now)
             n == Len(strikes)
  <1>1. /\ strikes \in Seq(Int) /\ now \in Int /\ refusals \subseteq Int
        /\ n \in Nat /\ DOMAIN strikes = 1 .. n
        /\ \A i \in DOMAIN strikes : strikes[i] \in Int
    BY LenProperties, ElementOfSeq DEF StrikesHold
  <1>2. /\ after \in Seq(Int) /\ Len(after) = n + 1 /\ DOMAIN after = 1 .. n + 1
        /\ after[n + 1] = now /\ \A i \in 1 .. n : after[i] = strikes[i]
    <2>1. after \in Seq(Int) /\ Len(after) = n + 1
      BY <1>1, AppendProperties
    <2>2. after[n + 1] = now /\ \A i \in 1 .. n : after[i] = strikes[i]
      BY <1>1, AppendProperties
    <2> QED
      BY <1>1, <2>1, <2>2, LenProperties
  <1> HIDE DEF after, n
  <1>3. Config.strikeSpacingMs \in Int /\ Config.strikeSpacingMs > 0 /\ Cutoff(now) \in Int
        /\ now > Cutoff(now)
    BY <1>1 DEF Boxed, Cutoff
  <1>4. \A i \in 1 .. n : strikes[i] <= now - Config.strikeSpacingMs
    <2>1. CASE n = 0
      BY <2>1
    <2>2. CASE n > 0
      <3>1. strikes # << >>
        BY <2>2, EmptySeq DEF n
      <3>2. now - strikes[n] >= Config.strikeSpacingMs
        BY <3>1 DEF Apart, n
      <3>3. \A i \in 1 .. n : i < n => strikes[n] - strikes[i] >= Config.strikeSpacingMs
        BY <1>1, <2>2 DEF StrikesHold, Spaced
      <3>4. strikes[n] \in Int /\ strikes[n] <= now - Config.strikeSpacingMs
        BY <1>1, <1>3, <2>2, <3>2
      <3>5. ASSUME NEW i \in 1 .. n PROVE strikes[i] <= now - Config.strikeSpacingMs
        <4>1. strikes[i] \in Int
          BY <1>1
        <4>2. CASE i = n
          BY <3>4, <4>2
        <4>3. CASE i # n
          <5>1. strikes[n] - strikes[i] >= Config.strikeSpacingMs
            BY <1>1, <3>3, <4>3
          <5> QED
            BY <1>1, <1>3, <3>4, <4>1, <5>1
        <4> QED
          BY <4>2, <4>3
      <3> QED
        BY <3>5
    <2> QED
      BY <1>1, <2>1, <2>2
  <1>5. Spaced(after)
    <2> SUFFICES ASSUME NEW i \in DOMAIN after, NEW j \in DOMAIN after, i < j
                 PROVE  after[j] - after[i] >= Config.strikeSpacingMs
      BY DEF Spaced
    <2>1. i \in 1 .. n /\ after[i] = strikes[i] /\ strikes[i] \in Int
      BY <1>1, <1>2
    <2>2. CASE j = n + 1
      BY <1>1, <1>2, <1>3, <1>4, <2>1, <2>2
    <2>3. CASE j # n + 1
      BY <1>1, <1>2, <2>1, <2>3 DEF StrikesHold, Spaced
    <2> QED
      BY <2>2, <2>3
  <1>6. \A i \in DOMAIN after : after[i] \in refusals \cup {now} /\ after[i] <= now
    BY <1>1, <1>2 DEF StrikesHold
  <1>7. ASSUME Len(after) < Config.strikesToBan
        PROVE  StrikesHold(after, refusals \cup {now}, now)
    <2>1. OfEpisode(now, after, n + 1, now) /\ n + 1 \in DOMAIN after
      BY <1>1, <1>2, <1>3 DEF OfEpisode
    <2>2. ASSUME NEW t \in refusals, ~(t < Cutoff(now) + Config.strikeSpacingMs)
          PROVE  \E i \in DOMAIN after : OfEpisode(t, after, i, now)
      <3>1. PICK i \in DOMAIN strikes : OfEpisode(t, strikes, i, now)
        BY <2>2 DEF StrikesHold
      <3>2. i \in DOMAIN after /\ after[i] = strikes[i]
        BY <1>1, <1>2
      <3> QED
        BY <3>1, <3>2 DEF OfEpisode
    <2>3. \A t \in refusals \cup {now} : t > Cutoff(now)
      BY <1>3 DEF StrikesHold
    <2> QED
      BY <1>1, <1>2, <1>5, <1>6, <1>7, <2>1, <2>2, <2>3 DEF StrikesHold
  <1> QED
    BY <1>2, <1>5, <1>6, <1>7 DEF after, n

\* times of episodes of their own
Apiece(some) == \A t, u \in some : t < u => u - t >= Config.strikeSpacingMs

\* the episodes of the property
LEMMA EpisodesAre ==
    ASSUME NEW refusals, NEW n
    PROVE  Doors!Episodes(refusals, n) <=>
             \E some \in SUBSET refusals : Cardinality(some) = n /\ Apiece(some)
  <1>1. \A S : Doors!Cardinality(S) = Cardinality(S)
    BY Zenon DEF Doors!Cardinality, Cardinality, Doors!IsFiniteSet, IsFiniteSet
  <1>2. Doors!kSubset(n, refusals) = {some \in SUBSET refusals : Cardinality(some) = n}
    BY <1>1 DEF Doors!kSubset
  <1> QED
    BY <1>2 DEF Doors!Episodes, Apiece

\* no more episodes than there are strikes, and one whose strike has left
LEMMA FewEpisodes ==
    ASSUME Boxed, NEW strikes, NEW refusals, NEW now, StrikesHold(strikes, refusals, now)
    PROVE  ~Doors!Episodes(refusals, Config.strikesToBan + 1)
  <1> SUFFICES ASSUME NEW some \in SUBSET refusals, Apiece(some),
                      Cardinality(some) = Config.strikesToBan + 1
               PROVE  FALSE
    BY EpisodesAre
  <1> DEFINE n == Len(strikes)
             gap == Config.strikeSpacingMs
             early == Cutoff(now) + gap
             Of(t) == CHOOSE i \in DOMAIN strikes : OfEpisode(t, strikes, i, now)
             g == [t \in some |-> IF t < early THEN 0 ELSE Of(t)]
  <1>1. /\ strikes \in Seq(Int) /\ now \in Int /\ some \subseteq Int
        /\ n \in Nat /\ DOMAIN strikes = 1 .. n
        /\ \A i \in 1 .. n : strikes[i] \in Int
        /\ Cutoff(now) \in Int /\ gap \in Int /\ n < Config.strikesToBan
        /\ \A t \in some : t > Cutoff(now)
    <2>1. strikes \in Seq(Int) /\ now \in Int /\ refusals \subseteq Int /\ n < Config.strikesToBan
      BY DEF StrikesHold
    <2>2. \A t \in some : t > Cutoff(now)
      BY DEF StrikesHold
    <2>3. n \in Nat /\ DOMAIN strikes = 1 .. n /\ \A i \in 1 .. n : strikes[i] \in Int
      BY <2>1, LenProperties, ElementOfSeq
    <2>4. Cutoff(now) \in Int /\ gap \in Int
      BY <2>1 DEF Boxed, Cutoff
    <2> QED
      BY <2>1, <2>2, <2>3, <2>4
  <1>2. ASSUME NEW t \in some, ~(t < early)
        PROVE  Of(t) \in 1 .. n /\ OfEpisode(t, strikes, Of(t), now)
    <2>1. \E i \in DOMAIN strikes : OfEpisode(t, strikes, i, now)
      BY <1>2 DEF StrikesHold
    <2> QED
      BY <1>1, <2>1
  <1> HIDE DEF Of, n
  <1>3. g \in [some -> 0 .. n]
    BY <1>1, <1>2
  <1>4. ASSUME NEW t \in some, NEW u \in some, g[t] = g[u] PROVE t = u
    <2>1. t \in Int /\ u \in Int /\ t > Cutoff(now) /\ u > Cutoff(now)
      BY <1>1
    <2>2. t - u < gap /\ u - t < gap
      <3>1. CASE t < early /\ u < early
        BY <1>1, <2>1, <3>1
      <3>2. CASE ~(t < early) /\ ~(u < early)
        <4>1. Of(t) = Of(u) /\ Of(t) \in 1 .. n
          BY <1>2, <1>4, <3>2
        <4>2. OfEpisode(t, strikes, Of(t), now) /\ OfEpisode(u, strikes, Of(t), now)
          BY <1>2, <3>2, <4>1
        <4>3. strikes[Of(t)] \in Int
          BY <1>1, <4>1
        <4> QED
          BY <1>1, <2>1, <4>2, <4>3 DEF OfEpisode
      <3>3. CASE t < early /\ ~(u < early)
        BY <1>2, <1>4, <3>3
      <3>4. CASE ~(t < early) /\ u < early
        BY <1>2, <1>4, <3>4
      <3> QED
        BY <3>1, <3>2, <3>3, <3>4
    <2>3. ~(t < u) /\ ~(u < t)
      BY <1>1, <2>1, <2>2 DEF Apiece
    <2> QED
      BY <2>1, <2>3
  <1> HIDE DEF g
  <1>5. g \in Injection(some, 0 .. n)
    BY <1>3, <1>4 DEF Injection, IsInjective
  <1>6. IsFiniteSet(0 .. n) /\ Cardinality(0 .. n) = n + 1
    BY <1>1, FS_Interval
  <1>7. IsFiniteSet(some) /\ Cardinality(some) <= n + 1
    BY <1>5, <1>6, FS_Injection
  <1> QED
    BY <1>1, <1>7 DEF Boxed

\* strikes are episodes
LEMMA StrikesAreEpisodes ==
    ASSUME Boxed, NEW strikes \in Seq(Int), NEW refusals, Spaced(strikes),
           \A i \in DOMAIN strikes : strikes[i] \in refusals
    PROVE  Doors!Episodes(refusals, Len(strikes))
  <1> DEFINE n == Len(strikes)
             some == {strikes[i] : i \in 1 .. n}
             f == [i \in 1 .. n |-> strikes[i]]
  <1>1. /\ n \in Nat /\ DOMAIN strikes = 1 .. n /\ \A i \in 1 .. n : strikes[i] \in Int
        /\ Config.strikeSpacingMs \in Int /\ Config.strikeSpacingMs > 0
    BY LenProperties, ElementOfSeq DEF Boxed
  <1> HIDE DEF n
  <1>2. ASSUME NEW i \in 1 .. n, NEW j \in 1 .. n, i < j
        PROVE  strikes[i] < strikes[j] /\ strikes[j] - strikes[i] >= Config.strikeSpacingMs
    <2>1. strikes[j] - strikes[i] >= Config.strikeSpacingMs
      BY <1>2, <1>1 DEF Spaced
    <2>2. strikes[i] \in Int /\ strikes[j] \in Int
      BY <1>1
    <2> QED
      BY <1>1, <2>1, <2>2
  <1>3. ASSUME NEW i \in 1 .. n, NEW j \in 1 .. n, strikes[i] = strikes[j] PROVE i = j
    <2>1. ~(i < j) /\ ~(j < i)
      BY <1>2, <1>1, <1>3
    <2> QED
      BY <1>1, <2>1
  <1>4. f \in Bijection(1 .. n, some)
    BY <1>3 DEF Bijection, Injection, Surjection, IsInjective
  <1>5. IsFiniteSet(1 .. n) /\ Cardinality(1 .. n) = n
    BY <1>1, FS_Interval
  <1>6. ExistsBijection(1 .. n, some)
    BY <1>4 DEF ExistsBijection
  <1>7. Cardinality(some) = n
    BY <1>5, <1>6, FS_Bijection
  <1>8. ASSUME NEW t \in some, NEW u \in some, t < u PROVE u - t >= Config.strikeSpacingMs
    <2>1. PICK i \in 1 .. n, j \in 1 .. n : t = strikes[i] /\ u = strikes[j]
      BY <1>8
    <2>2. i < j
      <3>1. strikes[i] \in Int /\ strikes[j] \in Int /\ strikes[i] < strikes[j]
        BY <1>1, <1>8, <2>1
      <3>2. i # j /\ ~(j < i)
        BY <1>2, <1>1, <3>1
      <3> QED
        BY <1>1, <3>2
    <2> QED
      BY <1>2, <2>1, <2>2
  <1>9. some \subseteq refusals
    BY <1>1
  <1> HIDE DEF some
  <1>10. Apiece(some)
    BY <1>8 DEF Apiece
  <1>11. Doors!Episodes(refusals, n)
    BY <1>7, <1>9, <1>10, EpisodesAre
  <1> QED
    BY <1>11 DEF n

\* the lesser of two
LEMMA LesserIs ==
    ASSUME NEW a \in Int, NEW b \in Int
    PROVE  Doors!Min({a, b}) = IF a <= b THEN a ELSE b
  BY DEF Doors!Min

\* a product grows with its factor
LEMMA TimesGrow ==
    ASSUME NEW a \in Nat, NEW b \in Nat, NEW c \in Nat, a <= b
    PROVE  a * c \in Nat /\ b * c \in Nat /\ a * c <= b * c
  <1>1. PICK d \in Nat : b = a + d
    <2>1. b - a \in Nat /\ b = a + (b - a)
      OBVIOUS
    <2> QED
      BY <2>1
  <1>2. a * c \in Nat /\ d * c \in Nat
    OBVIOUS
  <1>3. b * c = a * c + d * c
    BY <1>1
  <1> QED
    BY <1>2, <1>3

\* every ban is the one before times the multiplier, or as long as bans are
LEMMA BansGrow ==
    ASSUME Boxed, NEW k \in Nat
    PROVE  /\ Doors!BanMs(k) \in Nat
           /\ Doors!BanMs(k + 1) >= Doors!Min({Config.maxBanMs, Doors!BanMs(k) * Config.multiplier})
  <1> DEFINE m == Config.multiplier
             max == Config.maxBanMs
             x == Config.baseBanMs * Doors!Escalation[k]
             y == Config.baseBanMs * Doors!Escalation[k + 1]
             ban == Doors!BanMs(k)
  <1>1. m \in Nat /\ max \in Nat /\ Config.baseBanMs \in Nat
    BY DEF Boxed
  <1>2. Doors!Escalation[k] \in Nat /\ Doors!Escalation[k + 1] = m * Doors!Escalation[k]
    BY <1>1, EscalationIs
  <1>3. x \in Nat /\ x * m \in Nat
    BY <1>1, <1>2
  <1>4. y = x * m
    BY <1>1, <1>2
  <1>5. ban = (IF x <= max THEN x ELSE max) /\ Doors!BanMs(k + 1) = IF y <= max THEN y ELSE max
    BY <1>1, <1>3, <1>4, LesserIs DEF Doors!BanMs
  <1> HIDE DEF x, y, m, max, ban
  <1>6. ban \in Nat /\ ban <= x
    BY <1>1, <1>3, <1>5
  <1>7. ban * m \in Nat /\ ban * m <= x * m
    BY <1>1, <1>3, <1>6, TimesGrow
  <1>8. Doors!Min({max, ban * m}) = IF max <= ban * m THEN max ELSE ban * m
    BY <1>1, <1>7, LesserIs
  <1>9. Doors!BanMs(k + 1) >= Doors!Min({max, ban * m})
    BY <1>1, <1>3, <1>4, <1>5, <1>7, <1>8
  <1> QED
    BY <1>6, <1>9 DEF ban, m, max

EntryTypes == [strikes : Seq(Int), bannedUntil : Int, priorBans : Nat]
BanTypes == [ms : Int, until : Int]

\* an entry knows the last ban of its address, until a clean stretch
BanHolds(entry, ban, now) ==
    \/ entry.priorBans = 0 /\ ban.ms = 0
    \/ /\ entry.priorBans > 0
       /\ ban.ms = Doors!BanMs(entry.priorBans - 1) /\ ban.until = entry.bannedUntil
    \/ now >= ban.until + Config.maxBanMs

EntryHolds(entry, refusals, ban, now) ==
    /\ entry \in EntryTypes /\ ban \in BanTypes /\ now \in Int
    /\ StrikesHold(entry.strikes, refusals, now) /\ BanHolds(entry, ban, now)

\* an entry that was swept
Swept(left, entry, now) ==
    /\ left \in EntryTypes /\ left.strikes = Recent(entry.strikes, now)
    /\ \/ left.bannedUntil = entry.bannedUntil /\ left.priorBans = entry.priorBans
       \/ /\ now - entry.bannedUntil >= Config.maxBanMs
          /\ left.bannedUntil = 0 /\ left.priorBans = 0

\* a sweep keeps what an entry says
LEMMA SweptHolds ==
    ASSUME Boxed, NEW entry, NEW left, NEW refusals, NEW ban, NEW now,
           EntryHolds(entry, refusals, ban, now), Swept(left, entry, now)
    PROVE  EntryHolds(left, refusals, ban, now)
  <1>1. StrikesHold(left.strikes, refusals, now)
    BY RecentHold DEF EntryHolds, Swept
  <1>2. /\ entry.bannedUntil \in Int /\ entry.priorBans \in Nat
        /\ ban.ms \in Int /\ ban.until \in Int /\ now \in Int /\ Config.maxBanMs \in Int
    BY DEF EntryHolds, EntryTypes, BanTypes, Boxed
  <1>3. BanHolds(left, ban, now)
    BY <1>2 DEF EntryHolds, BanHolds, Swept
  <1> QED
    BY <1>1, <1>3 DEF EntryHolds, Swept

\* and so does time
LEMMA EntryLater ==
    ASSUME Boxed, NEW entry, NEW refusals, NEW ban, NEW now, EntryHolds(entry, refusals, ban, now)
    PROVE  EntryHolds(entry, {t \in refusals : now + 1 - t < Config.strikeWindowMs}, ban, now + 1)
  <1>1. /\ ban.ms \in Int /\ ban.until \in Int /\ now \in Int /\ now + 1 \in Int
        /\ Config.maxBanMs \in Int
    BY DEF EntryHolds, BanTypes, Boxed
  <1>2. BanHolds(entry, ban, now + 1)
    BY <1>1 DEF EntryHolds, BanHolds
  <1> QED
    BY <1>1, <1>2, StrikesLater DEF EntryHolds

\* the instance has the operators of SequencesExt
LEMMA DoorsLast == \A times : Doors!Last(times) = times[Len(times)]
  BY Zenon DEF Doors!Last

\* what a map has of a key
EntryIn(entries, key) == IF key \in DOMAIN entries THEN entries[key] ELSE Doors!Clean

\* the entry of an address that has none
LEMMA CleanIs ==
    ASSUME Boxed, NEW now \in Int
    PROVE  /\ Doors!Clean \in EntryTypes /\ Doors!Clean.strikes = << >>
           /\ Doors!Clean.bannedUntil = 0 /\ Doors!Clean.priorBans = 0
           /\ Swept(Doors!Clean, Doors!Clean, now)
  <1>1. << >> \in Seq(Int) /\ Recent(<< >>, now) = << >>
    BY EmptySeq, PruneEmpty DEF Recent, Boxed
  <1> QED
    BY <1>1 DEF Doors!Clean, EntryTypes, Swept

\* a sweep ages every entry, and drops those that are as if they had never been
LEMMA BoxSwept ==
    ASSUME Boxed, NEW entries, NEW key, clock \in Int, EntryIn(entries, key) \in EntryTypes
    PROVE  Swept(EntryIn(Doors!SweepBox(entries), key), EntryIn(entries, key), clock)
  <1> DEFINE e == entries[key]
             aged(x) ==
               IF x.bannedUntil > 0 /\ clock - x.bannedUntil >= Config.maxBanMs
               THEN [Doors!Clean EXCEPT !.strikes = Doors!RecentStrikes(x)]
               ELSE [x EXCEPT !.strikes = Doors!RecentStrikes(x)]
             left == Doors!SweepBox(entries)
  <1>1. left = [k \in {k \in DOMAIN entries : aged(entries[k]) # Doors!Clean} |-> aged(entries[k])]
    BY Zenon DEF Doors!SweepBox
  <1>2. CASE key \notin DOMAIN entries
    <2>1. key \notin DOMAIN left
      BY <1>1, <1>2
    <2> QED
      BY <1>2, <2>1, CleanIs DEF EntryIn
  <1>3. CASE key \in DOMAIN entries
    <2>1. e \in EntryTypes /\ EntryIn(entries, key) = e
      BY <1>3 DEF EntryIn
    <2>2. Doors!RecentStrikes(e) = Recent(e.strikes, clock)
      BY DoorsLimits DEF Doors!RecentStrikes, Recent
    <2>3. Recent(e.strikes, clock) \in Seq(Int)
      BY <2>1, PruneIs DEF EntryTypes, Recent, Boxed
    <2>4. EntryIn(left, key) = aged(e)
      <3> HIDE DEF left, aged
      <3>1. CASE aged(e) = Doors!Clean
        BY <1>1, <3>1 DEF EntryIn
      <3>2. CASE aged(e) # Doors!Clean
        BY <1>1, <1>3, <3>2 DEF EntryIn
      <3> QED
        BY <3>1, <3>2
    <2> HIDE DEF e, left
    <2>5. Swept(aged(e), e, clock)
      <3>1. CASE e.bannedUntil > 0 /\ clock - e.bannedUntil >= Config.maxBanMs
        <4>1. aged(e) = [strikes |-> Recent(e.strikes, clock), bannedUntil |-> 0, priorBans |-> 0]
          BY <2>2, <3>1 DEF Doors!Clean
        <4> HIDE DEF aged
        <4> QED
          BY <2>3, <3>1, <4>1 DEF Swept, EntryTypes
      <3>2. CASE ~(e.bannedUntil > 0 /\ clock - e.bannedUntil >= Config.maxBanMs)
        <4>1. aged(e) = [e EXCEPT !.strikes = Recent(e.strikes, clock)]
          BY <2>2, <3>2
        <4> HIDE DEF aged
        <4> QED
          BY <2>1, <2>3, <4>1 DEF Swept, EntryTypes
      <3> QED
        BY <3>1, <3>2
    <2> QED
      BY <2>1, <2>4, <2>5 DEF e, left
  <1> QED
    BY <1>2, <1>3

\* a ban that opens
NewBan(entry, now) ==
    [ms |-> Doors!BanMs(entry.priorBans), until |-> now + Doors!BanMs(entry.priorBans)]

\* a strike is one more of its episode
More(after, entry, refusals, ban, now) ==
    /\ after.priorBans = entry.priorBans
    /\ EntryHolds(after, refusals \cup {now}, ban, now)

\* or it opens a ban
Banning(after, entry, refusals, ban, now) ==
    /\ after.priorBans > entry.priorBans /\ after.bannedUntil = NewBan(entry, now).until
    /\ NewBan(entry, now) \in BanTypes
    /\ EntryHolds(after, {}, NewBan(entry, now), now)
    /\ Doors!Episodes(refusals \cup {now}, Config.strikesToBan)
    /\ \/ NewBan(entry, now).ms >= Doors!Min({Config.maxBanMs, ban.ms * Config.multiplier})
       \/ now >= ban.until + Config.maxBanMs

\* a new ban is entered, and is long enough
LEMMA NewBanHolds ==
    ASSUME Boxed, Config.strikesToBan > 0, NEW entry, NEW refusals, NEW ban,
           EntryHolds(entry, refusals, ban, clock)
    PROVE  LET after == [strikes |-> << >>, priorBans |-> entry.priorBans + 1,
                         bannedUntil |-> clock + Doors!BanMs(entry.priorBans)]
           IN  /\ EntryHolds(after, {}, NewBan(entry, clock), clock)
               /\ NewBan(entry, clock) \in BanTypes
               /\ \/ NewBan(entry, clock).ms >= Doors!Min({Config.maxBanMs, ban.ms * Config.multiplier})
                  \/ clock >= ban.until + Config.maxBanMs
  <1> DEFINE after == [strikes |-> << >>, priorBans |-> entry.priorBans + 1,
                       bannedUntil |-> clock + Doors!BanMs(entry.priorBans)]
             prior == entry.priorBans
             new == NewBan(entry, clock)
  <1>1. /\ prior \in Nat /\ clock \in Int /\ Config.maxBanMs \in Nat /\ Config.multiplier \in Nat
        /\ ban.ms \in Int /\ ban.until \in Int /\ entry.bannedUntil \in Int
    BY DEF EntryHolds, EntryTypes, BanTypes, Boxed
  <1>2. Doors!BanMs(prior) \in Nat
    BY <1>1, BansGrow
  <1>3. new = [ms |-> Doors!BanMs(prior), until |-> clock + Doors!BanMs(prior)]
    BY DEF NewBan
  <1>4. new \in BanTypes /\ after \in EntryTypes /\ after.strikes = << >>
    BY <1>1, <1>2, <1>3, EmptySeq DEF BanTypes, EntryTypes
  <1>5. BanHolds(after, new, clock)
    <2>1. after.priorBans = prior + 1 /\ (prior + 1) - 1 = prior /\ prior + 1 > 0
      BY <1>1
    <2>2. after.bannedUntil = new.until /\ new.ms = Doors!BanMs(prior)
      BY <1>3
    <2> HIDE DEF after, new, prior
    <2> QED
      BY <2>1, <2>2 DEF BanHolds
  <1>6. EntryHolds(after, {}, new, clock)
    BY <1>1, <1>4, <1>5, NoStrikes DEF EntryHolds
  <1>7. \/ new.ms >= Doors!Min({Config.maxBanMs, ban.ms * Config.multiplier})
        \/ clock >= ban.until + Config.maxBanMs
    <2>1. CASE prior = 0 /\ ban.ms = 0
      <3>1. Doors!Min({Config.maxBanMs, 0}) = IF Config.maxBanMs <= 0 THEN Config.maxBanMs ELSE 0
        BY <1>1, LesserIs
      <3>2. ban.ms * Config.multiplier = 0
        BY <1>1, <2>1
      <3> QED
        BY <1>1, <1>2, <1>3, <2>1, <3>1, <3>2
    <2>2. CASE prior > 0 /\ ban.ms = Doors!BanMs(prior - 1)
      <3>1. prior - 1 \in Nat /\ (prior - 1) + 1 = prior
        BY <1>1, <2>2
      <3>2. Doors!BanMs((prior - 1) + 1)
              >= Doors!Min({Config.maxBanMs, Doors!BanMs(prior - 1) * Config.multiplier})
        BY <3>1, BansGrow
      <3> QED
        BY <1>3, <2>2, <3>1, <3>2
    <2> QED
      BY <2>1, <2>2 DEF EntryHolds, BanHolds
  <1> QED
    BY <1>4, <1>6, <1>7

\* what a strike makes of an entry
LEMMA StruckIs ==
    ASSUME Boxed, Config.strikesToBan > 0, NEW entry, NEW refusals, NEW ban,
           EntryHolds(entry, refusals, ban, clock)
    PROVE  LET after == Doors!Struck(entry)
           IN  More(after, entry, refusals, ban, clock) \/ Banning(after, entry, refusals, ban, clock)
  <1> DEFINE recent == Recent(entry.strikes, clock)
             strikes == Append(recent, clock)
             after == Doors!Struck(entry)
  <1>1. /\ entry \in EntryTypes /\ ban \in BanTypes /\ clock \in Int
        /\ StrikesHold(entry.strikes, refusals, clock) /\ BanHolds(entry, ban, clock)
    BY DEF EntryHolds
  <1>2. /\ StrikesHold(recent, refusals, clock)
        /\ \A i \in DOMAIN recent : recent[i] > Cutoff(clock)
    BY <1>1, RecentHold
  <1>3. Doors!RecentStrikes(entry) = recent
    BY DoorsLimits DEF Doors!RecentStrikes, Recent
  <1> HIDE DEF recent
  <1>4. /\ recent \in Seq(Int) /\ Len(recent) \in Nat /\ DOMAIN recent = 1 .. Len(recent)
        /\ Len(recent) < Config.strikesToBan
        /\ \A i \in DOMAIN recent : recent[i] \in Int
    BY <1>2, LenProperties, ElementOfSeq DEF StrikesHold
  <1>5. Doors!SameEpisode(entry) <=>
          recent # << >> /\ clock - recent[Len(recent)] < Config.strikeSpacingMs
    BY <1>3, DoorsLast DEF Doors!SameEpisode
  <1>6. ASSUME NEW more \in Seq(Int), StrikesHold(more, refusals \cup {clock}, clock),
               after = [entry EXCEPT !.strikes = more]
        PROVE  More(after, entry, refusals, ban, clock)
    <2> HIDE DEF after
    <2>1. /\ after \in EntryTypes /\ after.strikes = more
          /\ after.priorBans = entry.priorBans /\ after.bannedUntil = entry.bannedUntil
      BY <1>1, <1>6 DEF EntryTypes
    <2>2. BanHolds(after, ban, clock)
      BY <1>1, <2>1 DEF BanHolds
    <2> QED
      BY <1>1, <1>6, <2>1, <2>2 DEF More, EntryHolds
  <1>7. CASE Doors!SameEpisode(entry)
    <2>1. after = [entry EXCEPT !.strikes = recent]
      BY <1>3, <1>7 DEF Doors!Struck
    <2>2. Len(recent) \in DOMAIN recent
      BY <1>4, <1>5, <1>7, EmptySeq
    <2>3. StrikesHold(recent, refusals \cup {clock}, clock)
      BY <1>2, <1>5, <1>7, <2>2, StrikesTold
    <2> QED
      BY <1>4, <1>6, <2>1, <2>3
  <1>8. CASE ~Doors!SameEpisode(entry)
    <2>1. Apart(recent, clock)
      <3> SUFFICES ASSUME recent # << >> PROVE clock - recent[Len(recent)] >= Config.strikeSpacingMs
        BY DEF Apart
      <3>1. Len(recent) \in DOMAIN recent
        BY <1>4, EmptySeq
      <3> QED
        BY <1>1, <1>4, <1>5, <1>8, <3>1 DEF Boxed
    <2>2. /\ strikes \in Seq(Int) /\ Spaced(strikes) /\ Len(strikes) = Len(recent) + 1
          /\ \A i \in DOMAIN strikes : strikes[i] \in refusals \cup {clock}
          /\ Len(strikes) < Config.strikesToBan => StrikesHold(strikes, refusals \cup {clock}, clock)
      BY <1>2, <2>1, NewStrike
    <2>3. after = IF Len(strikes) >= Config.strikesToBan
                  THEN [strikes |-> << >>, priorBans |-> entry.priorBans + 1,
                        bannedUntil |-> clock + Doors!BanMs(entry.priorBans)]
                  ELSE [entry EXCEPT !.strikes = strikes]
      BY <1>3, <1>8 DEF Doors!Struck
    <2> HIDE DEF after, strikes
    <2>4. CASE Len(strikes) >= Config.strikesToBan
      <3>1. Len(strikes) = Config.strikesToBan
        BY <1>4, <2>2, <2>4 DEF Boxed
      <3>2. Doors!Episodes(refusals \cup {clock}, Config.strikesToBan)
        BY <2>2, <3>1, StrikesAreEpisodes
      <3>3. /\ EntryHolds(after, {}, NewBan(entry, clock), clock)
            /\ NewBan(entry, clock) \in BanTypes
            /\ \/ NewBan(entry, clock).ms >= Doors!Min({Config.maxBanMs, ban.ms * Config.multiplier})
               \/ clock >= ban.until + Config.maxBanMs
        BY <2>3, <2>4, NewBanHolds
      <3>4. after.priorBans > entry.priorBans /\ after.bannedUntil = NewBan(entry, clock).until
        BY <1>1, <2>3, <2>4 DEF NewBan, EntryTypes
      <3>5. Banning(after, entry, refusals, ban, clock)
        BY <3>2, <3>3, <3>4 DEF Banning
      <3> QED
        BY <3>5 DEF after
    <2>5. CASE ~(Len(strikes) >= Config.strikesToBan)
      <3>1. Len(strikes) < Config.strikesToBan
        BY <1>4, <2>2, <2>5 DEF Boxed
      <3>2. after = [entry EXCEPT !.strikes = strikes] /\ StrikesHold(strikes, refusals \cup {clock}, clock)
        BY <2>2, <2>3, <2>5, <3>1
      <3> QED
        BY <1>6, <2>2, <3>2 DEF after
    <2> QED
      BY <2>4, <2>5
  <1> QED
    BY <1>7, <1>8

BoxInv ==
    /\ clock \in Int
    /\ refused \in [Ips -> SUBSET Int] /\ served \in [Ips -> BanTypes]
    /\ box \in [entries : {box.entries}, lastSweepAt : {box.lastSweepAt}]
    /\ Config.strikesToBan > 0 =>
         \A ip \in Ips : EntryHolds(Doors!EntryOf(ip), refused[ip], served[ip], clock)

\* the invariant after a step, and what the step may do
BoxSteps ==
    /\ BoxInv'
    /\ \A ip \in Ips : Doors!OpensOnEpisodes(ip) /\ (Doors!Opens(ip) => Doors!Escalates(ip))

\* the box before the sweep, and after it if there is one
LEMMA BoxAfter ==
    ASSUME Boxed, BoxInv, Config.strikesToBan > 0, NEW ip, Doors!StrikeEnabled(ip)
    PROVE  LET after == Doors!Struck(Doors!EntryOf(ip))
               put == [key \in {ip} \cup DOMAIN box.entries |->
                         IF key = ip THEN after ELSE box.entries[key]]
           IN  /\ box' \in [entries : {put, Doors!SweepBox(put)}, lastSweepAt : {box'.lastSweepAt}]
               /\ EntryIn(put, ip) = after
               /\ \A key : key # ip => EntryIn(put, key) = Doors!EntryOf(key)
  <1> DEFINE after == Doors!Struck(Doors!EntryOf(ip))
             put == [key \in {ip} \cup DOMAIN box.entries |->
                       IF key = ip THEN after ELSE box.entries[key]]
             sweeps == /\ ~Doors!SameEpisode(Doors!EntryOf(ip))
                       /\ clock - box.lastSweepAt >= Config.strikeWindowMs
  <1>1. box' = IF sweeps
               THEN [entries |-> Doors!SweepBox(put), lastSweepAt |-> clock]
               ELSE [box EXCEPT !.entries = put]
    BY Zenon DEF Doors!StrikeEnabled
  <1> HIDE DEF after
  <1>2. EntryIn(put, ip) = after
    BY DEF EntryIn
  <1>3. \A key : key # ip => EntryIn(put, key) = Doors!EntryOf(key)
    BY DEF EntryIn, Doors!EntryOf
  <1> HIDE DEF put, sweeps
  <1>4. box' \in [entries : {put, Doors!SweepBox(put)}, lastSweepAt : {box'.lastSweepAt}]
    <2>1. box \in [entries : {box.entries}, lastSweepAt : {box.lastSweepAt}]
      BY DEF BoxInv
    <2> QED
      BY <1>1, <2>1
  <1> QED
    BY <1>2, <1>3, <1>4 DEF after, put

\* a strike keeps the invariant, and bans who has earned it
LEMMA StrikeSteps ==
    ASSUME Boxed, BoxInv, Config.strikesToBan > 0, NEW ip, ~Doors!Banned(ip),
           Doors!StrikeEnabled(ip), clock' = clock
    PROVE  BoxSteps
  <1> DEFINE e == Doors!EntryOf(ip)
             after == Doors!Struck(e)
             put == [key \in {ip} \cup DOMAIN box.entries |->
                       IF key = ip THEN after ELSE box.entries[key]]
             bans == after.priorBans > e.priorBans
  <1>1. /\ clock \in Int /\ refused \in [Ips -> SUBSET Int] /\ served \in [Ips -> BanTypes]
        /\ \A i \in Ips : EntryHolds(Doors!EntryOf(i), refused[i], served[i], clock)
    BY DEF BoxInv
  <1>2. /\ refused' = [refused EXCEPT ![ip] = IF bans THEN {} ELSE @ \cup {clock}]
        /\ served' = [served EXCEPT
                        ![ip] = IF bans THEN [ms |-> after.bannedUntil - clock,
                                              until |-> after.bannedUntil]
                                ELSE @]
    BY Zenon DEF Doors!StrikeEnabled
  <1>3. /\ box' \in [entries : {put, Doors!SweepBox(put)}, lastSweepAt : {box'.lastSweepAt}]
        /\ EntryIn(put, ip) = after
        /\ \A key : key # ip => EntryIn(put, key) = Doors!EntryOf(key)
    BY BoxAfter
  <1> HIDE DEF put
  <1>4. ASSUME NEW i \in Ips, NEW refusals, NEW ban, EntryHolds(EntryIn(put, i), refusals, ban, clock)
        PROVE  EntryHolds(Doors!EntryOf(i)', refusals, ban, clock)
    <2>1. Doors!EntryOf(i)' = EntryIn(box'.entries, i)
      BY DEF Doors!EntryOf, EntryIn, Doors!Clean
    <2>2. box'.entries = put \/ box'.entries = Doors!SweepBox(put)
      BY <1>3
    <2>3. Swept(EntryIn(Doors!SweepBox(put), i), EntryIn(put, i), clock)
      BY <1>1, <1>4, BoxSwept DEF EntryHolds
    <2>4. EntryHolds(EntryIn(Doors!SweepBox(put), i), refusals, ban, clock)
      BY <1>4, <2>3, SweptHolds
    <2> QED
      BY <1>4, <2>1, <2>2, <2>4
  <1>5. ASSUME NEW i \in Ips, i # ip
        PROVE  /\ EntryHolds(Doors!EntryOf(i)', refused'[i], served'[i], clock)
               /\ refused'[i] = refused[i] /\ served'[i] = served[i]
    <2>1. refused'[i] = refused[i] /\ served'[i] = served[i]
      BY <1>1, <1>2, <1>5
    <2>2. EntryHolds(EntryIn(put, i), refused[i], served[i], clock)
      BY <1>1, <1>3, <1>5
    <2> QED
      BY <1>4, <2>1, <2>2
  <1>6. ASSUME ip \in Ips
        PROVE  /\ EntryHolds(Doors!EntryOf(ip)', refused'[ip], served'[ip], clock)
               /\ refused'[ip] \subseteq Int /\ served'[ip] \in BanTypes
               /\ Doors!OpensOnEpisodes(ip) /\ (Doors!Opens(ip) => Doors!Escalates(ip))
    <2> DEFINE refusals == refused[ip]
               ban == served[ip]
    <2>1. /\ EntryHolds(e, refusals, ban, clock) /\ refusals \subseteq Int /\ ban \in BanTypes
          /\ e.priorBans \in Nat
      BY <1>1, <1>6 DEF EntryHolds, EntryTypes
    <2>2. More(after, e, refusals, ban, clock) \/ Banning(after, e, refusals, ban, clock)
      BY <2>1, StruckIs
    <2> HIDE DEF after, e
    <2>3. CASE More(after, e, refusals, ban, clock)
      <3>1. ~bans
        BY <2>1, <2>3 DEF More
      <3>2. refused'[ip] = refusals \cup {clock} /\ served'[ip] = ban
        BY <1>1, <1>2, <1>6, <3>1
      <3>3. EntryHolds(after, refusals \cup {clock}, ban, clock)
        BY <2>3 DEF More
      <3>4. EntryHolds(Doors!EntryOf(ip)', refusals \cup {clock}, ban, clock)
        BY <1>3, <1>4, <1>6, <3>3
      <3>5. ~Doors!Episodes(refusals \cup {clock}, Config.strikesToBan + 1)
        BY <3>3, FewEpisodes DEF EntryHolds
      <3>6. ~Doors!Opens(ip)
        BY <3>2 DEF Doors!Opens
      <3>7. Doors!OpensOnEpisodes(ip)
        BY <3>5, <3>6 DEF Doors!OpensOnEpisodes
      <3> QED
        BY <1>1, <2>1, <3>2, <3>4, <3>6, <3>7
    <2>4. CASE Banning(after, e, refusals, ban, clock)
      <3> DEFINE new == NewBan(e, clock)
      <3>1. bans /\ after.bannedUntil = new.until /\ new \in BanTypes
        BY <2>4 DEF Banning
      <3>2. refused'[ip] = {} /\ served'[ip] = [ms |-> new.until - clock, until |-> new.until]
        BY <1>1, <1>2, <1>6, <3>1
      <3>3. new = [ms |-> Doors!BanMs(e.priorBans), until |-> clock + Doors!BanMs(e.priorBans)]
            /\ Doors!BanMs(e.priorBans) \in Nat
        BY <2>1, BansGrow DEF NewBan
      <3>4. served'[ip] = new
        BY <1>1, <3>2, <3>3
      <3> HIDE DEF new
      <3>5. EntryHolds(after, {}, new, clock)
        BY <2>4 DEF Banning, new
      <3>6. EntryHolds(Doors!EntryOf(ip)', {}, new, clock)
        BY <1>3, <1>4, <1>6, <3>5
      <3>7. Doors!Episodes(refusals \cup {clock}, Config.strikesToBan)
        BY <2>4 DEF Banning
      <3>8. Doors!OpensOnEpisodes(ip)
        BY <3>2, <3>7 DEF Doors!OpensOnEpisodes
      <3>9. Doors!Escalates(ip)
        BY <2>4, <3>4 DEF Banning, Doors!Escalates, new
      <3> QED
        BY <3>1, <3>2, <3>4, <3>6, <3>8, <3>9
    <2> QED
      BY <2>2, <2>3, <2>4
  <1>7. refused' \in [Ips -> SUBSET Int] /\ served' \in [Ips -> BanTypes]
    <2>1. /\ \A i \in Ips : refused'[i] \in SUBSET Int /\ served'[i] \in BanTypes
          /\ DOMAIN refused' = Ips /\ DOMAIN served' = Ips
      BY <1>1, <1>2, <1>5, <1>6
    <2>2. refused' = [i \in Ips |-> refused'[i]] /\ served' = [i \in Ips |-> served'[i]]
      BY <1>1, <1>2
    <2> QED
      BY <2>1, <2>2
  <1>8. box' \in [entries : {box'.entries}, lastSweepAt : {box'.lastSweepAt}]
    BY <1>3
  <1>9. \A i \in Ips : EntryHolds(Doors!EntryOf(i)', refused'[i], served'[i], clock')
    BY <1>5, <1>6
  <1>10. BoxInv'
    BY <1>1, <1>7, <1>8, <1>9 DEF BoxInv
  <1>11. ASSUME NEW i \in Ips, i # ip
         PROVE  Doors!OpensOnEpisodes(i) /\ (Doors!Opens(i) => Doors!Escalates(i))
    BY <1>5, <1>11 DEF Doors!OpensOnEpisodes, Doors!Opens
  <1> QED
    BY <1>6, <1>10, <1>11 DEF BoxSteps

\* without a strike nothing opens
LEMMA QuietSteps ==
    ASSUME BoxInv, UNCHANGED <<clock, box, refused, served>>
    PROVE  BoxSteps
  <1>1. BoxInv'
    BY DEF BoxInv, Doors!EntryOf, Doors!Clean
  <1>2. ASSUME NEW ip \in Ips
        PROVE  Doors!OpensOnEpisodes(ip) /\ (Doors!Opens(ip) => Doors!Escalates(ip))
    BY DEF Doors!OpensOnEpisodes, Doors!Opens
  <1> QED
    BY <1>1, <1>2 DEF BoxSteps

\* nor does it when time passes
LEMMA BoxAged ==
    ASSUME Boxed, BoxInv, clock' = clock + 1, UNCHANGED <<box, served>>,
           refused' = [ip \in Ips |-> {t \in refused[ip] : clock' - t < Config.strikeWindowMs}]
    PROVE  BoxSteps
  <1>1. /\ clock \in Int /\ clock' \in Int
        /\ refused \in [Ips -> SUBSET Int] /\ served' \in [Ips -> BanTypes]
        /\ box' \in [entries : {box'.entries}, lastSweepAt : {box'.lastSweepAt}]
    BY DEF BoxInv
  <1>2. /\ refused' \in [Ips -> SUBSET Int]
        /\ \A ip \in Ips : refused'[ip] = {t \in refused[ip] : clock + 1 - t < Config.strikeWindowMs}
    BY <1>1
  <1>3. ASSUME Config.strikesToBan > 0, NEW ip \in Ips
        PROVE  EntryHolds(Doors!EntryOf(ip)', refused'[ip], served'[ip], clock')
    <2>1. Doors!EntryOf(ip)' = Doors!EntryOf(ip) /\ served'[ip] = served[ip]
      BY DEF Doors!EntryOf, Doors!Clean
    <2>2. EntryHolds(Doors!EntryOf(ip), refused[ip], served[ip], clock)
      BY <1>3 DEF BoxInv
    <2> QED
      BY <1>2, <2>1, <2>2, EntryLater
  <1>4. BoxInv'
    BY <1>1, <1>2, <1>3 DEF BoxInv
  <1>5. ASSUME NEW ip \in Ips
        PROVE  Doors!OpensOnEpisodes(ip) /\ (Doors!Opens(ip) => Doors!Escalates(ip))
    BY <1>2 DEF Doors!OpensOnEpisodes, Doors!Opens
  <1> QED
    BY <1>4, <1>5 DEF BoxSteps

\* a door's strike
LEMMA DoorSteps ==
    ASSUME Boxed, BoxInv, NEW ip, ~Doors!Banned(ip), clock' = clock,
           Doors!Strike(ip) \/ Doors!NoStrike
    PROVE  BoxSteps
  <1>1. CASE Doors!NoStrike
    BY <1>1, QuietSteps DEF Doors!NoStrike
  <1>2. CASE Doors!Strike(ip) /\ ~(Config.strikesToBan > 0)
    BY <1>2, QuietSteps DEF Doors!Strike, Doors!NoStrike
  <1>3. CASE Doors!Strike(ip) /\ Config.strikesToBan > 0
    <2>1. Doors!StrikeEnabled(ip)
      BY <1>3 DEF Doors!Strike
    <2> QED
      BY <1>3, <2>1, StrikeSteps
  <1> QED
    BY <1>1, <1>2, <1>3

\* the invariant at the start
LEMMA BoxAtFirst == ASSUME Boxed, Doors!Init PROVE BoxInv
  <1>1. /\ clock = 0 /\ box = [entries |-> << >>, lastSweepAt |-> -Config.strikeWindowMs]
        /\ refused = [ip \in Ips |-> {}] /\ served = [ip \in Ips |-> [ms |-> 0, until |-> 0]]
    BY Zenon DEF Doors!Init
  <1>2. ASSUME Config.strikesToBan > 0, NEW ip \in Ips
        PROVE  EntryHolds(Doors!EntryOf(ip), refused[ip], served[ip], clock)
    <2>1. Doors!EntryOf(ip) = Doors!Clean
      <3>1. ip \notin DOMAIN box.entries
        BY <1>1, EmptySeq
      <3> QED
        BY <3>1 DEF Doors!EntryOf
    <2>2. /\ Doors!Clean \in EntryTypes /\ Doors!Clean.strikes = << >>
          /\ Doors!Clean.priorBans = 0
      BY <1>1, CleanIs
    <2>3. refused[ip] = {} /\ served[ip] = [ms |-> 0, until |-> 0]
      BY <1>1
    <2>4. served[ip] \in BanTypes /\ served[ip].ms = 0
      BY <2>3 DEF BanTypes
    <2> QED
      BY <1>1, <1>2, <2>1, <2>2, <2>3, <2>4, NoStrikes DEF EntryHolds, BanHolds
  <1>3. refused \in [Ips -> SUBSET Int] /\ served \in [Ips -> BanTypes]
    BY <1>1 DEF BanTypes
  <1> QED
    BY <1>1, <1>2, <1>3 DEF BoxInv

\* and after every step
LEMMA BoxNext ==
    ASSUME Boxed, BoxInv, [Doors!Next]_Doors!vars
    PROVE  BoxSteps
  <1>1. ASSUME NEW where, NEW ip, Doors!Prepare(where, ip) PROVE BoxSteps
    <2>1. /\ ~Doors!Banned(ip) /\ clock' = clock
          /\ Doors!Strike(ip) \/ Doors!NoStrike
      BY <1>1 DEF Doors!Prepare
    <2> QED
      BY <2>1, DoorSteps
  <1>2. ASSUME NEW ip, NEW wellFormed, Doors!Finalize(ip, wellFormed) PROVE BoxSteps
    <2>1. /\ ~Doors!Banned(ip) /\ clock' = clock
          /\ Doors!Strike(ip) \/ Doors!NoStrike
      BY <1>2 DEF Doors!Finalize
    <2> QED
      BY <2>1, DoorSteps
  <1>3. ASSUME NEW party, NEW ip, Doors!Submit(party, ip) PROVE BoxSteps
    <2>1. /\ ~Doors!Banned(ip) /\ clock' = clock
          /\ Doors!Strike(ip) \/ Doors!NoStrike
      BY <1>3 DEF Doors!Submit
    <2> QED
      BY <2>1, DoorSteps
  <1>4. ASSUME Doors!Tick PROVE BoxSteps
    BY <1>4, BoxAged DEF Doors!Tick
  <1>5. ASSUME UNCHANGED Doors!vars PROVE BoxSteps
    BY <1>5, QuietSteps DEF Doors!vars
  <1> QED
    BY <1>1, <1>2, <1>3, <1>4, <1>5 DEF Doors!Next

-----------------------------------------------------------------------------
(* A refusal is held against the address when a cap of its own is spent.   *)

\* the doors are limiters of some times
DoorsTyped ==
    /\ clock \in Int
    /\ doors \in [submit : {doors.submit}, onboard : {doors.onboard}, daily : {doors.daily}]
    /\ IsLimiter(doors.submit, Int) /\ IsLimiter(doors.onboard, Int)

\* what the door of a route makes of a call
LEMMA AdmissionAnswers ==
    ASSUME Boxed, DoorsTyped, NEW where, NEW ip,
           NEW r, r = Doors!OnboardAdmission(where, ip)
    PROVE  /\ IsLimiter(r.limiter, Int)
           /\ ~r.allowed => Doors!Full(doors.onboard, <<where, ip>>, Config.submitMax)
  <1>1. CASE Config.submitMax <= 0
    BY <1>1 DEF Doors!OnboardAdmission, DoorsTyped
  <1>2. CASE ~(Config.submitMax <= 0)
    <2> DEFINE entries == << [key |-> <<where, ip>>, max |-> Config.submitMax] >>
    <2>1. \A i \in DOMAIN entries :
            entries[i].key = <<where, ip>> /\ entries[i].max = Config.submitMax
      OBVIOUS
    <2>2. r = AllowKeys(doors.onboard, entries, clock, Config.minuteMs)
      BY <1>2, DoorsLimits DEF Doors!OnboardAdmission
    <2>3. /\ Config.minuteMs \in Nat \ {0} /\ clock \in Int /\ IsLimiter(doors.onboard, Int)
          /\ Config.submitMax \in Int
      BY DEF Boxed, DoorsTyped
    <2> HIDE DEF entries
    <2>4. IsAnswer(r, doors.onboard, entries, clock, Config.minuteMs, Int)
      BY <2>1, <2>2, <2>3, AllowKeysIs
    <2>5. ASSUME ~r.allowed
          PROVE  Doors!Full(doors.onboard, <<where, ip>>, Config.submitMax)
      <3>1. PICK i \in DOMAIN entries :
              /\ entries[i].max > 0
              /\ Len(Prune(TimesOf(doors.onboard, entries[i].key), clock, Config.minuteMs))
                   >= entries[i].max
        BY <2>4, <2>5 DEF IsAnswer
      <3>2. entries[i].key = <<where, ip>> /\ entries[i].max = Config.submitMax
        BY <2>1
      <3> QED
        BY <3>1, <3>2, DoorsLimits DEF Doors!Full
    <2> QED
      BY <2>4, <2>5 DEF IsAnswer
  <1> QED
    BY <1>1, <1>2

\* and the door of a submission: what a refusal leaves of a full bucket was full
LEMMA SubmitAnswers ==
    ASSUME Boxed, DoorsTyped, NEW entries, NEW ip, NEW r,
           \A i \in DOMAIN entries : entries[i].max \in Int,
           r = Doors!AllowKeys(doors.submit, entries, clock, Config.minuteMs)
    PROVE  /\ IsLimiter(r.limiter, Int)
           /\ /\ ~r.allowed /\ Config.submitIpMax > 0
              /\ Len(Doors!Prune(Doors!TimesOf(r.limiter, ip), clock, Config.minuteMs))
                   >= Config.submitIpMax
              => Doors!Full(doors.submit, ip, Config.submitIpMax)
  <1>1. /\ Config.minuteMs \in Nat \ {0} /\ Config.minuteMs \in Int /\ clock \in Int
        /\ IsLimiter(doors.submit, Int)
    BY DEF Boxed, DoorsTyped
  <1>2. r = AllowKeys(doors.submit, entries, clock, Config.minuteMs)
    BY DoorsLimits
  <1>3. IsAnswer(r, doors.submit, entries, clock, Config.minuteMs, Int)
    BY <1>1, <1>2, AllowKeysIs
  <1> DEFINE old == TimesOf(doors.submit, ip)
             new == TimesOf(r.limiter, ip)
  <1>4. ASSUME ~r.allowed
        PROVE  Prune(new, clock, Config.minuteMs) = Prune(old, clock, Config.minuteMs)
    <2>1. Charged(doors.submit, r, clock, Config.minuteMs, ip)
      BY <1>3 DEF IsAnswer
    <2>2. new = old \/ new = Prune(old, clock, Config.minuteMs)
      BY <1>4, <2>1 DEF Charged
    <2>3. old \in Seq(Int)
      BY <1>1, TimesAre
    <2> HIDE DEF old, new
    <2>4. Prune(Prune(old, clock, Config.minuteMs), clock, Config.minuteMs)
            = Prune(old, clock, Config.minuteMs)
      BY <1>1, <2>3, PruneTwice
    <2> QED
      BY <2>2, <2>4
  <1> QED
    BY <1>3, <1>4, DoorsLimits DEF IsAnswer, Doors!Full

\* the budgets of allocations leave the doors limiters
LEMMA SpendTyped ==
    ASSUME Boxed, clock \in Int, NEW limiters, IsLimiter(limiters.onboard, Int),
           limiters \in [submit : {limiters.submit}, onboard : {limiters.onboard},
                         daily : {limiters.daily}],
           NEW spend, spend = Doors!SpendAllowed(limiters).limiters
    PROVE  /\ spend \in [submit : {limiters.submit}, onboard : {spend.onboard},
                         daily : {spend.daily}]
           /\ IsLimiter(spend.onboard, Int)
  <1> DEFINE minute == AllowGlobal(limiters.onboard, clock, Config.onboardGlobal, Config.minuteMs)
             day == AllowGlobal(limiters.daily, clock, Config.dailyMax, Config.dayMs)
  <1>1. spend = [limiters EXCEPT
                   !.onboard = minute.limiter,
                   !.daily = IF minute.allowed THEN day.limiter ELSE @]
    BY DoorsLimits DEF Doors!SpendAllowed
  <1>2. Config.onboardGlobal \in Int /\ Config.minuteMs \in Nat \ {0}
    BY DEF Boxed
  <1>3. IsGlobalAnswer(minute, limiters.onboard, clock, Config.onboardGlobal, Config.minuteMs, Int)
    BY <1>2, AllowGlobalIs
  <1>4. IsLimiter(minute.limiter, Int)
    BY <1>3 DEF IsGlobalAnswer
  <1> HIDE DEF minute, day
  <1> QED
    BY <1>1, <1>4

\* a step without a strike holds nothing against anyone
LEMMA NothingHeld ==
    ASSUME NEW ip, refused'[ip] \subseteq refused[ip], served' = served
    PROVE  ~Doors!HeldAgainst(ip)
  BY DEF Doors!HeldAgainst, Doors!Opens

\* a strike is held against its own address, whose cap was spent
LEMMA StrikeIsOwn ==
    ASSUME BoxInv, NEW ip, Doors!Strike(ip) \/ Doors!NoStrike,
           Doors!Strike(ip) => Doors!OwnCapFull(ip) \/ Doors!NoStrike
    PROVE  \A i \in Ips : Doors!HeldAgainst(i) => Doors!OwnCapFull(i)
  <1>1. refused \in [Ips -> SUBSET Int] /\ served \in [Ips -> BanTypes]
    BY DEF BoxInv
  <1>2. CASE Doors!NoStrike
    BY <1>2 DEF Doors!NoStrike, Doors!HeldAgainst, Doors!Opens
  <1>3. CASE Doors!StrikeEnabled(ip) /\ Doors!OwnCapFull(ip)
    <2>1. PICK times, ban : /\ refused' = [refused EXCEPT ![ip] = times]
                            /\ served' = [served EXCEPT ![ip] = ban]
      BY <1>3, Zenon DEF Doors!StrikeEnabled
    <2>2. \A i \in Ips : i # ip => refused'[i] = refused[i] /\ served'[i] = served[i]
      BY <1>1, <2>1
    <2> QED
      BY <1>3, <2>2 DEF Doors!HeldAgainst, Doors!Opens
  <1>4. Doors!Strike(ip) => Doors!StrikeEnabled(ip) \/ Doors!NoStrike
    BY DEF Doors!Strike
  <1> QED
    BY <1>2, <1>3, <1>4

\* what every step keeps of the doors and holds against an address
HeldRightly ==
    DoorsTyped' /\ \A ip \in Ips : Doors!HeldAgainst(ip) => Doors!OwnCapFull(ip)

\* a route admits by its own cap of the address
LEMMA RouteSteps ==
    ASSUME Boxed, DoorsTyped, BoxInv, NEW where \in {way[1] : way \in Doorways}, NEW ip,
           NEW r, r = Doors!OnboardAdmission(where, ip), clock' = clock, DoorsTyped',
           IF r.allowed THEN Doors!NoStrike ELSE Doors!Strike(ip)
    PROVE  HeldRightly
  <1>1. ~r.allowed => Doors!OwnCapFull(ip)
    BY AdmissionAnswers DEF Doors!OwnCapFull
  <1>2. /\ Doors!Strike(ip) \/ Doors!NoStrike
        /\ Doors!Strike(ip) => Doors!OwnCapFull(ip) \/ Doors!NoStrike
    BY <1>1
  <1> QED
    BY <1>2, StrikeIsOwn DEF HeldRightly

LEMMA HeldNext ==
    ASSUME Boxed, DoorsTyped, BoxInv, [Doors!Next]_Doors!vars
    PROVE  HeldRightly
  <1>1. ASSUME NEW way \in Doorways, Doors!Prepare(way[1], way[2]) PROVE HeldRightly
    <2> DEFINE r == Doors!OnboardAdmission(way[1], way[2])
    <2>1. /\ doors' = [doors EXCEPT !.onboard = r.limiter] /\ clock' = clock
          /\ IF r.allowed THEN Doors!NoStrike ELSE Doors!Strike(way[2])
      BY <1>1 DEF Doors!Prepare
    <2>2. IsLimiter(r.limiter, Int)
      BY AdmissionAnswers
    <2> HIDE DEF r
    <2>3. DoorsTyped'
      BY <2>1, <2>2 DEF DoorsTyped
    <2> QED
      BY <2>1, <2>3, RouteSteps DEF r
  <1>2. ASSUME NEW way \in Doorways, NEW wellFormed \in BOOLEAN, way[1] = "onboard/finalize",
               Doors!Finalize(way[2], wellFormed)
        PROVE  HeldRightly
    <2> DEFINE r == Doors!OnboardAdmission("onboard/finalize", way[2])
               admitted == [doors EXCEPT !.onboard = r.limiter]
               spend == Doors!SpendAllowed(admitted).limiters
    <2>1. /\ doors' \in {admitted, spend} /\ clock' = clock
          /\ IF r.allowed THEN Doors!NoStrike ELSE Doors!Strike(way[2])
      BY <1>2 DEF Doors!Finalize
    <2>2. IsLimiter(r.limiter, Int)
      BY AdmissionAnswers
    <2> HIDE DEF r
    <2>3. /\ admitted \in [submit : {doors.submit}, onboard : {r.limiter}, daily : {doors.daily}]
          /\ IsLimiter(doors.submit, Int) /\ clock \in Int
      BY DEF DoorsTyped
    <2> HIDE DEF admitted
    <2>4. /\ admitted.submit = doors.submit /\ admitted.onboard = r.limiter
          /\ admitted.daily = doors.daily
      BY <2>3
    <2>5. /\ admitted \in [submit : {admitted.submit}, onboard : {admitted.onboard},
                           daily : {admitted.daily}]
          /\ IsLimiter(admitted.onboard, Int) /\ IsLimiter(admitted.submit, Int)
      BY <2>2, <2>3, <2>4
    <2>6. /\ spend \in [submit : {admitted.submit}, onboard : {spend.onboard},
                        daily : {spend.daily}]
          /\ IsLimiter(spend.onboard, Int)
      BY <2>3, <2>5, SpendTyped
    <2> HIDE DEF spend
    <2>7. DoorsTyped'
      <3>1. CASE doors' = admitted
        BY <2>1, <2>3, <2>5, <3>1 DEF DoorsTyped
      <3>2. CASE doors' = spend
        BY <2>1, <2>3, <2>5, <2>6, <3>2 DEF DoorsTyped
      <3> QED
        BY <2>1, <3>1, <3>2
    <2> QED
      BY <1>2, <2>1, <2>7, RouteSteps DEF r
  <1>3. ASSUME NEW party, NEW ip, Doors!Submit(party, ip) PROVE HeldRightly
    <2> DEFINE mine == [key |-> <<party, ip>>, max |-> Config.submitMax]
               host == [key |-> ip, max |-> Config.submitIpMax]
               entries == <<mine, host>>
               r == Doors!AllowKeys(doors.submit, entries, clock, Config.minuteMs)
               exhausted ==
                 /\ Config.submitIpMax > 0
                 /\ Len(Doors!Prune(Doors!TimesOf(r.limiter, ip), clock, Config.minuteMs))
                      >= Config.submitIpMax
    <2>1. /\ doors' = [doors EXCEPT !.submit = r.limiter] /\ clock' = clock
          /\ IF ~r.allowed /\ exhausted THEN Doors!Strike(ip) ELSE Doors!NoStrike
      BY <1>3 DEF Doors!Submit
    <2>2. \A i \in DOMAIN entries : entries[i].max \in Int
      BY DEF Boxed
    <2> HIDE DEF entries
    <2>3. /\ IsLimiter(r.limiter, Int)
          /\ ~r.allowed /\ exhausted => Doors!Full(doors.submit, ip, Config.submitIpMax)
      BY <2>2, SubmitAnswers
    <2> HIDE DEF r, exhausted
    <2>4. DoorsTyped'
      BY <2>1, <2>3 DEF DoorsTyped
    <2>5. ~r.allowed /\ exhausted => Doors!OwnCapFull(ip)
      BY <2>3 DEF Doors!OwnCapFull
    <2>6. /\ Doors!Strike(ip) \/ Doors!NoStrike
          /\ Doors!Strike(ip) => Doors!OwnCapFull(ip) \/ Doors!NoStrike
      BY <2>1, <2>5
    <2> QED
      BY <2>4, <2>6, StrikeIsOwn DEF HeldRightly
  <1>4. ASSUME Doors!Tick PROVE HeldRightly
    <2>1. /\ clock' = clock + 1 /\ doors' = doors /\ served' = served
          /\ refused' = [ip \in Ips |-> {t \in refused[ip] : clock' - t < Config.strikeWindowMs}]
      BY <1>4 DEF Doors!Tick
    <2>2. \A ip \in Ips : refused'[ip] \subseteq refused[ip]
      BY <2>1
    <2>3. DoorsTyped'
      BY <2>1 DEF DoorsTyped
    <2> QED
      BY <2>1, <2>2, <2>3, NothingHeld DEF HeldRightly
  <1>5. ASSUME UNCHANGED Doors!vars PROVE HeldRightly
    BY <1>5, NothingHeld DEF Doors!vars, HeldRightly, DoorsTyped
  <1> QED
    BY <1>1, <1>2, <1>3, <1>4, <1>5 DEF Doors!Next

\* the doors at the start
LEMMA HeldAtFirst == ASSUME Boxed, Doors!Init PROVE DoorsTyped
  <1>1. /\ clock = 0 /\ Config.minuteMs \in Int
        /\ doors = [submit |-> NewLimiter(Config.minuteMs),
                    onboard |-> NewLimiter(Config.minuteMs),
                    daily |-> NewLimiter(Config.dayMs)]
    BY DoorsLimits DEF Doors!Init, Boxed
  <1>2. IsLimiter(NewLimiter(Config.minuteMs), Int)
    BY <1>1, NewIs
  <1> QED
    BY <1>1, <1>2 DEF DoorsTyped

(***************************************************************************)
(* A ban opens only after enough refusals of the address itself, in        *)
(* episodes of their own within the window and since its last ban, and at  *)
(* the latest one episode after that; a refusal is held against an address *)
(* only when a cap of its own was spent; a running ban is never changed,   *)
(* and a ban is shorter than its escalation only after a clean stretch.    *)
(***************************************************************************)
THEOREM BansEarned == ASSUME Boxed PROVE Doors!Spec => Doors!BansAreEarned
  <1> DEFINE IInv == BoxInv /\ DoorsTyped
  <1>1. Doors!Init => IInv
    BY BoxAtFirst, HeldAtFirst
  <1>2. IInv /\ [Doors!Next]_Doors!vars => IInv'
    BY BoxNext, HeldNext DEF BoxSteps, HeldRightly
  <1>3. IInv /\ [Doors!Next]_Doors!vars =>
          [\A ip \in Ips :
             /\ Doors!OpensOnEpisodes(ip)
             /\ Doors!Opens(ip) => Doors!Escalates(ip)
             /\ Doors!HeldAgainst(ip) => Doors!OwnCapFull(ip)]_Doors!vars
    BY BoxNext, HeldNext DEF BoxSteps, HeldRightly
  <1> QED
    BY <1>1, <1>2, <1>3, PTL DEF Doors!Spec, Doors!BansAreEarned
===============================================================================
