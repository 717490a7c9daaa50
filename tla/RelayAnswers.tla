----------------------------- MODULE RelayAnswers -----------------------------
(***************************************************************************)
(* What a wallet is told of the transfers it submits through the relay.    *)
(* It signs prepared bytes and hands them to submit/execute or to          *)
(* preapproval/self/commit, which submit them and then read the outcome;   *)
(* the operator's preapproval route submits commands of its own, and again *)
(* when its cached round was archived.  Answers of the participant get     *)
(* lost and completions cannot always be read.                             *)
(***************************************************************************)
EXTENDS Naturals, Sequences

CONSTANTS
    Calls,          \* concurrent calls of the relay
    MaxPrepared,    \* bound: transfers prepared for the one intent
    MaxSubmissions  \* bound: submissions that reach the participant

VARIABLES
    prepared,   \* the transfers prepared so far, each over fresh inputs
    told,       \* the answers to the last of them
    call,       \* per call: the await it is at, the submission it made
    subs,       \* the participant: the submissions, and what became of each
    hidden      \* history: the submissions that were accepted while their
                \* call was answered as refused

vars == <<prepared, told, call, subs, hidden>>

Own == 0        \* the bytes of a command the relay builds itself
Idle == [pc |-> "idle"]
At(pc, bytes, fresh, sub) ==
    [pc |-> pc, bytes |-> bytes, fresh |-> fresh, sub |-> sub]

Init ==
    /\ prepared = 0
    /\ told = {}
    /\ call = [c \in Calls |-> Idle]
    /\ subs = << >>
    /\ hidden = {}

Committed == {i \in DOMAIN subs : subs[i].fate = "committed"}
Refused == {"rejected", "contention"}

-----------------------------------------------------------------------------
(* The wallet pays again, over fresh inputs, only when it has been told    *)
(* that nothing was paid; the bytes it has signed it may send again.       *)

Prepare ==
    /\ prepared < MaxPrepared
    /\ \A c \in Calls : call[c] = Idle
    /\ told = IF prepared = 0 THEN {} ELSE {"refused"}
    /\ prepared' = prepared + 1
    /\ told' = {}
    /\ UNCHANGED <<call, subs, hidden>>

Execute(c) ==
    /\ call[c] = Idle
    /\ prepared > 0 /\ told \subseteq {"refused"}
    /\ call' = [call EXCEPT ![c] = At("end", prepared, FALSE, 0)]
    /\ UNCHANGED <<prepared, told, subs, hidden>>

\* or it asks the operator for a preapproval, once
CreateTransferPreapproval(c) ==
    /\ prepared = 0 /\ told = {}
    /\ \A d \in Calls : call[d] = Idle
    /\ call' = [call EXCEPT ![c] = At("post", Own, FALSE, 0)]
    /\ UNCHANGED <<prepared, told, subs, hidden>>

-----------------------------------------------------------------------------
(* The relay.                                                              *)

\* the operator's route says that it could not, and nothing of the outcome
Error(c) == IF call[c].bytes = Own THEN "could_not" ELSE "refused"

Answer(c, verdict) ==
    /\ call' = [call EXCEPT ![c] = Idle]
    /\ told' = told \cup {verdict}
    /\ UNCHANGED prepared

Await(c, next) ==
    /\ call' = [call EXCEPT ![c] = next]
    /\ UNCHANGED <<prepared, told>>

\* getLedgerEnd, before anything is submitted
LedgerEnd(c) ==
    /\ call[c].pc = "end"
    /\ \/ Await(c, At("post", call[c].bytes, FALSE, 0))
       \/ Answer(c, "refused")
    /\ UNCHANGED <<subs, hidden>>

Submitted(c) ==
    /\ Len(subs) < MaxSubmissions
    /\ subs' = Append(subs, [bytes |-> call[c].bytes, fate |-> "flying"])

\* interactiveSubmissionExecute, submitAndWaitForTransaction: it is refused...
PostRefused(c) ==
    /\ call[c].pc = "post"
    /\ Answer(c, Error(c))
    /\ UNCHANGED <<subs, hidden>>

\* ...or accepted, and without a party there is nothing to poll with
PostAccepted(c, party) ==
    /\ call[c].pc = "post"
    /\ Submitted(c)
    /\ IF party THEN Await(c, At("poll", call[c].bytes, call[c].fresh, Len(subs) + 1))
       ELSE call[c].bytes # Own /\ Answer(c, "unknown")
    /\ UNCHANGED hidden

\* ...or nothing answers, whether it arrived or not
PostLost(c) ==
    /\ call[c].pc = "post"
    /\ \/ /\ Submitted(c)
          /\ hidden' = IF Error(c) = "refused" THEN hidden \cup {Len(subs) + 1}
                        ELSE hidden
       \/ UNCHANGED <<subs, hidden>>
    /\ Answer(c, Error(c))

\* the completion, or the answer of the operator's command, says it committed
Found(c) ==
    /\ call[c].pc = "poll" /\ subs[call[c].sub].fate = "committed"
    /\ Answer(c, "paid")
    /\ UNCHANGED <<subs, hidden>>

\* SUBMISSION_FAILED: it was refused; only the archived contract of a cached
\* round makes the operator's route try again, on what it reads afresh
Rejected(c) ==
    /\ call[c].pc = "poll" /\ subs[call[c].sub].fate \in Refused
    /\ IF call[c].bytes = Own /\ ~call[c].fresh
             /\ subs[call[c].sub].fate = "contention"
       THEN Await(c, At("post", Own, TRUE, 0))
       ELSE Answer(c, Error(c))
    /\ UNCHANGED <<subs, hidden>>

\* a mutant: a completion that cannot be read is a failed submission
UnreadableIsFailure(c) ==
    /\ call[c].pc = "poll"
    /\ Answer(c, Error(c))
    /\ UNCHANGED <<subs, hidden>>

\* no completion in time, or none that could be read
Unreadable(c) ==
    /\ call[c].pc = "poll"
    /\ Answer(c, IF call[c].bytes = Own THEN "could_not" ELSE "unknown")
    /\ UNCHANGED <<subs, hidden>>

-----------------------------------------------------------------------------
(* The participant: inputs are spent once.                                 *)

Spent(i) == \E j \in Committed : subs[j].bytes = subs[i].bytes /\ subs[i].bytes # Own

Settle(i) ==
    /\ subs[i].fate = "flying"
    /\ \/ ~Spent(i) /\ subs' = [subs EXCEPT ![i].fate = "committed"]
       \/ \E why \in Refused : subs' = [subs EXCEPT ![i].fate = why]
    /\ UNCHANGED <<prepared, told, call, hidden>>

Next ==
    \/ Prepare
    \/ \E c \in Calls :
         \/ Execute(c) \/ CreateTransferPreapproval(c)
         \/ LedgerEnd(c) \/ PostRefused(c) \/ PostLost(c)
         \/ \E party \in BOOLEAN : PostAccepted(c, party)
         \/ Found(c) \/ Rejected(c) \/ Unreadable(c)
    \/ \E i \in DOMAIN subs : Settle(i)

Spec == Init /\ [][Next]_vars

(***************************************************************************)
(* A wallet that believes what the relay tells it pays once, however its   *)
(* calls overlap and whatever becomes of the completions: a transfer the   *)
(* participant has accepted is never answered as refused.  The exception   *)
(* is named: the participant accepts, and its answer to the submission     *)
(* itself is lost, which the relay answers as a refusal.                   *)
(***************************************************************************)
PaysOnceButForLostAnswers == \A i, j \in Committed \ hidden : i = j
=============================================================================
