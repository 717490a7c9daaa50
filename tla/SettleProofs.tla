---------------------------- MODULE SettleProofs ----------------------------
(***************************************************************************)
(* What holds of Settle for any number of handlers and participants: in    *)
(* every mode of the mark, whatever the database and the ledger do; then   *)
(* what enforce adds, as long as the database answers and the ledger's     *)
(* refusals are final; and that observe changes no answer of off.          *)
(***************************************************************************)
EXTENDS SettleInv, SettleModes, TLAPS

-----------------------------------------------------------------------------
(* Types.                                                                  *)

\* the inductive type invariant gives the type invariant
LEMMA TypeInvTypes == TypeInv => TypeOK
  BY DEF TypeInv, MarkOK, LedgerOK, LocalOK, TypeOK

\* no request, no row, and nothing submitted is well typed
LEMMA InitTypeInv == Init => TypeInv
<1> SUFFICES ASSUME Init PROVE TypeInv
  OBVIOUS
<1>1. MarkOK
  BY DEF Init, MarkOK, Marks, NoMark
<1>2. LedgerOK
  BY DEF Init, LedgerOK, Outcomes, Fresh, Aged
<1>3. LocalOK
  BY DEF Init, LocalOK, Labels, Answers, Reading
<1> QED
  BY <1>1, <1>2, <1>3 DEF TypeInv

\* what every way of moving a handler preserves
LEMMA GotoOK ==
  ASSUME LocalOK, NEW p \in Handlers, NEW l \in Labels, Goto(p, l),
         l \in Reading => begin[p] # NoOffset
  PROVE  LocalOK'
  BY DEF LocalOK, Goto

\* a reply resets the request's locals
LEMMA AnswerOK ==
  ASSUME LocalOK, NEW p \in Handlers, NEW a \in Answers, Answer(p, a)
  PROVE  LocalOK'
<1>1. "idle" \in Labels /\ "idle" \notin Reading /\ "none" \in Answers
  BY DEF Labels, Reading, Answers
<1>2. /\ pc' \in [Handlers -> Labels]
      /\ begin' \in [Handlers -> Nat \cup {NoOffset}]
      /\ host' \in [Handlers -> Participants \cup {NoHost}]
      /\ verdict' \in [Handlers -> Answers]
      /\ ans' \in [Handlers -> Answers]
  BY <1>1 DEF LocalOK, Answer
<1>3. ASSUME NEW q \in Handlers
      PROVE  /\ begin'[q] # NoOffset => host'[q] \in Participants
             /\ pc'[q] \in Reading => begin'[q] # NoOffset
  BY <1>1, <1>3 DEF LocalOK, Answer
<1> QED
  BY <1>2, <1>3 DEF LocalOK

\* a handler on its way to clearDispatched keeps its offset and host
LEMMA ClearThenFailOK ==
  ASSUME LocalOK, NEW p \in Handlers, NEW a \in Answers, ClearThenFail(p, a)
  PROVE  LocalOK'
  BY DEF LocalOK, ClearThenFail, Labels, Reading

\* the catch arm of execute, whatever verdict it carries
LEMMA RefusedOK ==
  ASSUME LocalOK, NEW p \in Handlers, NEW reason, Refused(p, reason)
  PROVE  LocalOK'
  BY AnswerOK, ClearThenFailOK
     DEF Refused, Answers, RelayRefusals, RepaySafe

\* the catch arm of execute, when no verdict arrived
LEMMA NeverAnsweredOK ==
  ASSUME LocalOK, NEW p \in Handlers, NeverAnswered(p)
  PROVE  LocalOK'
<1>1. CASE MarkMode = "enforce"
  BY <1>1, AnswerOK DEF NeverAnswered, Answers
<1>2. CASE MarkMode # "enforce"
  BY <1>2, AnswerOK DEF NeverAnswered, Answers, RelayRefusals
<1> QED
  BY <1>1, <1>2

\* a handler learns a participant's ledger end
LEMMA EndReadOK ==
  ASSUME LocalOK, LedgerOK, NEW p \in Handlers, NEW r \in Participants,
         NEW l \in Labels,
         pc' = [pc EXCEPT ![p] = l],
         host' = [host EXCEPT ![p] = r],
         begin' = [begin EXCEPT ![p] = Len(stream[r])],
         UNCHANGED <<verdict, ans>>
  PROVE  LocalOK'
<1>1. Len(stream[r]) \in Nat
  BY DEF LedgerOK
<1>2. Len(stream[r]) # NoOffset
  BY <1>1 DEF NoOffset
<1> QED
  BY <1>1, <1>2 DEF LocalOK

\* rows and ledgers that a step leaves alone
LEMMA UnchangedOK ==
  /\ MarkOK /\ mark' = mark => MarkOK'
  /\ LedgerOK /\ UNCHANGED <<ledger, clock>> => LedgerOK'
  /\ LocalOK /\ UNCHANGED local => LocalOK'
<1>1. MarkOK /\ mark' = mark => MarkOK'
  BY DEF MarkOK
<1>2. LedgerOK /\ UNCHANGED <<ledger, clock>> => LedgerOK'
  BY DEF LedgerOK, ledger
<1>3. LocalOK /\ UNCHANGED local => LocalOK'
  BY DEF LocalOK, local
<1> QED
  BY <1>1, <1>2, <1>3

\* every step of a handler keeps its own locals well typed
LEMMA LocalStep ==
  ASSUME TypeInv, NEW p \in Handlers, HandlerStep(p)
  PROVE  LocalOK'
<1> USE DEF TypeInv
<1>1. CASE Accept(p)
  BY <1>1, GotoOK DEF Accept, Labels, Reading
<1>2. CASE Reject(p)
  BY <1>2, AnswerOK DEF Reject, Answers
<1>3. CASE Lookup(p)
  <2>1. CASE Charge(p)
    BY <2>1, GotoOK, AnswerOK DEF Charge, Labels, Reading, Answers
  <2>2. CASE \E a \in {"ok", "unknown"} : Answer(p, a)
    BY <2>2, AnswerOK DEF Answers
  <2>3. CASE /\ mark.begin # NoOffset
             /\ pc' = [pc EXCEPT ![p] = "resolve"]
             /\ begin' = [begin EXCEPT ![p] = mark.begin]
             /\ host' = [host EXCEPT ![p] = mark.host]
             /\ UNCHANGED <<verdict, ans>>
    BY <2>3 DEF LocalOK, MarkOK, Marks, Labels
  <2> QED
    BY <1>3, <2>1, <2>2, <2>3 DEF Lookup
<1>4. CASE ResolveFinds(p)
  BY <1>4, GotoOK, ClearThenFailOK
     DEF ResolveFinds, Labels, Reading, Answers, RelayRefusals
<1>5. CASE ResolveUnknown(p)
  BY <1>5, AnswerOK DEF ResolveUnknown, Answers
<1>6. CASE Reconfirm(p)
  BY <1>6, GotoOK, AnswerOK DEF Reconfirm, Labels, Reading, Answers
<1>7. CASE Capture(p)
  <2>1. CASE UNCHANGED <<host, begin>>
    BY <1>7, <2>1 DEF Capture, LocalOK, Labels, Reading
  <2>2. CASE \E r \in Participants :
               /\ host' = [host EXCEPT ![p] = r]
               /\ begin' = [begin EXCEPT ![p] = Len(stream[r])]
    BY <1>7, <2>2, EndReadOK DEF Capture, Labels
  <2> QED
    BY <1>7, <2>1, <2>2 DEF Capture
<1>8. CASE RecordDispatched(p)
  <2>1. PICK l \in Labels : /\ Goto(p, l)
                            /\ l \in Reading => begin[p] # NoOffset
    BY <1>8 DEF RecordDispatched, Labels, Reading
  <2> QED
    BY <2>1, GotoOK
<1>9. CASE ReadOffset(p)
  <2>1. CASE \E r \in Participants :
               /\ pc' = [pc EXCEPT ![p] = "submit"]
               /\ host' = [host EXCEPT ![p] = r]
               /\ begin' = [begin EXCEPT ![p] = Len(stream[r])]
               /\ UNCHANGED <<verdict, ans>>
    BY <2>1, EndReadOK DEF Labels
  <2> QED
    BY <1>9, <2>1, NeverAnsweredOK, RefusedOK DEF ReadOffset
<1>10. CASE SubmitAccepted(p)
  <2>1. begin[p] # NoOffset
    BY <1>10 DEF SubmitAccepted, At, LocalOK, Reading
  <2> QED
    BY <1>10, <2>1, GotoOK DEF SubmitAccepted, Labels
<1>11. CASE SubmitRefused(p)
  BY <1>11, RefusedOK DEF SubmitRefused
<1>12. CASE SubmitDeduped(p)
  BY <1>12, GotoOK DEF SubmitDeduped, Labels, Reading
<1>13. CASE SubmitLost(p)
  BY <1>13, NeverAnsweredOK DEF SubmitLost
<1>14. CASE PollFinds(p)
  BY <1>14, GotoOK, RefusedOK DEF PollFinds, Labels, Reading
<1>15. CASE PollGivesUp(p)
  BY <1>15, NeverAnsweredOK DEF PollGivesUp
<1>16. CASE Confirm(p)
  BY <1>16, GotoOK, ClearThenFailOK
     DEF Confirm, Labels, Reading, Answers, RelayRefusals
<1>17. CASE RecordSettled(p)
  BY <1>17, AnswerOK DEF RecordSettled, Answers
<1>18. CASE ClearDispatched(p)
  <2>1. verdict[p] \in Answers
    BY DEF LocalOK
  <2> QED
    BY <1>18, <2>1, AnswerOK DEF ClearDispatched
<1>19. CASE SiblingAnswers(p)
  BY <1>19, AnswerOK DEF SiblingAnswers, Answers
<1>20. CASE SiblingGivesUp(p)
  <2>1. PICK a \in Answers : Answer(p, a)
    BY <1>20 DEF SiblingGivesUp, Inconclusive, Answers, RelayRefusals
  <2> QED
    BY <2>1, AnswerOK
<1> QED
  BY <1>1, <1>2, <1>3, <1>4, <1>5, <1>6, <1>7, <1>8, <1>9, <1>10, <1>11,
     <1>12, <1>13, <1>14, <1>15, <1>16, <1>17, <1>18, <1>19, <1>20
     DEF HandlerStep

\* a handler that submits knows where to
LEMMA SubmitHasHost ==
  ASSUME TypeInv, NEW p \in Handlers, At(p, "submit")
  PROVE  host[p] \in Participants
  BY DEF TypeInv, LocalOK, At, Reading

\* a refusal leaves the outcome one of the four
LEMMA RefusalOK ==
  ASSUME LedgerOK, NEW r, NEW reason, Refusal(r, reason)
  PROVE  outcome' \in Outcomes
  BY DEF LedgerOK, Refusal, Outcomes

\* every step of a handler keeps the row and the ledger well typed too
LEMMA HandlerTypeStep ==
  ASSUME TypeInv, NEW p \in Handlers, HandlerStep(p)
  PROVE  TypeInv'
<1>1. LocalOK'
  BY LocalStep
<1>2. MarkOK'
  <2>1. CASE RecordDispatched(p)
    BY <2>1 DEF RecordDispatched, TypeInv, MarkOK, Marks, LocalOK
  <2>2. CASE RecordSettled(p)
    BY <2>2 DEF RecordSettled, Settled, TypeInv, MarkOK, Marks
  <2>3. CASE ClearDispatched(p)
    BY <2>3 DEF ClearDispatched, NoMark, TypeInv, MarkOK, Marks
  <2>4. CASE UNCHANGED mark
    BY <2>4, UnchangedOK DEF TypeInv
  <2> QED
    BY <2>1, <2>2, <2>3, <2>4
       DEF HandlerStep, Accept, Reject, Lookup, ResolveFinds,
           ResolveUnknown, Reconfirm, Capture, ReadOffset, SubmitAccepted,
           SubmitRefused, SubmitDeduped, SubmitLost, PollFinds, PollGivesUp,
           Confirm, SiblingAnswers, SiblingGivesUp
<1>3. LedgerOK'
  <2>1. CASE SubmitAccepted(p)
    BY <2>1, SubmitHasHost DEF SubmitAccepted, TypeInv, LedgerOK
  <2>2. CASE SubmitRefused(p)
    BY <2>2, RefusalOK DEF SubmitRefused, TypeInv, LedgerOK
  <2>3. CASE SubmitLost(p)
    BY <2>3, SubmitHasHost DEF SubmitLost, TypeInv, LedgerOK
  <2>4. CASE UNCHANGED <<ledger, clock>>
    BY <2>4, UnchangedOK DEF TypeInv
  <2> QED
    BY <2>1, <2>2, <2>3, <2>4
       DEF HandlerStep, Accept, Reject, Lookup, ResolveFinds,
           ResolveUnknown, Reconfirm, Capture, RecordDispatched, ReadOffset,
           SubmitDeduped, PollFinds, PollGivesUp, Confirm, RecordSettled,
           ClearDispatched, SiblingAnswers, SiblingGivesUp
<1> QED
  BY <1>1, <1>2, <1>3 DEF TypeInv

\* every step, the environment's included, keeps the types
LEMMA NextTypeInv == TypeInv /\ [Next]_vars => TypeInv'
<1> SUFFICES ASSUME TypeInv, [Next]_vars
             PROVE  TypeInv'
  OBVIOUS
<1>1. ASSUME NEW p \in Handlers, TurnAway(p)
      PROVE  TypeInv'
  BY <1>1, AnswerOK, UnchangedOK DEF TurnAway, Answers, TypeInv
<1>2. ASSUME NEW p \in Handlers, Receive(p)
      PROVE  TypeInv'
  <2>1. LocalOK'
    BY <1>2 DEF Receive, TypeInv, LocalOK, Labels, Answers, Reading
  <2> QED
    BY <1>2, <2>1, UnchangedOK DEF Receive, TypeInv
<1>3. ASSUME NEW r \in Participants, SequenceCommit(r)
      PROVE  TypeInv'
  <2>1. LedgerOK'
    BY <1>3 DEF SequenceCommit, TypeInv, LedgerOK, Outcomes, Completions
  <2> QED
    BY <1>3, <2>1, UnchangedOK DEF SequenceCommit, TypeInv
<1>4. ASSUME NEW r \in Participants, SequenceReject(r)
      PROVE  TypeInv'
  <2>1. outcome' \in Outcomes
    BY <1>4, RefusalOK DEF SequenceReject, TypeInv
  <2>2. LedgerOK'
    BY <1>4, <2>1 DEF SequenceReject, TypeInv, LedgerOK, Completions
  <2> QED
    BY <1>4, <2>2, UnchangedOK DEF SequenceReject, TypeInv
<1>5. CASE Tick
  <2>1. LedgerOK'
    BY <1>5 DEF Tick, TypeInv, LedgerOK, ledger, Fresh, Aged
  <2> QED
    BY <1>5, <2>1, UnchangedOK DEF Tick, TypeInv
<1>6. CASE Sweep
  <2>1. MarkOK'
    BY <1>6 DEF Sweep, NoMark, TypeInv, MarkOK, Marks
  <2> QED
    BY <1>6, <2>1, UnchangedOK DEF Sweep, TypeInv
<1>7. CASE Crash
  <2>1. LocalOK'
    BY <1>7 DEF Crash, LocalOK, Labels, Answers, Reading
  <2> QED
    BY <1>7, <2>1, UnchangedOK DEF Crash, TypeInv
<1>8. CASE UNCHANGED vars
  BY <1>8, UnchangedOK DEF vars, ledger, local, TypeInv
<1> QED
  BY <1>1, <1>2, <1>3, <1>4, <1>5, <1>6, <1>7, <1>8, HandlerTypeStep
     DEF Next, Environment

(***************************************************************************)
(* Every reachable state is well typed: the handlers' offsets, hosts and   *)
(* pending answers, the row, and the participants' completion streams.     *)
(***************************************************************************)
THEOREM TypeCorrect == Spec => []TypeOK
<1>1. Init => TypeInv
  BY InitTypeInv
<1>2. TypeInv /\ [Next]_vars => TypeInv'
  BY NextTypeInv
<1>3. TypeInv => TypeOK
  BY TypeInvTypes
<1> QED
  BY <1>1, <1>2, <1>3, PTL DEF Spec

-----------------------------------------------------------------------------
(* Success.                                                                *)

\* a commit is for ever
LEMMA CommitIsFinal ==
  ASSUME TypeInv, [Next]_vars
  PROVE  /\ Committed => Committed' /\ outcome' = outcome
         /\ Paid => Paid'
<1>1. Committed => outcome' = outcome
  <2>1. ASSUME NEW p \in Handlers, HandlerStep(p)
        PROVE  Committed => outcome' = outcome
    BY <2>1
       DEF HandlerStep, Accept, Reject, Lookup, ResolveFinds, Refusal,
           ResolveUnknown, Reconfirm, Capture, RecordDispatched, ReadOffset,
           SubmitAccepted, SubmitRefused, SubmitDeduped, SubmitLost,
           PollFinds, PollGivesUp, Confirm, RecordSettled, ClearDispatched,
           SiblingAnswers, SiblingGivesUp, ledger
  <2>2. ASSUME NEW p \in Handlers, TurnAway(p) \/ Receive(p)
        PROVE  outcome' = outcome
    BY <2>2 DEF TurnAway, Receive, ledger
  <2>3. CASE Environment
    BY <2>3 DEF Environment, SequenceCommit, SequenceReject, Refusal,
                Committed, Tick, Sweep, Crash, ledger
  <2> QED
    BY <2>1, <2>2, <2>3 DEF Next, vars
<1> QED
  BY <1>1 DEF Committed, Paid

\* what every way of moving a handler preserves
LEMMA GotoPaid ==
  ASSUME LocalOK, LocalPaid, NEW p \in Handlers, NEW l, Goto(p, l),
         l = "record" => Paid, l \in {"confirm", "reconfirm"} => Committed,
         Paid => Paid', Committed => Committed'
  PROVE  LocalPaid'
  BY DEF LocalOK, LocalPaid, Goto

\* a reply other than ok says nothing of a payment
LEMMA AnswerPaid ==
  ASSUME LocalOK, LocalPaid, NEW p \in Handlers, NEW a, Answer(p, a),
         a = "ok" => Paid, Paid => Paid', Committed => Committed'
  PROVE  LocalPaid'
  BY DEF LocalOK, LocalPaid, Answer

\* nor does a failure on its way to the clear
LEMMA ClearThenFailPaid ==
  ASSUME LocalOK, LocalPaid, NEW p \in Handlers, NEW a, ClearThenFail(p, a),
         a # "ok", Paid => Paid', Committed => Committed'
  PROVE  LocalPaid'
  BY DEF LocalOK, LocalPaid, ClearThenFail

\* nor does a refusal of the relay
LEMMA RefusedPaid ==
  ASSUME LocalOK, LocalPaid, NEW p \in Handlers, NEW reason,
         Refused(p, reason), Paid => Paid', Committed => Committed'
  PROVE  LocalPaid'
  BY AnswerPaid, ClearThenFailPaid DEF Refused

\* nor does an answer that was lost
LEMMA NeverAnsweredPaid ==
  ASSUME LocalOK, LocalPaid, NEW p \in Handlers, NeverAnswered(p),
         Paid => Paid', Committed => Committed'
  PROVE  LocalPaid'
<1>1. PICK a : Answer(p, a) /\ a # "ok"
  BY DEF NeverAnswered
<1> QED
  BY <1>1, AnswerPaid

\* a handler that stays clear of the confirm and of the reply
LEMMA MovePaid ==
  ASSUME LocalOK, LocalPaid, NEW p \in Handlers, NEW l,
         pc' = [pc EXCEPT ![p] = l], l \notin {"record", "confirm",
         "reconfirm"}, UNCHANGED <<verdict, ans>>,
         Paid => Paid', Committed => Committed'
  PROVE  LocalPaid'
  BY DEF LocalOK, LocalPaid

\* the completion a handler reads speaks for the ledger
LEMMA FoundCommit ==
  ASSUME TypeInv, PaidInv, NEW p \in Handlers, pc[p] \in Reading,
         Found(p), FirstCompletion(p) = "committed"
  PROVE  Committed
<1>1. /\ host[p] \in Participants
      /\ begin[p] \in Nat
      /\ stream[host[p]] \in Seq(Completions)
  BY DEF TypeInv, LocalOK, LedgerOK
<1>2. begin[p] + 1 \in 1..Len(stream[host[p]])
  BY <1>1 DEF Found
<1> QED
  BY <1>1, <1>2 DEF PaidInv, LedgerPaid, FirstCompletion

\* and the confirm that follows it
LEMMA TransferredPaid ==
  ASSUME Committed, TRUE \in Transferred
  PROVE  Paid
  BY FaultAssumption DEF Transferred, Committed, Paid

\* a handler that confirms, records or answers ok does so for a payment
LEMMA LocalPaidStep ==
  ASSUME TypeInv, PaidInv, NEW p \in Handlers, HandlerStep(p)
  PROVE  LocalPaid'
<1> DEFINE Kept == (Paid => Paid') /\ (Committed => Committed')
<1>0. Kept
  BY CommitIsFinal DEF Next
<1> USE DEF TypeInv, PaidInv
<1>1. CASE Accept(p)
  BY <1>0, <1>1, GotoPaid DEF Accept
<1>2. CASE Reject(p)
  BY <1>0, <1>2, AnswerPaid DEF Reject
<1>3. CASE Lookup(p)
  <2>1. CASE Charge(p)
    BY <1>0, <2>1, GotoPaid, AnswerPaid DEF Charge
  <2>2. CASE Answer(p, "ok") /\ mark.state = "settled"
    BY <1>0, <2>2, AnswerPaid DEF MarkPaid
  <2>3. CASE Answer(p, "unknown")
    BY <1>0, <2>3, AnswerPaid
  <2>4. CASE pc' = [pc EXCEPT ![p] = "resolve"] /\ UNCHANGED <<verdict, ans>>
    BY <1>0, <2>4, MovePaid
  <2> QED
    BY <1>3, <2>1, <2>2, <2>3, <2>4 DEF Lookup
<1>4. CASE ResolveFinds(p)
  BY <1>0, <1>4, FoundCommit, GotoPaid, ClearThenFailPaid
     DEF ResolveFinds, At, Reading
<1>5. CASE ResolveUnknown(p)
  BY <1>0, <1>5, AnswerPaid DEF ResolveUnknown
<1>6. CASE Reconfirm(p)
  <2>1. Committed
    BY <1>6 DEF Reconfirm, At, LocalPaid
  <2>2. CASE TRUE \in Transferred /\ Goto(p, "record")
    BY <1>0, <2>1, <2>2, TransferredPaid, GotoPaid
  <2>3. CASE Answer(p, "unknown")
    BY <1>0, <2>3, AnswerPaid
  <2> QED
    BY <1>6, <2>2, <2>3 DEF Reconfirm, Transferred
<1>7. CASE Capture(p)
  BY <1>0, <1>7, MovePaid DEF Capture
<1>8. CASE RecordDispatched(p)
  <2>1. PICK l \in {"sibling", "offset", "submit"} : Goto(p, l)
    BY <1>8 DEF RecordDispatched
  <2> QED
    BY <1>0, <2>1, GotoPaid
<1>9. CASE ReadOffset(p)
  BY <1>0, <1>9, MovePaid, NeverAnsweredPaid, RefusedPaid DEF ReadOffset
<1>10. CASE SubmitAccepted(p)
  BY <1>0, <1>10, GotoPaid DEF SubmitAccepted
<1>11. CASE SubmitRefused(p)
  BY <1>0, <1>11, RefusedPaid DEF SubmitRefused
<1>12. CASE SubmitDeduped(p)
  BY <1>0, <1>12, GotoPaid DEF SubmitDeduped
<1>13. CASE SubmitLost(p)
  BY <1>0, <1>13, NeverAnsweredPaid DEF SubmitLost
<1>14. CASE PollFinds(p)
  BY <1>0, <1>14, FoundCommit, GotoPaid, RefusedPaid
     DEF PollFinds, At, Reading
<1>15. CASE PollGivesUp(p)
  BY <1>0, <1>15, NeverAnsweredPaid DEF PollGivesUp
<1>16. CASE Confirm(p)
  <2>1. Committed
    BY <1>16 DEF Confirm, At, LocalPaid
  <2>2. CASE TRUE \in Transferred /\ Goto(p, "record")
    BY <1>0, <2>1, <2>2, TransferredPaid, GotoPaid
  <2>3. CASE ClearThenFail(p, "execute_failed")
    BY <1>0, <2>3, ClearThenFailPaid
  <2> QED
    BY <1>16, <2>2, <2>3 DEF Confirm, Transferred
<1>17. CASE RecordSettled(p)
  BY <1>0, <1>17, AnswerPaid DEF RecordSettled, At, LocalPaid
<1>18. CASE ClearDispatched(p)
  BY <1>0, <1>18, AnswerPaid DEF ClearDispatched, LocalPaid
<1>19. CASE SiblingAnswers(p)
  BY <1>0, <1>19, AnswerPaid DEF SiblingAnswers, MarkPaid
<1>20. CASE SiblingGivesUp(p)
  <2>1. PICK a : Answer(p, a) /\ a # "ok"
    BY <1>20 DEF SiblingGivesUp, Inconclusive
  <2> QED
    BY <1>0, <2>1, AnswerPaid
<1> QED
  BY <1>1, <1>2, <1>3, <1>4, <1>5, <1>6, <1>7, <1>8, <1>9, <1>10, <1>11,
     <1>12, <1>13, <1>14, <1>15, <1>16, <1>17, <1>18, <1>19, <1>20
     DEF HandlerStep

\* nothing has been answered or recorded at the start
LEMMA InitPaid == Init => PaidInv
  BY DEF Init, PaidInv, LedgerPaid, LocalPaid, MarkPaid, NoMark

\* every step keeps rows and answers truthful about payments
LEMMA NextPaid == TypeInv /\ PaidInv /\ [Next]_vars => PaidInv'
<1> SUFFICES ASSUME TypeInv, PaidInv, [Next]_vars
             PROVE  PaidInv'
  OBVIOUS
<1>0. /\ Paid => Paid'
      /\ Committed => Committed'
  BY CommitIsFinal
<1>1. LocalPaid'
  <2>1. ASSUME NEW p \in Handlers, HandlerStep(p)
        PROVE  LocalPaid'
    BY <2>1, LocalPaidStep
  <2>2. ASSUME NEW p \in Handlers, TurnAway(p)
        PROVE  LocalPaid'
    BY <1>0, <2>2, AnswerPaid DEF TurnAway, TypeInv, PaidInv
  <2>3. ASSUME NEW p \in Handlers, Receive(p)
        PROVE  LocalPaid'
    BY <1>0, <2>3 DEF Receive, TypeInv, LocalOK, PaidInv, LocalPaid
  <2>4. CASE Crash
    BY <2>4 DEF Crash, LocalPaid
  <2>5. CASE UNCHANGED local
    BY <1>0, <2>5 DEF local, PaidInv, LocalPaid
  <2> QED
    BY <2>1, <2>2, <2>3, <2>4, <2>5
       DEF Next, Environment, SequenceCommit, SequenceReject, Tick, Sweep,
           vars, local
<1>2. MarkPaid'
  <2>1. ASSUME NEW p \in Handlers, RecordSettled(p)
        PROVE  MarkPaid'
    BY <1>0, <2>1 DEF RecordSettled, At, PaidInv, LocalPaid, MarkPaid
  <2>2. CASE mark'.state = "settled" => mark.state = "settled"
    BY <1>0, <2>2 DEF PaidInv, MarkPaid
  <2>3. ASSUME NEW p \in Handlers, HandlerStep(p), ~RecordSettled(p)
        PROVE  mark'.state = "settled" => mark.state = "settled"
    BY <2>3
       DEF HandlerStep, Accept, Reject, Lookup, ResolveFinds, NoMark,
           ResolveUnknown, Reconfirm, Capture, RecordDispatched, ReadOffset,
           SubmitAccepted, SubmitRefused, SubmitDeduped, SubmitLost,
           PollFinds, PollGivesUp, Confirm, ClearDispatched,
           SiblingAnswers, SiblingGivesUp
  <2>4. ASSUME NEW p \in Handlers, TurnAway(p) \/ Receive(p)
        PROVE  mark' = mark
    BY <2>4 DEF TurnAway, Receive
  <2>5. CASE Environment
    BY <2>2, <2>5 DEF Environment, SequenceCommit, SequenceReject, Tick,
                      Sweep, Crash, NoMark
  <2> QED
    BY <2>1, <2>2, <2>3, <2>4, <2>5 DEF Next, vars
<1>3. LedgerPaid'
  <2>1. ASSUME NEW r \in Participants, SequenceCommit(r)
        PROVE  LedgerPaid'
    BY <2>1 DEF SequenceCommit, LedgerPaid, Committed
  <2>2. ASSUME NEW r \in Participants, SequenceReject(r)
        PROVE  LedgerPaid'
    <3>1. PICK reason \in Reasons :
            stream' = [stream EXCEPT ![r] = Append(@, reason)]
      BY <2>2 DEF SequenceReject
    <3>2. reason # "committed"
      BY <3>1 DEF Reasons
    <3>3. ASSUME NEW q \in Participants, NEW i \in 1..Len(stream'[q]),
                 stream'[q][i] = "committed"
          PROVE  Committed'
      <4>1. stream[q] \in Seq(Completions) /\ stream[r] \in Seq(Completions)
        BY DEF TypeInv, LedgerOK
      <4>2. i \in 1..Len(stream[q]) /\ stream[q][i] = "committed"
        BY <3>1, <3>2, <3>3, <4>1 DEF TypeInv, LedgerOK
      <4> QED
        BY <1>0, <4>2 DEF PaidInv, LedgerPaid
    <3> QED
      BY <3>3 DEF LedgerPaid
  <2>3. CASE UNCHANGED stream
    BY <1>0, <2>3 DEF PaidInv, LedgerPaid
  <2>4. ASSUME NEW p \in Handlers, HandlerStep(p) \/ TurnAway(p) \/ Receive(p)
        PROVE  UNCHANGED stream
    BY <2>4
       DEF HandlerStep, TurnAway, Receive, Accept, Reject, Lookup,
           ResolveFinds, ResolveUnknown, Reconfirm, Capture,
           RecordDispatched, ReadOffset, SubmitAccepted, SubmitRefused,
           SubmitDeduped, SubmitLost, PollFinds, PollGivesUp, Confirm,
           RecordSettled, ClearDispatched, SiblingAnswers, SiblingGivesUp,
           ledger
  <2> QED
    BY <2>1, <2>2, <2>3, <2>4
       DEF Next, Environment, Tick, Sweep, Crash, vars, ledger
<1> QED
  BY <1>1, <1>2, <1>3 DEF PaidInv

(***************************************************************************)
(* No merchant is told success, and no row says settled, for a transaction *)
(* that did not pay: for any number of concurrent duplicates, retries and  *)
(* crashes, in every mode, and with a database that fails at will.         *)
(***************************************************************************)
THEOREM SuccessIsAlwaysPaid == Spec => []SuccessIsPaid
<1>1. Init => TypeInv /\ PaidInv
  BY InitTypeInv, InitPaid
<1>2. TypeInv /\ PaidInv /\ [Next]_vars => (TypeInv /\ PaidInv)'
  BY NextTypeInv, NextPaid
<1>3. PaidInv => SuccessIsPaid
  BY DEF PaidInv, LocalPaid, MarkPaid, SuccessIsPaid
<1> QED
  BY <1>1, <1>2, <1>3, PTL DEF Spec

-----------------------------------------------------------------------------
(* enforce: what it guarantees with a database that answers.               *)

Enforcing == MarkMode = "enforce" /\ DbMayFail = FALSE /\ Transient = {}

\* a handler that moves on without relaying, and touches nothing else
LEMMA MoveAside ==
  ASSUME TypeInv, EnforceInv, NEW p \in Handlers, NEW l \in Labels,
         pc' = [pc EXCEPT ![p] = l], UNCHANGED <<mark, ledger, clock>>,
         l \notin Relaying, l = "clear" => ~Alive,
         clock = Aged => l \in {"idle", "validate"}
  PROVE  EnforceInv'
<1>1. /\ AgedIsQuiet'
      /\ ClearsOnlyTheDead'
  BY DEF TypeInv, LocalOK, EnforceInv, AgedIsQuiet, ClearsOnlyTheDead,
         ledger, Alive
<1>2. OneSubmission => OneSubmission'
  BY DEF OneSubmission, ledger
<1>3. DoubtIsMarked => DoubtIsMarked'
  BY DEF DoubtIsMarked, MayPay, ledger
<1>4. OneRelay => OneRelay'
  <2>1. pc'[p] \notin Relaying
    BY DEF TypeInv, LocalOK
  <2>2. \A q \in Handlers : q # p => pc'[q] = pc[q]
    BY DEF TypeInv, LocalOK
  <2>3. MayPay' = MayPay
    BY DEF MayPay, ledger
  <2> QED
    BY <2>1, <2>2, <2>3 DEF OneRelay, Relaying
<1>5. Alive' = Alive
  BY DEF Alive, ledger
<1> QED
  BY <1>1, <1>2, <1>3, <1>4, <1>5 DEF EnforceInv

\* a handler past its validation means the retention has not passed
LEMMA BusyIsNotAged ==
  ASSUME EnforceInv, NEW p \in Handlers, pc[p] \notin {"idle", "validate"}
  PROVE  clock # Aged
  BY DEF EnforceInv, AgedIsQuiet

\* a completion that is not a commit was read, so the bytes cannot pay
LEMMA RejectionIsDeath ==
  ASSUME TypeInv, EnforceInv, NEW p \in Handlers, pc[p] \in Reading,
         Found(p), FirstCompletion(p) # "committed"
  PROVE  ~Alive
<1>1. /\ host[p] \in Participants
      /\ begin[p] \in Nat
      /\ stream[host[p]] \in Seq(Completions)
  BY DEF TypeInv, LocalOK, LedgerOK
<1>2. begin[p] + 1 \in 1..Len(stream[host[p]])
  BY <1>1 DEF Found
<1> QED
  BY <1>1, <1>2 DEF EnforceInv, OneSubmission, FirstCompletion

\* moving on is to an answer or to a clear, once a verdict is there
LEMMA RefusedMoves ==
  ASSUME NEW p, NEW reason, Refused(p, reason)
  PROVE  \E l \in {"idle", "clear"} : pc' = [pc EXCEPT ![p] = l]
  BY DEF Refused, Answer, ClearThenFail

\* no step of a handler unmarks a doubt or relays beside another
LEMMA EnforceHandlerStep ==
  ASSUME Enforcing, TypeInv, PaidInv, EnforceInv,
         NEW p \in Handlers, HandlerStep(p)
  PROVE  EnforceInv'
<1> DEFINE Aside(l) == /\ pc' = [pc EXCEPT ![p] = l]
                       /\ UNCHANGED <<mark, ledger, clock>>
<1>a. ASSUME NEW l \in Labels \ {"offset", "submit", "poll", "clear"},
             Aside(l), pc[p] \notin {"idle", "validate"} \/ l = "idle"
      PROVE  EnforceInv'
  BY <1>a, MoveAside, BusyIsNotAged DEF Relaying
<1>b. ASSUME NEW l \in {"idle", "clear"}, Aside(l), ~Alive,
             pc[p] \notin {"idle", "validate"}
      PROVE  EnforceInv'
  BY <1>b, MoveAside, BusyIsNotAged DEF Relaying, Labels
<1>1. CASE Accept(p)
  <2>1. Aside("lookup") /\ clock # Aged
    BY <1>1 DEF Accept, Goto, Fresh, Aged
  <2>2. "lookup" \in Labels /\ "lookup" \notin Relaying
    BY DEF Labels, Relaying
  <2> QED
    BY <2>1, <2>2, MoveAside
<1>2. CASE Reject(p)
  BY <1>2, <1>a DEF Reject, Answer, Labels
<1>3. CASE Lookup(p)
  <2>1. \E l \in {"idle", "resolve", "capture"} : Aside(l)
    BY <1>3 DEF Lookup, Charge, Goto, Answer, Enforcing
  <2> QED
    BY <1>3, <2>1, <1>a DEF Lookup, At, Labels
<1>4. CASE ResolveFinds(p)
  <2>1. CASE FirstCompletion(p) = "committed"
    BY <1>4, <2>1, <1>a DEF ResolveFinds, Goto, At, Labels
  <2>2. CASE FirstCompletion(p) # "committed"
    BY <1>4, <2>2, <1>b, RejectionIsDeath
       DEF ResolveFinds, ClearThenFail, At, Reading
  <2> QED
    BY <2>1, <2>2
<1>5. CASE ResolveUnknown(p)
  BY <1>5, <1>a DEF ResolveUnknown, Answer, Labels
<1>6. CASE Reconfirm(p)
  <2>1. \E l \in {"idle", "record"} : Aside(l)
    BY <1>6 DEF Reconfirm, Goto, Answer
  <2> QED
    BY <1>6, <2>1, <1>a DEF Reconfirm, At, Labels
<1>7. CASE Capture(p)
  BY <1>7, <1>a DEF Capture, At, Labels
<1>8. CASE RecordDispatched(p)
  <2>1. pc[p] = "mark" /\ UNCHANGED <<ledger, clock>>
    BY <1>8 DEF RecordDispatched, At
  <2>2. CASE mark.state # "none"
    <3>1. Aside("sibling")
      BY <1>8, <2>1, <2>2 DEF RecordDispatched, Goto, DbWorks, Enforcing
    <3> QED
      BY <2>1, <3>1, <1>a DEF Labels
  <2>3. CASE mark.state = "none"
    <3>1. mark'.state = "dispatched" /\ clock # Aged
      BY <1>8, <2>1, <2>3, BusyIsNotAged
         DEF RecordDispatched, DbWorks, Enforcing
    <3>2. PICK l \in {"offset", "submit"} :
            \A q \in Handlers : pc'[q] = IF q = p THEN l ELSE pc[q]
      BY <1>8, <2>3
         DEF RecordDispatched, Goto, DbWorks, Enforcing, TypeInv, LocalOK
    <3>3. AgedIsQuiet' /\ ClearsOnlyTheDead' /\ Alive' = Alive
      BY <2>1, <3>1, <3>2
         DEF EnforceInv, AgedIsQuiet, ClearsOnlyTheDead, Alive, ledger
    <3>4. (OneSubmission => OneSubmission') /\ DoubtIsMarked'
      BY <2>1, <3>1 DEF OneSubmission, DoubtIsMarked, ledger
    <3>5. DoubtIsMarked /\ OneRelay => OneRelay'
      BY <2>1, <2>3, <3>1, <3>2
         DEF DoubtIsMarked, OneRelay, Relaying, MayPay, ledger
    <3> QED
      BY <3>3, <3>4, <3>5 DEF EnforceInv
  <2> QED
    BY <2>2, <2>3
<1>9. CASE ReadOffset(p)
  <2>1. pc[p] = "offset" /\ UNCHANGED <<mark, ledger, clock>>
    BY <1>9 DEF ReadOffset, At
  <2>2. CASE pc' = [pc EXCEPT ![p] = "submit"]
    <3>1. /\ \A q \in Handlers : pc'[q] = IF q = p THEN "submit" ELSE pc[q]
          /\ clock # Aged
      BY <2>1, <2>2, BusyIsNotAged DEF TypeInv, LocalOK
    <3>2. AgedIsQuiet' /\ ClearsOnlyTheDead'
      BY <2>1, <3>1
         DEF EnforceInv, AgedIsQuiet, ClearsOnlyTheDead, Alive, ledger
    <3>3. (OneSubmission => OneSubmission') /\ (DoubtIsMarked => DoubtIsMarked')
      BY <2>1, <3>1 DEF OneSubmission, DoubtIsMarked, MayPay, ledger
    <3>4. OneRelay => OneRelay'
      BY <2>1, <3>1 DEF OneRelay, Relaying, MayPay, ledger
    <3>5. Alive' = Alive
      BY <2>1 DEF Alive, ledger
    <3> QED
      BY <3>2, <3>3, <3>4, <3>5 DEF EnforceInv
  <2>3. CASE pc' # [pc EXCEPT ![p] = "submit"]
    <3>1. Aside("idle")
      BY <1>9, <2>1, <2>3
         DEF ReadOffset, NeverAnswered, Refused, Answer, Enforcing
    <3> QED
      BY <2>1, <3>1, <1>a DEF Labels
  <2> QED
    BY <2>2, <2>3
<1>10. CASE SubmitAccepted(p)
  BY <1>10
     DEF SubmitAccepted, Goto, EnforceInv, AgedIsQuiet, ClearsOnlyTheDead,
         OneSubmission, DoubtIsMarked, OneRelay, Relaying, Alive, MayPay,
         TypeInv, LocalOK, LedgerOK, At, ledger, Enforcing
<1>11. CASE SubmitRefused(p)
  <2>1. ~Alive'
    <3>1. CASE Alive
      <4>1. outcome = "none" /\ inflight = {}
        BY <1>11, <3>1 DEF SubmitRefused, At, EnforceInv, OneRelay, MayPay,
                           Alive
      <4> QED
        BY <1>11, <4>1 DEF SubmitRefused, Refusal, Enforcing, Committed, Alive
    <3>2. CASE ~Alive
      BY <1>11, <3>2 DEF SubmitRefused, Refusal, Alive
    <3> QED
      BY <3>1, <3>2
  <2>2. PICK l \in {"idle", "clear"} : pc' = [pc EXCEPT ![p] = l]
    BY <1>11, RefusedMoves DEF SubmitRefused
  <2>3. clock # Aged
    BY <1>11, BusyIsNotAged DEF SubmitRefused, At
  <2>4. AgedIsQuiet' /\ ClearsOnlyTheDead'
    BY <1>11, <2>1, <2>3 DEF SubmitRefused, AgedIsQuiet, ClearsOnlyTheDead
  <2> QED
    BY <2>1, <2>4 DEF EnforceInv
<1>12. CASE SubmitDeduped(p)
  BY <1>12, <1>a DEF SubmitDeduped, Goto, At, Labels
<1>13. CASE SubmitLost(p)
  <2>1. pc' = [pc EXCEPT ![p] = "idle"]
    BY <1>13 DEF SubmitLost, NeverAnswered, Answer, Enforcing
  <2>2. clock # Aged
    BY <1>13, BusyIsNotAged DEF SubmitLost, At
  <2>3. AgedIsQuiet' /\ ClearsOnlyTheDead' /\ Alive' = Alive
    BY <1>13, <2>1, <2>2
       DEF SubmitLost, EnforceInv, AgedIsQuiet, ClearsOnlyTheDead, Alive,
           TypeInv, LocalOK
  <2>4. ASSUME Alive
        PROVE  OneSubmission' /\ DoubtIsMarked' /\ OneRelay'
    <3>1. ~MayPay /\ mark.state # "none" /\ inflight = {} /\ outcome = "none"
      BY <1>13, <2>4 DEF SubmitLost, At, EnforceInv, OneRelay, Relaying,
                         MayPay, Alive
    <3>2. OneSubmission'
      BY <1>13, <2>4, <3>1 DEF SubmitLost, EnforceInv, OneSubmission
    <3>3. DoubtIsMarked'
      BY <1>13, <3>1 DEF SubmitLost, DoubtIsMarked
    <3>4. \A q \in Handlers : pc'[q] \notin {"offset", "submit", "poll"}
      BY <1>13, <2>1, <2>4
         DEF SubmitLost, At, EnforceInv, OneRelay, Relaying, TypeInv, LocalOK
    <3>5. OneRelay'
      BY <3>4 DEF OneRelay, Relaying
    <3> QED
      BY <3>2, <3>3, <3>5
  <2> QED
    BY <2>3, <2>4 DEF EnforceInv
<1>14. CASE PollFinds(p)
  <2>1. CASE FirstCompletion(p) = "committed"
    BY <1>14, <2>1, <1>a DEF PollFinds, Goto, At, Labels
  <2>2. CASE FirstCompletion(p) # "committed"
    BY <1>14, <2>2, <1>b, RejectionIsDeath, RefusedMoves
       DEF PollFinds, At, Reading
  <2> QED
    BY <2>1, <2>2
<1>15. CASE PollGivesUp(p)
  BY <1>15, <1>a DEF PollGivesUp, NeverAnswered, Answer, Enforcing, Labels
<1>16. CASE Confirm(p)
  <2>1. CASE Goto(p, "record")
    BY <1>16, <2>1, <1>a DEF Confirm, Goto, At, Labels
  <2>2. CASE FALSE \in Transferred /\ ClearThenFail(p, "execute_failed")
    <3>1. Committed
      BY <1>16 DEF Confirm, At, PaidInv, LocalPaid
    <3>2. ~Alive
      BY <2>2, <3>1 DEF Transferred, Committed, Alive
    <3> QED
      BY <1>16, <2>2, <3>2, <1>b DEF Confirm, ClearThenFail, At
  <2> QED
    BY <1>16, <2>1, <2>2 DEF Confirm, Transferred
<1>17. CASE RecordSettled(p)
  BY <1>17
     DEF RecordSettled, Settled, Answer, EnforceInv, AgedIsQuiet,
         ClearsOnlyTheDead, OneSubmission, DoubtIsMarked, OneRelay,
         Relaying, Alive, MayPay, TypeInv, LocalOK, LedgerOK, At, ledger,
         Enforcing, DbWorks
<1>18. CASE ClearDispatched(p)
  BY <1>18
     DEF ClearDispatched, NoMark, Answer, EnforceInv, AgedIsQuiet,
         ClearsOnlyTheDead, OneSubmission, DoubtIsMarked, OneRelay,
         Relaying, Alive, MayPay, TypeInv, LocalOK, LedgerOK, At, ledger,
         Enforcing, DbWorks
<1>19. CASE SiblingAnswers(p)
  BY <1>19, <1>a DEF SiblingAnswers, Answer, Labels
<1>20. CASE SiblingGivesUp(p)
  BY <1>20, <1>a DEF SiblingGivesUp, Inconclusive, Answer, Labels
<1> QED
  BY <1>1, <1>2, <1>3, <1>4, <1>5, <1>6, <1>7, <1>8, <1>9, <1>10, <1>11,
     <1>12, <1>13, <1>14, <1>15, <1>16, <1>17, <1>18, <1>19, <1>20
     DEF HandlerStep

\* at the start nobody relays and nothing is in doubt
LEMMA InitEnforce == Init => EnforceInv
  BY DEF Init, EnforceInv, AgedIsQuiet, ClearsOnlyTheDead, OneSubmission,
         DoubtIsMarked, OneRelay, Relaying, MayPay, Fresh, Aged

\* every step, the ledger's, the sweep's and a crash included, keeps EnforceInv
LEMMA NextEnforce ==
  ASSUME Enforcing
  PROVE  TypeInv /\ PaidInv /\ EnforceInv /\ [Next]_vars => EnforceInv'
<1> SUFFICES ASSUME TypeInv, PaidInv, EnforceInv, [Next]_vars
             PROVE  EnforceInv'
  OBVIOUS
<1>1. ASSUME NEW p \in Handlers, HandlerStep(p)
      PROVE  EnforceInv'
  BY <1>1, EnforceHandlerStep
<1>2. ASSUME NEW p \in Handlers, TurnAway(p)
      PROVE  EnforceInv'
  BY <1>2, MoveAside DEF TurnAway, Answer, Relaying, Labels
<1>3. ASSUME NEW p \in Handlers, Receive(p)
      PROVE  EnforceInv'
  <2>1. "validate" \in Labels \ Relaying
    BY DEF Labels, Relaying
  <2> QED
    BY <1>3, <2>1, MoveAside DEF Receive
<1>4. ASSUME NEW r \in Participants, SequenceCommit(r)
      PROVE  EnforceInv'
  <2>1. MayPay /\ outcome = "none"
    BY <1>4 DEF SequenceCommit, MayPay
  <2>2. AgedIsQuiet' /\ ClearsOnlyTheDead'
    BY <1>4, <2>1 DEF SequenceCommit, local, EnforceInv, AgedIsQuiet,
                      ClearsOnlyTheDead, Alive, Expired, Aged
  <2>3. ASSUME Alive'
        PROVE  OneSubmission' /\ DoubtIsMarked' /\ OneRelay'
    <3>1. OneSubmission /\ DoubtIsMarked /\ OneRelay
      BY <2>1 DEF EnforceInv, Alive
    <3>2. OneSubmission'
      BY <1>4, <3>1 DEF SequenceCommit, OneSubmission, TypeInv, LedgerOK
    <3>3. DoubtIsMarked'
      BY <1>4, <2>1, <3>1 DEF SequenceCommit, DoubtIsMarked
    <3>4. OneRelay'
      BY <1>4, <2>1, <3>1 DEF SequenceCommit, local, OneRelay
    <3> QED
      BY <3>2, <3>3, <3>4
  <2> QED
    BY <2>2, <2>3 DEF EnforceInv
<1>5. ASSUME NEW r \in Participants, SequenceReject(r)
      PROVE  EnforceInv'
  <2>1. ~Alive'
    BY <1>5 DEF SequenceReject, Refusal, Enforcing, Committed, EnforceInv,
                OneSubmission, Alive
  <2>2. AgedIsQuiet' /\ ClearsOnlyTheDead'
    BY <1>5, <2>1 DEF SequenceReject, local, EnforceInv, AgedIsQuiet,
                      ClearsOnlyTheDead
  <2> QED
    BY <2>1, <2>2 DEF EnforceInv
<1>6. CASE Tick
  BY <1>6
     DEF Tick, EnforceInv, AgedIsQuiet, ClearsOnlyTheDead, OneSubmission,
         DoubtIsMarked, OneRelay, Alive, MayPay, TypeInv, LedgerOK, At,
         ledger, local, Fresh, Expired, Aged
<1>7. CASE Sweep
  <2>1. \A p \in Handlers : pc[p] \in {"idle", "validate"}
    BY <1>7 DEF Sweep, EnforceInv, AgedIsQuiet
  <2>2. \A p \in Handlers : pc'[p] \notin Relaying
    BY <1>7, <2>1 DEF Sweep, local, Relaying
  <2> QED
    BY <1>7, <2>2
       DEF Sweep, EnforceInv, AgedIsQuiet, ClearsOnlyTheDead, OneSubmission,
           DoubtIsMarked, OneRelay, Alive, ledger, local, Relaying
<1>8. CASE Crash
  <2>1. \A p \in Handlers : pc'[p] = "idle"
    BY <1>8 DEF Crash
  <2> QED
    BY <1>8, <2>1
       DEF Crash, EnforceInv, AgedIsQuiet, ClearsOnlyTheDead, OneSubmission,
           DoubtIsMarked, OneRelay, Alive, MayPay, ledger, Relaying
<1>9. CASE UNCHANGED vars
  BY <1>9
     DEF vars, EnforceInv, AgedIsQuiet, ClearsOnlyTheDead, OneSubmission,
         DoubtIsMarked, OneRelay, Alive, MayPay, Relaying
<1> QED
  BY <1>1, <1>2, <1>3, <1>4, <1>5, <1>6, <1>7, <1>8, <1>9
     DEF Next, Environment

\* the three invariants together, in every reachable state
LEMMA EnforceInvariant ==
  ASSUME Enforcing
  PROVE  Spec => [](TypeInv /\ PaidInv /\ EnforceInv)
<1>1. Init => TypeInv /\ PaidInv /\ EnforceInv
  BY InitTypeInv, InitPaid, InitEnforce
<1>2. TypeInv /\ PaidInv /\ EnforceInv /\ [Next]_vars
        => TypeInv' /\ PaidInv' /\ EnforceInv'
  BY NextTypeInv, NextPaid, NextEnforce
<1> QED
  BY <1>1, <1>2, PTL DEF Spec

-----------------------------------------------------------------------------
(* The guarantees.                                                         *)

(***************************************************************************)
(* While the bytes paid or may pay, one request at most has relayed them,  *)
(* its row stands, and the completions there are say they committed: the   *)
(* invariant the guarantees below are read off.                            *)
(***************************************************************************)
THEOREM OneRelayAtMost ==
  ASSUME Enforcing
  PROVE  Spec => []EnforceInv
<1> QED
  BY EnforceInvariant, PTL

(***************************************************************************)
(* The row of a transaction that paid or may pay stands until the          *)
(* retention is over: no clear, crash or race of any number of requests    *)
(* removes it.                                                             *)
(***************************************************************************)
THEOREM DoubtStaysMarked ==
  ASSUME Enforcing
  PROVE  Spec => []DoubtIsMarked
<1>1. EnforceInv => DoubtIsMarked
  BY DEF EnforceInv, DoubtIsMarked, MayPay, Alive
<1> QED
  BY <1>1, EnforceInvariant, PTL

(***************************************************************************)
(* Nobody relays the bytes a second time while the first relay may pay.    *)
(***************************************************************************)
THEOREM DoubtIsNeverRelayed ==
  ASSUME Enforcing
  PROVE  Spec => NeverRelaysInDoubt
<1>1. EnforceInv => ~RelaysInDoubt
  BY DEF EnforceInv, OneRelay, RelaysInDoubt, MayPay, Alive, At
<1>2. EnforceInv => [~RelaysInDoubt]_vars
  BY <1>1
<1> QED
  BY <1>2, EnforceInvariant, PTL DEF NeverRelaysInDoubt

\* who replies in a step is the handler that takes it
LEMMA ReplierSteps ==
  ASSUME TypeInv, [Next]_vars, NEW p \in Handlers, Replies(p, RelayRefusals)
  PROVE  HandlerStep(p) /\ clock' = clock
<1>1. pc[p] # "idle" /\ pc'[p] = "idle" /\ ans'[p] \in RelayRefusals
  BY DEF Replies, At
<1>2. pc' # pc
  BY <1>1
<1>3. ~Environment
  <2>1. ~Crash
    BY <1>1 DEF Crash, RelayRefusals, RepaySafe
  <2> QED
    BY <1>2, <2>1
       DEF Environment, SequenceCommit, SequenceReject, Tick, Sweep, local
<1>4. PICK q \in Handlers : TurnAway(q) \/ Receive(q) \/ HandlerStep(q)
  BY <1>2, <1>3 DEF Next, vars
<1>5. pc[q] # "idle" => HandlerStep(q)
  BY <1>4 DEF TurnAway, Receive, At
<1>6. \E l \in Labels : pc' = [pc EXCEPT ![q] = l]
  BY <1>4
     DEF TurnAway, Receive, HandlerStep, Accept, Reject, Lookup, Charge,
         ResolveFinds, ResolveUnknown, Reconfirm, Capture, RecordDispatched,
         ReadOffset, SubmitAccepted, SubmitRefused, SubmitDeduped,
         SubmitLost, PollFinds, PollGivesUp, Confirm, RecordSettled,
         ClearDispatched, SiblingAnswers, SiblingGivesUp, Refused,
         NeverAnswered, Inconclusive, Answer, Goto, ClearThenFail, Labels
<1>7. q = p
  BY <1>1, <1>6 DEF TypeInv, LocalOK
<1>8. HandlerStep(p)
  BY <1>1, <1>5, <1>7
<1> QED
  BY <1>8
     DEF HandlerStep, Accept, Reject, Lookup, ResolveFinds, ResolveUnknown,
         Reconfirm, Capture, RecordDispatched, ReadOffset, SubmitAccepted,
         SubmitRefused, SubmitDeduped, SubmitLost, PollFinds, PollGivesUp,
         Confirm, RecordSettled, ClearDispatched, SiblingAnswers,
         SiblingGivesUp

\* the only four places a relay is refused at
LEMMA RefusingStep ==
  ASSUME Enforcing, TypeInv, NEW p \in Handlers, HandlerStep(p),
         Replies(p, RelayRefusals)
  PROVE  \/ ReadOffset(p)
         \/ SubmitRefused(p)
         \/ PollFinds(p) /\ FirstCompletion(p) # "committed"
         \/ ClearDispatched(p)
<1>1. pc'[p] = "idle" /\ ans'[p] \notin {"busy", "invalid", "ok", "unknown"}
  BY DEF Replies, At, RelayRefusals, RepaySafe
<1>2. \A a : Answer(p, a) => ans'[p] = a
  BY DEF Answer, TypeInv, LocalOK
<1>3. \A l : pc' = [pc EXCEPT ![p] = l] => l = "idle"
  BY <1>1 DEF TypeInv, LocalOK
<1>4. /\ ~Reject(p) /\ ~ResolveUnknown(p) /\ ~RecordSettled(p)
      /\ ~SiblingAnswers(p)
  BY <1>1, <1>2
     DEF Reject, ResolveUnknown, RecordSettled, SiblingAnswers
<1>5. ~SubmitLost(p) /\ ~PollGivesUp(p) /\ ~SiblingGivesUp(p)
  BY <1>1, <1>2
     DEF SubmitLost, PollGivesUp, SiblingGivesUp, NeverAnswered,
         Inconclusive, Enforcing
<1>6. /\ ~Accept(p) /\ ~Capture(p) /\ ~RecordDispatched(p)
      /\ ~SubmitAccepted(p) /\ ~SubmitDeduped(p) /\ ~Confirm(p)
      /\ ~ResolveFinds(p)
  BY <1>3
     DEF Accept, Capture, RecordDispatched, SubmitAccepted, SubmitDeduped,
         Confirm, ResolveFinds, Goto, ClearThenFail
<1>7. ~Lookup(p) /\ ~Reconfirm(p)
  BY <1>1, <1>2, <1>3
     DEF Lookup, Charge, Reconfirm, Goto, Enforcing
<1>8. PollFinds(p) => FirstCompletion(p) # "committed"
  BY <1>3 DEF PollFinds, Goto
<1> QED
  BY <1>4, <1>5, <1>6, <1>7, <1>8 DEF HandlerStep

\* a step that refuses a relay leaves it unable to pay
LEMMA RelayRefusalStep ==
  ASSUME Enforcing, TypeInv, EnforceInv, [Next]_vars,
         NEW p \in Handlers, Replies(p, RelayRefusals)
  PROVE  ~MayPay'
<1>1. HandlerStep(p)
  BY ReplierSteps
<1>2. CASE ReadOffset(p)
  <2>1. ~MayPay
    BY <1>2 DEF ReadOffset, At, EnforceInv, OneRelay, MayPay, Alive
  <2> QED
    BY <1>2, <2>1 DEF ReadOffset, ledger, MayPay
<1>3. CASE SubmitRefused(p)
  <2>1. ~MayPay
    BY <1>3 DEF SubmitRefused, At, EnforceInv, OneRelay, MayPay, Alive
  <2>2. inflight' = inflight /\ outcome' \in {outcome, "dead"}
    BY <1>3 DEF SubmitRefused, Refusal
  <2> QED
    BY <2>1, <2>2 DEF MayPay
<1>4. CASE PollFinds(p) /\ FirstCompletion(p) # "committed"
  <2>1. ~Alive
    BY <1>4, RejectionIsDeath DEF PollFinds, At, Reading
  <2> QED
    BY <1>4, <2>1 DEF PollFinds, ledger, Alive, MayPay
<1>5. CASE ClearDispatched(p)
  <2>1. ~Alive
    BY <1>5 DEF ClearDispatched, At, EnforceInv, ClearsOnlyTheDead
  <2> QED
    BY <1>5, <2>1 DEF ClearDispatched, ledger, Alive, MayPay
<1> QED
  BY <1>1, <1>2, <1>3, <1>4, <1>5, RefusingStep

(***************************************************************************)
(* A relay answered success:false has not paid and cannot pay any more:    *)
(* the merchant may ask for a fresh payment, and the payer who already     *)
(* signed this one is never charged for it.                                *)
(***************************************************************************)
THEOREM RelayRefusalIsFinal ==
  ASSUME Enforcing
  PROVE  Spec => RelayRefusalIsTrue
<1> DEFINE Step == \A p \in Handlers : Replies(p, RelayRefusals) => ~MayPay'
<1>1. TypeInv /\ EnforceInv /\ [Next]_vars => Step
  BY RelayRefusalStep
<1>2. TypeInv /\ EnforceInv /\ [Next]_vars => [Step]_vars
  BY <1>1
<1> QED
  BY <1>2, EnforceInvariant, PTL DEF Spec, RelayRefusalIsTrue

-----------------------------------------------------------------------------
(* observe: one of off's behaviours once the marks are hidden.             *)

Observing == MarkMode = "observe"

\* off's labels depend on whether a handler at its mark has an offset, so they
\* are kept only because nobody has one before it was captured
NoneYet ==
    \A p \in Handlers :
        pc[p] \in {"idle", "validate", "lookup", "capture"} => begin[p] = NoOffset

\* the pc of off
OffPc == [p \in Handlers |-> OffLabel(p)]

\* off's labels after a handler's move
LEMMA OffMoves ==
  ASSUME LocalOK, NEW p \in Handlers, NEW l, pc' = [pc EXCEPT ![p] = l],
         \A q \in Handlers \ {p} : begin'[q] = begin[q]
  PROVE  OffPc' = [OffPc EXCEPT ![p] = OffLabel(p)']
<1>1. \A q \in Handlers : pc'[q] = IF q = p THEN l ELSE pc[q]
  BY DEF LocalOK
<1>2. \A q \in Handlers \ {p} : OffLabel(q)' = OffLabel(q)
  BY <1>1 DEF OffLabel
<1> QED
  BY <1>2 DEF OffPc

\* the moves of a handler are off's
LEMMA OffGoto ==
  ASSUME LocalOK, NEW p \in Handlers, NEW l, Goto(p, l),
         l \notin {"capture", "mark"}
  PROVE  Off!Goto(p, l)
<1>1. pc'[p] = l /\ OffLabel(p)' = l
  BY DEF Goto, LocalOK, OffLabel
<1>2. OffPc' = [OffPc EXCEPT ![p] = l]
  BY <1>1, OffMoves DEF Goto
<1> QED
  BY <1>2 DEF OffPc, Goto, Off!Goto

\* a reply is off's reply, whatever label it is given at
LEMMA OffAnswer ==
  ASSUME LocalOK, NEW p \in Handlers, NEW a, Answer(p, a)
  PROVE  Off!Answer(p, a)
<1>1. pc'[p] = "idle" /\ OffLabel(p)' = "idle"
  BY DEF Answer, LocalOK, OffLabel
<1>2. \A q \in Handlers \ {p} : begin'[q] = begin[q]
  BY DEF Answer, LocalOK
<1>3. OffPc' = [OffPc EXCEPT ![p] = "idle"]
  BY <1>1, <1>2, OffMoves DEF Answer
<1> QED
  BY <1>3 DEF OffPc, Answer, Off!Answer, NoOffset, Off!NoOffset, NoHost, Off!NoHost

\* so is a clear that ends in a failure
LEMMA OffClearThenFail ==
  ASSUME LocalOK, NEW p \in Handlers, NEW a, ClearThenFail(p, a)
  PROVE  Off!ClearThenFail(p, a)
<1>1. pc'[p] = "clear" /\ OffLabel(p)' = "clear"
  BY DEF ClearThenFail, LocalOK, OffLabel
<1>2. OffPc' = [OffPc EXCEPT ![p] = "clear"]
  BY <1>1, OffMoves DEF ClearThenFail
<1> QED
  BY <1>2 DEF OffPc, ClearThenFail, Off!ClearThenFail

\* so is a refusal
LEMMA OffRefused ==
  ASSUME LocalOK, NEW p \in Handlers, NEW reason, Refused(p, reason)
  PROVE  Off!Refused(p, reason)
  BY OffAnswer, OffClearThenFail DEF Refused, Off!Refused

\* an answer that never came is answered alike in both modes
LEMMA OffNeverAnswered ==
  ASSUME LocalOK, Observing, NEW p \in Handlers, NeverAnswered(p)
  PROVE  Off!NeverAnswered(p)
  BY OffAnswer DEF Observing, NeverAnswered, Off!NeverAnswered

\* the labels off has keep their name
LEMMA OffAt ==
  ASSUME NEW p \in Handlers, NEW l, At(p, l), l \notin {"capture", "mark"}
  PROVE  Off!At(p, l)
  BY DEF At, Off!At, OffLabel

\* a step that leaves the row leaves off's; dispatched is none to off
LEMMA OffUnmarked ==
  /\ mark' = mark => OffMark' = OffMark
  /\ OffMark.state = IF mark.state = "settled" THEN "settled" ELSE "none"
  BY DEF OffMark, Settled, NoMark

\* a handler that is at none of the labels off does not have moves on
LEMMA OffStands ==
  ASSUME LocalOK, NEW p \in Handlers, NEW l, pc' = [pc EXCEPT ![p] = l],
         \A q \in Handlers \ {p} : begin'[q] = begin[q],
         OffLabel(p)' = OffLabel(p)
  PROVE  OffPc' = OffPc
<1>1. OffPc' = [OffPc EXCEPT ![p] = OffLabel(p)]
  BY OffMoves
<1> QED
  BY <1>1 DEF OffPc

\* every step of a handler is off's step, or off stands still: the capture
\* reads off's offset or fails, and the mark is nothing to off
LEMMA OffHandlerStep ==
  ASSUME TypeInv, NoneYet, Observing, NEW p \in Handlers, HandlerStep(p)
  PROVE  Off!HandlerStep(p) \/ UNCHANGED Off!vars
<1> USE DEF TypeInv
<1>1. CASE Accept(p)
  <2>1. Off!Accept(p)
    BY <1>1, OffGoto, OffAt, OffUnmarked
       DEF Accept, Off!Accept, ledger, Off!ledger, Fresh, Off!Fresh
  <2> QED
    BY <2>1 DEF Off!HandlerStep
<1>2. CASE Reject(p)
  <2>1. Off!Reject(p)
    BY <1>2, OffAnswer, OffAt, OffUnmarked
       DEF Reject, Off!Reject, ledger, Off!ledger, Fresh, Off!Fresh
  <2> QED
    BY <2>1 DEF Off!HandlerStep
<1>3. CASE Lookup(p)
  <2>1. Off!At(p, "lookup") /\ UNCHANGED <<OffMark, ledger, clock>>
    BY <1>3, OffAt, OffUnmarked DEF Lookup
  <2>2. PICK works \in DbWorks :
          LET state == IF works THEN mark.state ELSE "none"
          IN  \/ state = "settled" /\ Answer(p, "ok")
              \/ state \in {"none", "dispatched"} /\ Charge(p)
    BY <1>3 DEF Lookup, Observing
  <2>3. ASSUME Charge(p) PROVE Off!Charge(p)
    <3>1. CASE Answer(p, "busy")
      BY <3>1, OffAnswer DEF Off!Charge
    <3>2. CASE Goto(p, "capture")
      <4>1. begin[p] = NoOffset
        BY <1>3 DEF Lookup, At, NoneYet
      <4>2. pc'[p] = "capture" /\ OffLabel(p)' = "offset"
        BY <3>2 DEF Goto, LocalOK, OffLabel
      <4>3. OffPc' = [OffPc EXCEPT ![p] = "offset"]
        BY <3>2, <4>2, OffMoves DEF Goto
      <4> QED
        BY <3>2, <4>3 DEF Off!Charge, Off!Goto, Goto, OffPc
    <3> QED
      BY <2>3, <3>1, <3>2 DEF Charge, Observing
  <2>4. works \in Off!DbWorks
    BY DEF DbWorks, Off!DbWorks
  <2>5. Off!Lookup(p)
    BY <2>1, <2>2, <2>3, <2>4, OffAnswer, OffUnmarked
       DEF Off!Lookup, ledger, Off!ledger
  <2> QED
    BY <2>5 DEF Off!HandlerStep
<1>4. CASE ResolveFinds(p)
  <2>1. Off!ResolveFinds(p)
    BY <1>4, OffGoto, OffClearThenFail, OffAt, OffUnmarked
       DEF ResolveFinds, Off!ResolveFinds, ledger, Off!ledger, Found, Off!Found,
           FirstCompletion, Off!FirstCompletion
  <2> QED
    BY <2>1 DEF Off!HandlerStep
<1>5. CASE ResolveUnknown(p)
  <2>1. Off!ResolveUnknown(p)
    BY <1>5, OffAnswer, OffAt, OffUnmarked
       DEF ResolveUnknown, Off!ResolveUnknown, ledger, Off!ledger
  <2> QED
    BY <2>1 DEF Off!HandlerStep
<1>6. CASE Reconfirm(p)
  <2>1. Off!Reconfirm(p)
    BY <1>6, OffGoto, OffAnswer, OffAt, OffUnmarked
       DEF Reconfirm, Off!Reconfirm, ledger, Off!ledger, Transferred,
           Off!Transferred
  <2> QED
    BY <2>1 DEF Off!HandlerStep
<1>7. CASE Capture(p)
  <2>1. begin[p] = NoOffset /\ pc[p] = "capture" /\ Off!At(p, "offset")
    BY <1>7 DEF Capture, At, NoneYet, Off!At, OffLabel
  <2>2. /\ pc' = [pc EXCEPT ![p] = "mark"]
        /\ UNCHANGED <<verdict, ans, mark, ledger, clock>>
    BY <1>7 DEF Capture
  <2>3. pc'[p] = "mark"
    BY <2>2 DEF LocalOK
  <2>4. CASE UNCHANGED <<host, begin>>
    <3>1. OffLabel(p)' = OffLabel(p)
      BY <2>1, <2>3, <2>4 DEF OffLabel
    <3>2. OffPc' = OffPc
      BY <2>2, <2>4, <3>1, OffStands
    <3> QED
      BY <2>2, <2>4, <3>2, OffUnmarked DEF Off!vars, ledger, OffPc
  <2>5. ASSUME NEW r \in Participants, host' = [host EXCEPT ![p] = r],
               begin' = [begin EXCEPT ![p] = Len(stream[r])]
        PROVE  Off!ReadOffset(p)
    <3>1. Len(stream[r]) # NoOffset
      BY DEF LedgerOK, NoOffset
    <3>2. begin'[p] = Len(stream[r]) /\ \A q \in Handlers \ {p} : begin'[q] = begin[q]
      BY <2>5 DEF LocalOK
    <3>3. OffLabel(p)' = "submit"
      BY <2>3, <3>1, <3>2 DEF OffLabel
    <3>4. OffPc' = [OffPc EXCEPT ![p] = "submit"]
      BY <2>2, <3>2, <3>3, OffMoves
    <3> QED
      BY <2>1, <2>2, <2>5, <3>4, OffUnmarked
         DEF Off!ReadOffset, OffPc, ledger, Off!ledger
  <2> QED
    BY <1>7, <2>4, <2>5 DEF Capture, Off!HandlerStep
<1>8. CASE RecordDispatched(p)
  <2>1. /\ pc[p] = "mark" /\ UNCHANGED <<ledger, clock>>
        /\ Goto(p, IF begin[p] = NoOffset THEN "offset" ELSE "submit")
        /\ \/ mark' = mark
           \/ mark.state = "none" /\ mark'.state = "dispatched"
    BY <1>8 DEF RecordDispatched, At, Observing
  <2>2. OffLabel(p)' = OffLabel(p)
    BY <2>1 DEF OffLabel, Goto, LocalOK
  <2>3. OffPc' = OffPc
    BY <2>1, <2>2, OffStands DEF Goto
  <2>4. OffMark' = OffMark
    BY <2>1 DEF OffMark
  <2> QED
    BY <2>1, <2>3, <2>4 DEF Off!vars, ledger, OffPc, Goto
<1>9. CASE ReadOffset(p)
  <2>1. Off!At(p, "offset") /\ UNCHANGED <<OffMark, ledger, clock>>
    BY <1>9, OffAt, OffUnmarked DEF ReadOffset
  <2>2. ASSUME NEW r \in Participants, pc' = [pc EXCEPT ![p] = "submit"],
               host' = [host EXCEPT ![p] = r],
               begin' = [begin EXCEPT ![p] = Len(stream[r])],
               UNCHANGED <<verdict, ans>>
        PROVE  Off!ReadOffset(p)
    <3>1. pc'[p] = "submit" /\ \A q \in Handlers \ {p} : begin'[q] = begin[q]
      BY <2>2 DEF LocalOK
    <3>2. OffLabel(p)' = "submit"
      BY <3>1 DEF OffLabel
    <3>3. OffPc' = [OffPc EXCEPT ![p] = "submit"]
      BY <2>2, <3>1, <3>2, OffMoves
    <3> QED
      BY <2>1, <2>2, <3>3 DEF Off!ReadOffset, OffPc, ledger, Off!ledger
  <2>3. CASE NeverAnswered(p) \/ Refused(p, "other")
    BY <2>1, <2>3, OffNeverAnswered, OffRefused
       DEF Off!ReadOffset, ledger, Off!ledger, Off!HandlerStep
  <2> QED
    BY <1>9, <2>2, <2>3 DEF ReadOffset, Off!HandlerStep
<1>10. CASE SubmitAccepted(p)
  <2>1. Off!SubmitAccepted(p)
    BY <1>10, OffGoto, OffAt, OffUnmarked
       DEF SubmitAccepted, Off!SubmitAccepted, CanAccept, Off!CanAccept
  <2> QED
    BY <2>1 DEF Off!HandlerStep
<1>11. CASE SubmitRefused(p)
  <2>1. Off!SubmitRefused(p)
    BY <1>11, OffRefused, OffAt, OffUnmarked
       DEF SubmitRefused, Off!SubmitRefused, Refusal, Off!Refusal, Committed,
           Off!Committed, Reasons, Off!Reasons
  <2> QED
    BY <2>1 DEF Off!HandlerStep
<1>12. CASE SubmitDeduped(p)
  <2>1. Off!SubmitDeduped(p)
    BY <1>12, OffGoto, OffAt, OffUnmarked
       DEF SubmitDeduped, Off!SubmitDeduped, ledger, Off!ledger
  <2> QED
    BY <2>1 DEF Off!HandlerStep
<1>13. CASE SubmitLost(p)
  <2>1. Off!SubmitLost(p)
    BY <1>13, OffNeverAnswered, OffAt, OffUnmarked
       DEF SubmitLost, Off!SubmitLost, CanAccept, Off!CanAccept
  <2> QED
    BY <2>1 DEF Off!HandlerStep
<1>14. CASE PollFinds(p)
  <2>1. Off!PollFinds(p)
    BY <1>14, OffGoto, OffRefused, OffAt, OffUnmarked
       DEF PollFinds, Off!PollFinds, ledger, Off!ledger, Found, Off!Found,
           FirstCompletion, Off!FirstCompletion
  <2> QED
    BY <2>1 DEF Off!HandlerStep
<1>15. CASE PollGivesUp(p)
  <2>1. Off!PollGivesUp(p)
    BY <1>15, OffNeverAnswered, OffAt, OffUnmarked
       DEF PollGivesUp, Off!PollGivesUp, ledger, Off!ledger
  <2> QED
    BY <2>1 DEF Off!HandlerStep
<1>16. CASE Confirm(p)
  <2>1. Off!Confirm(p)
    BY <1>16, OffGoto, OffClearThenFail, OffAt, OffUnmarked
       DEF Confirm, Off!Confirm, ledger, Off!ledger, Transferred,
           Off!Transferred
  <2> QED
    BY <2>1 DEF Off!HandlerStep
<1>17. CASE RecordSettled(p)
  <2>1. PICK works \in DbWorks : mark' = IF works THEN Settled ELSE mark
    BY <1>17 DEF RecordSettled
  <2>2. OffMark' = IF works THEN Settled ELSE OffMark
    BY <2>1 DEF OffMark, Settled
  <2>3. Off!RecordSettled(p)
    BY <1>17, <2>2, OffAnswer, OffAt
       DEF RecordSettled, Off!RecordSettled, ledger, Off!ledger, DbWorks,
           Off!DbWorks, Settled, Off!Settled, NoOffset, Off!NoOffset, NoHost,
           Off!NoHost
  <2> QED
    BY <2>3 DEF Off!HandlerStep
<1>18. CASE ClearDispatched(p)
  <2>1. PICK works \in DbWorks :
          mark' = IF works /\ mark.state = "dispatched" THEN NoMark ELSE mark
    BY <1>18 DEF ClearDispatched
  <2>2. OffMark' = OffMark /\ OffMark.state # "dispatched"
    BY <2>1 DEF OffMark, Settled, NoMark
  <2>3. Off!ClearDispatched(p)
    BY <1>18, <2>2, OffAnswer, OffAt
       DEF ClearDispatched, Off!ClearDispatched, ledger, Off!ledger, DbWorks,
           Off!DbWorks
  <2> QED
    BY <2>3 DEF Off!HandlerStep
<1>19. CASE SiblingAnswers(p)
  <2>1. Off!SiblingAnswers(p)
    BY <1>19, OffAnswer, OffAt, OffUnmarked
       DEF SiblingAnswers, Off!SiblingAnswers, ledger, Off!ledger
  <2> QED
    BY <2>1 DEF Off!HandlerStep
<1>20. CASE SiblingGivesUp(p)
  <2>1. Off!SiblingGivesUp(p)
    BY <1>20, OffAnswer, OffAt, OffUnmarked
       DEF SiblingGivesUp, Off!SiblingGivesUp, Inconclusive, Off!Inconclusive,
           Observing, ledger, Off!ledger
  <2> QED
    BY <2>1 DEF Off!HandlerStep
<1> QED
  BY <1>1, <1>2, <1>3, <1>4, <1>5, <1>6, <1>7, <1>8, <1>9, <1>10, <1>11,
     <1>12, <1>13, <1>14, <1>15, <1>16, <1>17, <1>18, <1>19, <1>20
     DEF HandlerStep

\* no step gives an offset to a handler that has not passed the capture
LEMMA NoneYetNext == ASSUME TypeInv, NoneYet, [Next]_vars PROVE NoneYet'
<1>1. ASSUME NEW p \in Handlers, HandlerStep(p) PROVE NoneYet'
  <2>1. ASSUME NEW a, Answer(p, a) PROVE NoneYet'
    BY <2>1 DEF Answer, NoneYet, TypeInv, LocalOK
  <2>2. ASSUME NEW l, Goto(p, l),
               l \in {"idle", "validate", "lookup", "capture"} =>
                 pc[p] \in {"idle", "validate", "lookup", "capture"}
        PROVE  NoneYet'
    BY <2>2 DEF Goto, NoneYet, TypeInv, LocalOK
  <2>3. ASSUME NEW a, ClearThenFail(p, a) PROVE NoneYet'
    BY <2>3 DEF ClearThenFail, NoneYet, TypeInv, LocalOK
  <2>4. ASSUME NEW l \in {"resolve", "mark", "submit"}, pc' = [pc EXCEPT ![p] = l],
               \A q \in Handlers \ {p} : begin'[q] = begin[q]
        PROVE  NoneYet'
    BY <2>4 DEF NoneYet, TypeInv, LocalOK
  <2>5. ASSUME NEW r, begin' = [begin EXCEPT ![p] = r]
        PROVE  \A q \in Handlers \ {p} : begin'[q] = begin[q]
    BY <2>5 DEF TypeInv, LocalOK
  <2>6. ASSUME NEW reason, Refused(p, reason) PROVE NoneYet'
    BY <2>1, <2>3, <2>6 DEF Refused
  <2>7. ASSUME NeverAnswered(p) PROVE NoneYet'
    BY <2>1, <2>7 DEF NeverAnswered
  <2>8. CASE Accept(p) \/ Reject(p)
    BY <2>1, <2>2, <2>8 DEF Accept, Reject, At
  <2>9. CASE Lookup(p)
    <3>1. pc[p] = "lookup"
      BY <2>9 DEF Lookup, At
    <3>2. CASE Charge(p)
      BY <2>1, <2>2, <3>1, <3>2 DEF Charge
    <3>3. CASE \E a \in {"ok", "unknown"} : Answer(p, a)
      BY <2>1, <3>3
    <3>4. CASE pc' = [pc EXCEPT ![p] = "resolve"] /\ begin' = [begin EXCEPT ![p] = mark.begin]
      BY <2>4, <2>5, <3>4
    <3> QED
      BY <2>9, <3>2, <3>3, <3>4 DEF Lookup
  <2>10. CASE ResolveFinds(p) \/ ResolveUnknown(p) \/ Reconfirm(p)
    BY <2>1, <2>2, <2>3, <2>10 DEF ResolveFinds, ResolveUnknown, Reconfirm
  <2>11. CASE Capture(p)
    BY <2>4, <2>5, <2>11 DEF Capture
  <2>12. CASE RecordDispatched(p)
    BY <2>2, <2>12 DEF RecordDispatched
  <2>13. CASE ReadOffset(p)
    <3>1. CASE \E r : /\ pc' = [pc EXCEPT ![p] = "submit"]
                      /\ begin' = [begin EXCEPT ![p] = r]
      BY <2>4, <2>5, <3>1
    <3> QED
      BY <2>6, <2>7, <2>13, <3>1 DEF ReadOffset
  <2>14. CASE SubmitAccepted(p) \/ SubmitDeduped(p)
    BY <2>2, <2>14 DEF SubmitAccepted, SubmitDeduped
  <2>15. CASE SubmitRefused(p) \/ SubmitLost(p)
    BY <2>6, <2>7, <2>15 DEF SubmitRefused, SubmitLost
  <2>16. CASE PollFinds(p) \/ PollGivesUp(p)
    BY <2>2, <2>6, <2>7, <2>16 DEF PollFinds, PollGivesUp
  <2>17. CASE Confirm(p)
    BY <2>2, <2>3, <2>17 DEF Confirm
  <2>18. CASE RecordSettled(p) \/ ClearDispatched(p)
    BY <2>1, <2>18 DEF RecordSettled, ClearDispatched
  <2>19. CASE SiblingAnswers(p) \/ SiblingGivesUp(p)
    BY <2>1, <2>19 DEF SiblingAnswers, SiblingGivesUp, Inconclusive
  <2> QED
    BY <1>1, <2>8, <2>9, <2>10, <2>11, <2>12, <2>13, <2>14, <2>15, <2>16,
       <2>17, <2>18, <2>19 DEF HandlerStep
<1>2. ASSUME NEW p \in Handlers, TurnAway(p) \/ Receive(p) PROVE NoneYet'
  BY <1>2 DEF TurnAway, Receive, Answer, At, NoneYet, TypeInv, LocalOK
<1>3. CASE Crash
  BY <1>3 DEF Crash, NoneYet
<1>4. CASE UNCHANGED local
  BY <1>4 DEF local, NoneYet
<1> QED
  BY <1>1, <1>2, <1>3, <1>4
     DEF Next, Environment, SequenceCommit, SequenceReject, Tick, Sweep, vars,
         local

\* no request and no row are so for off
LEMMA OffInit == Init => Off!Init
<1> SUFFICES ASSUME Init PROVE Off!Init
  OBVIOUS
<1>1. OffPc = [p \in Handlers |-> "idle"]
  BY DEF Init, OffPc, OffLabel
<1>2. OffMark = NoMark
  BY DEF Init, OffMark, NoMark
<1> QED
  BY <1>1, <1>2
     DEF Init, Off!Init, OffPc, NoMark, Off!NoMark, NoOffset, Off!NoOffset,
         NoHost, Off!NoHost, Fresh, Off!Fresh

\* the steps of the ledger, the clock and a crash do not see the mark
LEMMA OffNext ==
  ASSUME TypeInv, NoneYet, Observing, [Next]_vars
  PROVE  [Off!Next]_Off!vars
<1>1. ASSUME NEW p \in Handlers, TurnAway(p) PROVE Off!TurnAway(p)
  BY <1>1, OffAnswer, OffAt, OffUnmarked
     DEF TypeInv, TurnAway, Off!TurnAway, ledger, Off!ledger
<1>2. ASSUME NEW p \in Handlers, Receive(p) PROVE Off!Receive(p)
  <2>1. pc'[p] = "validate" /\ OffLabel(p)' = "validate"
    BY <1>2 DEF Receive, TypeInv, LocalOK, OffLabel
  <2>2. OffPc' = [OffPc EXCEPT ![p] = "validate"]
    BY <1>2, <2>1, OffMoves DEF Receive, TypeInv
  <2> QED
    BY <1>2, <2>2, OffAt, OffUnmarked
       DEF Receive, Off!Receive, OffPc, ledger, Off!ledger
<1>3. ASSUME UNCHANGED local PROVE OffPc' = OffPc
  BY <1>3 DEF local, OffPc, OffLabel
<1>4. ASSUME NEW r \in Participants, SequenceCommit(r)
      PROVE  Off!SequenceCommit(r)
  BY <1>3, <1>4, OffUnmarked
     DEF SequenceCommit, Off!SequenceCommit, Expired, Off!Expired, OffPc, local,
         Off!local
<1>5. ASSUME NEW r \in Participants, SequenceReject(r)
      PROVE  Off!SequenceReject(r)
  BY <1>3, <1>5, OffUnmarked
     DEF SequenceReject, Off!SequenceReject, Refusal, Off!Refusal, Committed,
         Off!Committed, Reasons, Off!Reasons, OffPc, local, Off!local
<1>6. CASE Tick
  <2>1. Off!Tick
    BY <1>3, <1>6, OffAt, OffUnmarked
       DEF Tick, Off!Tick, Aged, Off!Aged, Expired, Off!Expired, OffPc, local,
           Off!local, ledger, Off!ledger
  <2> QED
    BY <2>1 DEF Off!Next, Off!Environment
<1>7. CASE Sweep
  <2>1. OffMark' = NoMark
    BY <1>7 DEF Sweep, OffMark, NoMark
  <2>2. CASE OffMark = NoMark
    BY <1>3, <1>7, <2>1, <2>2 DEF Sweep, Off!vars, OffPc, local, ledger
  <2>3. CASE OffMark # NoMark
    <3>1. Off!Sweep
      BY <1>3, <1>7, <2>1, <2>3
         DEF Sweep, Off!Sweep, Aged, Off!Aged, OffPc, local, Off!local, ledger,
             Off!ledger, NoMark, Off!NoMark, NoOffset, Off!NoOffset, NoHost,
             Off!NoHost
    <3> QED
      BY <3>1 DEF Off!Next, Off!Environment
  <2> QED
    BY <2>2, <2>3
<1>8. CASE Crash
  <2>1. \E p \in Handlers : ~Off!At(p, "idle")
    BY <1>8 DEF Crash, At, Off!At, OffLabel
  <2>2. OffPc' = [p \in Handlers |-> "idle"]
    BY <1>8 DEF Crash, OffPc, OffLabel
  <2>3. Off!Crash
    BY <1>8, <2>1, <2>2, OffUnmarked
       DEF Crash, Off!Crash, OffPc, NoOffset, Off!NoOffset, NoHost, Off!NoHost,
           ledger, Off!ledger
  <2> QED
    BY <2>3 DEF Off!Next, Off!Environment
<1>9. CASE UNCHANGED vars
  BY <1>3, <1>9, OffUnmarked DEF vars, Off!vars, local, OffPc
<1> QED
  BY <1>1, <1>2, <1>4, <1>5, <1>6, <1>7, <1>8, <1>9, OffHandlerStep
     DEF Next, Environment, Off!Next, Off!Environment

(***************************************************************************)
(* ObserveIsOff for any handlers, participants and faults: whatever a      *)
(* request is answered under observe, and whatever the ledger then has,    *)
(* off could have answered and left, the recorded marks aside.             *)
(***************************************************************************)
THEOREM ObserveImplementsOff == ASSUME Observing PROVE Spec => ObserveIsOff
<1>1. Init => TypeInv /\ NoneYet /\ Off!Init
  BY InitTypeInv, OffInit DEF Init, NoneYet
<1>2. TypeInv /\ NoneYet /\ [Next]_vars =>
        TypeInv' /\ NoneYet' /\ [Off!Next]_Off!vars
  BY NextTypeInv, NoneYetNext, OffNext
<1> QED
  BY <1>1, <1>2, PTL DEF Spec, ObserveIsOff, Off!Spec
=============================================================================
