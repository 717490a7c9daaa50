--------------------------- MODULE PreparedTransfer ---------------------------
(* Four arms of verify-before-sign (core/src/prepared-transfer.ts): a       *)
(* transfer, the accept of an incoming transfer, and the two ways a party   *)
(* makes itself able to receive, on the registry and on the Amulet rules.   *)
EXTENDS PreparedTree

----------------------------------------------------------------------------
(* Templates and the consequences each root may have.                      *)

TransferChoice == "TransferFactory_Transfer"
AcceptChoice == "TransferInstruction_Accept"
AmuletRules == "Splice.AmuletRules:AmuletRules"
Amulet == "Splice.Amulet:Amulet"
RewardCoupon == "Splice.Amulet:ValidatorRewardCoupon"
RegistryHolding == "Utility.Registry.Holding.V0.Holding:Holding"
TransferRule == "Utility.Registry.V0.Rule.Transfer:TransferRule"
AllocationFactory ==
    "Utility.Registry.App.V0.Service.AllocationFactory:AllocationFactory"
TransferOffer == "Utility.Registry.App.V0.Model.Transfer:TransferOffer"
ExecutedTransfer == "Utility.Registry.V0.Holding.Transfer:ExecutedTransfer"
RegistryPreapproval ==
    "Utility.Registry.App.V0.Model.TransferPreapproval:TransferPreapproval"
ConfigState == "Splice.ExternalPartyConfigState:ExternalPartyConfigState"
AmuletEventLog == "Splice.AmuletEventLog:AmuletEventLog"

EventLogHoldingsChange ==
    Rule("EventLog_HoldingsChange",
         {ConfigState, AmuletEventLog, RegistryHolding})
DirectTransfer == Rule("TransferRule_DirectTransfer", {TransferRule})
InternalTransfer == "AllocationFactory_TransferInternal"
SelfTransfer == Rule(InternalTransfer, {AllocationFactory})
TwoStepTransfer == "TransferRule_TwoStepTransfer"

TransferConsequences ==
    {Bare("Archive"), EventLogHoldingsChange, DirectTransfer}
      \cup {Bare(c) : c \in SendChoices}
SelfTransferConsequences == TransferConsequences \cup {SelfTransfer}

AcceptConsequences ==
    {Bare("Archive"), Bare("LockedAmulet_UnlockV2"), EventLogHoldingsChange}
RegistryAcceptConsequences ==
    AcceptConsequences \cup {Rule(TwoStepTransfer, {TransferRule})}

----------------------------------------------------------------------------
(* extractTransfer: the transfer record is at position 1 and its fields at *)
(* their positions; nothing else is searched.                              *)

TransferRecord(chosen) == At(chosen, 1, "transfer")

OptionalAt(t, position, label) ==
    Len(RecordEntries(t)) > position =>
        Agrees(RecordEntries(t), position, label)

TransferDecodes(chosen) ==
    LET t == TransferRecord(chosen)
        has(position) == Len(RecordEntries(t)) > position
    IN  /\ HasEntry(chosen, 1, "transfer")
        /\ RecordDecodes(t)
        /\ Has(At(t, 0, "sender"), "party")
        /\ Has(At(t, 1, "receiver"), "party")
        /\ Has(At(t, 2, "amount"), "numeric")
        /\ Undecodable \notin {Instrument(At(t, 3, "instrumentId")).admin,
                               Instrument(At(t, 3, "instrumentId")).id}
        /\ OptionalAt(t, 5, "executeBefore")
        /\ OptionalAt(t, 6, "inputHoldingCids")
        /\ OptionalAt(t, 7, "meta")
        /\ AssertSingleValueMember(At(t, 5, "executeBefore"))
        /\ has(6) => InputHoldingsDecode(At(t, 6, "inputHoldingCids"))
        /\ has(7) => MemoDecodes(At(t, 7, "meta"))

ExtractTransfer(chosen) ==
    LET t == TransferRecord(chosen)
        instrument == Instrument(At(t, 3, "instrumentId"))
    IN  [sender |-> LeafOf(At(t, 0, "sender"), "party"),
         receiver |-> LeafOf(At(t, 1, "receiver"), "party"),
         amount |-> Amount(At(t, 2, "amount")),
         instrumentAdmin |-> instrument.admin,
         instrumentId |-> instrument.id,
         executeBefore |-> TimeOf(At(t, 5, "executeBefore")),
         inputHoldingCids |-> InputHoldingCids(At(t, 6, "inputHoldingCids")),
         memo |-> IF Len(RecordEntries(t)) > 7 THEN Memo(At(t, 7, "meta"))
                  ELSE Undefined]

----------------------------------------------------------------------------
(* assertPreparedTransferMatches.                                          *)

\* what an internal transfer of the registry may create: the owners'
\* holdings, and one pending offer where the caller expects an offer
NamesOneOf(argument, parties) ==
    /\ argument # <<>>
    /\ Undecodable \notin Range(PartyLeaves(argument[1], 0))
    /\ parties \cap Range(PartyLeaves(argument[1], 0)) # {}

\* as RegistryCreates, whoever owns the holdings
RegistryTemplates(decoded, offerIntent, parties) ==
    \A n \in Range(Creates(decoded)) :
        n.template \in {RegistryHolding, TransferOffer}

RegistryCreates(decoded, offerIntent, parties) ==
    LET creates == Range(Creates(decoded))
        offers == SelectSeq(decoded.nodes,
                            LAMBDA n : n.kind = "create"
                                         /\ n.template = TransferOffer)
    IN  /\ \A n \in creates :
              \/ n.template = RegistryHolding
              \/ offerIntent /\ n.template = TransferOffer
        /\ offerIntent => Len(offers) = 1
        /\ \A n \in creates :
              n.template = RegistryHolding => NamesOneOf(n.argument, parties)

Exercised(decoded, choice) ==
    \E i \in DOMAIN Exercises(decoded) :
        Exercises(decoded)[i].choice = choice

FieldsMatch(t, expect) ==
    /\ t.sender = expect.sender
    /\ t.receiver = expect.receiver
    /\ t.amount = CanonicalAmount(expect.amount)
    /\ t.instrumentId = expect.instrumentId
    /\ expect.instrumentAdmin # Undefined =>
          t.instrumentAdmin = expect.instrumentAdmin

AssertPreparedTransferMatches(decoded, expect) ==
    LET selfIntent == expect.sender = expect.receiver
        offerIntent == expect.allowRegistryOffer /\ ~selfIntent
        parties == {expect.sender, expect.receiver}
        root == Root(decoded)
        t == ExtractTransfer(root.chosen[1])
    IN  /\ AssertSingleAllowedRootExercise(
              decoded, TransferChoice,
              IF selfIntent \/ offerIntent THEN SelfTransferConsequences
              ELSE TransferConsequences)
        /\ TransferDecodes(root.chosen[1])
        /\ Exercised(decoded, InternalTransfer) =>
              RegistryCreates(decoded, offerIntent, parties)
        /\ expect.requireInputHoldings => t.inputHoldingCids # <<>>
        /\ IsInjective(t.inputHoldingCids)
        /\ expect.memo # Undefined => t.memo = expect.memo
        /\ FieldsMatch(t, expect)
        /\ t.instrumentAdmin \notin parties
        /\ AssertTemplateMatches(root, expect.template)
        /\ AssertContractIdMatches(root, expect.cid)
        /\ AssertSynchronizerMatches(decoded, expect.synchronizer)
        /\ AssertTimingPlausible(decoded.timing)
        /\ AssertActAsIsSender(decoded, expect.sender)
        /\ PreapprovalDecodes(decoded)
        /\ PartiesAreKnown(
              decoded, root.id, decoded.inputs,
              Admits(parties, t.instrumentAdmin, 2,
                     expect.instrumentAdmin # Undefined,
                     MatchPreapprovalProvider(decoded, expect.receiver,
                                              t.instrumentAdmin),
                     expect.registry))

----------------------------------------------------------------------------
(* assertPreparedAcceptMatches.                                            *)

\* what a two-step accept may create: an execution record, and holdings that
\* name the agent and nobody outside the registry
AcceptCreates(decoded, expect) ==
    LET a == Admits({expect.party, expect.instrumentAdmin},
                    expect.instrumentAdmin, 0, TRUE, Undefined,
                    expect.registry)
    IN  \A n \in Range(Creates(decoded)) :
            \/ n.template = ExecutedTransfer
            \/ /\ n.template = RegistryHolding
               /\ NamesOneOf(n.argument, {expect.party})
               /\ \A p \in Range(PartyLeaves(n.argument[1], 0)) : Admitted(p, a)

AssertPreparedAcceptMatches(decoded, expect) ==
    /\ AssertSingleAllowedRootExercise(
          decoded, AcceptChoice,
          IF expect.instrumentAdmin # Undefined THEN RegistryAcceptConsequences
          ELSE AcceptConsequences)
    /\ Exercised(decoded, TwoStepTransfer) =>
          /\ Root(decoded).template = TransferOffer
          /\ AcceptCreates(decoded, expect)
    /\ AssertTimingPlausible(decoded.timing)
    /\ AssertActAsIsSender(decoded, expect.party)

----------------------------------------------------------------------------
(* assertPreparedRegistrySelfPreapproval: a plain create.                  *)

\* the receiver pin is best effort: an argument that does not decode passes
ReceiverIsSelf(argument, party) ==
    argument # <<>> /\ Has(At(argument[1], 1, "receiver"), "party") =>
        LeafOf(At(argument[1], 1, "receiver"), "party") = party

AssertPreparedRegistrySelfPreapproval(decoded, expect) ==
    /\ Exercises(decoded) = <<>>
    /\ \A n \in Nodes(decoded) : n.recognized /\ n.kind # Undefined
    /\ Len(decoded.roots) = 1
    /\ UniqueNodeIds(decoded)
    /\ decoded.roots[1] \in NodeIds(decoded)
    /\ Root(decoded).kind = "create"
    /\ Root(decoded).template = RegistryPreapproval
    /\ NodeIds(decoded) \subseteq Reachable(decoded, decoded.roots[1])
    /\ AssertActAsIsSender(decoded, expect.party)
    /\ ReceiverIsSelf(Root(decoded).argument, expect.party)
    /\ PartiesAreKnown(
          decoded, Root(decoded).id, decoded.inputs,
          Admits({expect.party}, expect.admin, 0, TRUE, Undefined,
                 expect.registry))

----------------------------------------------------------------------------
(* assertPreparedAmuletSelfPreapproval: a choice that spends the merchant's *)
(* own Amulet for the fee.                                                 *)

AmuletSelfPreapprovalChoice == "AmuletRules_CreateTransferPreapproval"
OpenMiningRound == "Splice.Round:OpenMiningRound"

AmuletSelfPreapprovalConsequences ==
    {Rule("Archive", {Amulet}),
     Rule("EventLog_HoldingsChange", {AmuletRules}),
     Rule("OpenMiningRound_Fetch", {OpenMiningRound})}

\* extractSelfPreapproval
ExtractSelfPreapproval(chosen) ==
    [receiver |-> LeafOf(At(chosen, 2, "receiver"), "party"),
     provider |-> LeafOf(At(chosen, 3, "provider"), "party"),
     expiresAt |-> TimeOf(At(chosen, 4, "expiresAt"))]

\* input contracts that only the DSO signs are network state
IsDsoState(c, dso) == c.signatories = {dso} /\ c.stakeholders \subseteq {dso}

AssertPreparedAmuletSelfPreapproval(decoded, expect) ==
    LET arg == ExtractSelfPreapproval(Root(decoded).chosen[1])
    IN  /\ AssertSingleAllowedRootExercise(
              decoded, AmuletSelfPreapprovalChoice,
              AmuletSelfPreapprovalConsequences)
        /\ AssertTemplateMatches(Root(decoded), AmuletRules)
        /\ AssertActAsIsSender(decoded, expect.party)
        /\ \A n \in Range(Creates(decoded)) :
              /\ n.template \in {Preapproval, Amulet, RewardCoupon}
              /\ n.template = Amulet => NamesOneOf(n.argument, {expect.party})
        /\ arg.receiver = expect.party
        /\ arg.provider = expect.party
        /\ arg.expiresAt # NoTime
        /\ expect.expiresAt # NoTime => arg.expiresAt = expect.expiresAt
        /\ PartiesAreKnown(
              decoded, Root(decoded).id,
              SelectSeq(decoded.inputs,
                        LAMBDA c : ~IsDsoState(c, expect.dso)),
              Admits({expect.party}, expect.dso, 1, TRUE, Undefined, {}))
=============================================================================
