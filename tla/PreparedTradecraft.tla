-------------------------- MODULE PreparedTradecraft --------------------------
(* The Tradecraft arms of verify-before-sign (core/src/prepared-transfer.ts, *)
(* the queued orders): the six transactions an agent signs to trade through *)
(* committed allocations, each read from the signed bytes and compared with *)
(* the caller's intent.                                                     *)
EXTENDS PreparedTransfer

CONSTANT LetGrace       \* TC_LET_GRACE_MS

AMMRules == "Obsidian.CantonSwap.V3:AMMRules"
AMM == "TC.V4:AMM"
SwapOrderBatcher == "TC.V4.OrderBatch:SwapOrderBatcher"
SwapOrder == "TC.V4.SwapOrderV2:SwapOrder"
WithdrawalRequest ==
    "TC.V4.Settle.WithdrawalRequest:SettlementWithdrawalRequest"
AmuletAllocation == "Splice.AmuletAllocationV2:AmuletAllocationV2"
RegistryAllocation ==
    "Utility.Registry.V0.Holding.AllocationV2:AllocationV2"
LockedAmulet == "Splice.Amulet:LockedAmulet"
ExternalPartyAmuletRules ==
    "Splice.ExternalPartyAmuletRules:ExternalPartyAmuletRules"

----------------------------------------------------------------------------
(* Readers and checks the arms share.                                      *)

TcParty(value, position, label) ==
    LeafOf(At(value, position, label), "party")
TcText(value, position, label) ==
    LeafOf(At(value, position, label), "text")

\* tcOptional: exactly one optional member, and at most one inner value
IsOptional(value) ==
    Has(value, "optional") /\ Unique(Payload(value, "optional"))
IsNone(value) == IsOptional(value) /\ Payload(value, "optional") = <<>>
IsSome(value) == IsOptional(value) /\ Payload(value, "optional") # <<>>
Inner(value) == IF IsSome(value) THEN Payload(value, "optional")[1] ELSE Empty

\* tcList and tcTextMap
IsEmptyList(value) == Has(value, "list") /\ Payload(value, "list") = <<>>

TextMapDecodes(value) ==
    LET entries == Payload(value, "text_map")
    IN  /\ Has(value, "text_map")
        /\ \A i \in DOMAIN entries :
              Unique(entries[i].key) /\ Len(entries[i].value) = 1
        /\ IsInjective([i \in DOMAIN entries |-> entries[i].key])

\* the value under key k, Empty where there is none
Lookup(value, k) ==
    LET found == SelectSeq(Payload(value, "text_map"),
                           LAMBDA e : e.key = <<k>>)
    IN  IF TextMapDecodes(value) /\ found # <<>> THEN found[1].value[1]
        ELSE Empty

\* tcBool: the value sets one bool and nothing else
IsTrue(value) ==
    Len(value) = 1 /\ value[1].m = "bool" /\ ~value[1].wide /\ value[1].v

AssertInstrument(value, want) ==
    /\ Instrument(value).admin = want.admin
    /\ Instrument(value).id = want.id

AssertAmount(value, want) ==
    Has(value, "numeric") /\ Amount(value) = CanonicalAmount(want)

\* tcAssertOwnAccount: owned by the agent, no provider, no id
OwnAccount(value, party) ==
    /\ LeafOf(Inner(At(value, 0, "owner")), "party") = party
    /\ IsNone(At(value, 1, "provider"))
    /\ TcText(value, 2, "id") = ""

\* tcAssertRootContract: one disclosed contract of the template with exactly
\* these signatories
DisclosedAs(decoded, cid, template, signatories) ==
    LET ic == SelectSeq(decoded.inputs,
                        LAMBDA c : c.cid # Undefined /\ c.cid = cid)
    IN  /\ Len(ic) = 1
        /\ ic[1].template = template
        /\ ic[1].signatories = signatories

RootContract(decoded) ==
    SelectSeq(decoded.inputs, LAMBDA c : c.cid = Root(decoded).cid)[1]

AssertRootContract(decoded, template, signatories) ==
    /\ AssertTemplateMatches(Root(decoded), template)
    /\ DisclosedAs(decoded, Root(decoded).cid, template, signatories)

\* isStateOf
IsStateOf(c, signers) ==
    /\ c.signatories = signers
    /\ c.stakeholders \subseteq signers

InputsBeside(decoded, states) ==
    SelectSeq(decoded.inputs,
              LAMBDA c : ~\E signers \in states : IsStateOf(c, signers))

Operators(expect) == {expect.venue, expect.vault}

\* tcAssertEnvelope: a Tradecraft choice reads the ledger time, so its bound
\* has a grace
AssertEnvelope(decoded, expect) ==
    /\ AssertActAsIsSender(decoded, expect.party)
    /\ AssertSynchronizerMatches(decoded, expect.synchronizer)
    /\ ~InThePast(decoded.timing["maxLedgerEffectiveTime"], Now - LetGrace)
    /\ AssertTimingPlausible(
          [decoded.timing EXCEPT !["maxLedgerEffectiveTime"] = <<>>])

\* {actor, venue, vault} at positions 0 to 2
IsOf(value, expect) ==
    /\ TcParty(value, 0, "actor") = expect.party
    /\ TcParty(value, 1, "venue") = expect.venue
    /\ TcParty(value, 2, "vault") = expect.vault

CreatesHaveArguments(decoded) ==
    \A n \in Range(Creates(decoded)) : n.argument # <<>>

----------------------------------------------------------------------------
(* 1. A SwapOrderBatcher.                                                  *)

AssertPreparedTcCreateBatcher(decoded, expect) ==
    /\ AssertSingleAllowedRootExercise(
          decoded, "AMMRules_CreateSwapOrderBatcher", {})
    /\ AssertRootContract(decoded, AMMRules, Operators(expect))
    /\ TcParty(Root(decoded).chosen[1], 0, "actor") = expect.party
    /\ Len(Creates(decoded)) = 1
    /\ Creates(decoded)[1].template = SwapOrderBatcher
    /\ CreatesHaveArguments(decoded)
    /\ IsOf(Creates(decoded)[1].argument[1], expect)
    /\ AssertEnvelope(decoded, expect)
    /\ PartiesAreKnown(
          decoded, Root(decoded).id,
          InputsBeside(decoded, {Operators(expect)}),
          Admits({expect.party} \cup Operators(expect), Undefined, 0, FALSE,
                 Undefined, {}))

----------------------------------------------------------------------------
(* 2. A committed settlement allocation, and 2b. its top-up.               *)

Factories == {ExternalPartyAmuletRules, AllocationFactory}
Allocations == {AmuletAllocation, RegistryAllocation}

AllocationConsequences ==
    {Rule("AllocationFactory_PublicFetch", Factories),
     Rule("AllocationFactory_Allocate", Factories),
     Rule("Archive", {Amulet, RegistryHolding}),
     EventLogHoldingsChange}

FundConsequences ==
    AllocationConsequences \cup
        {Rule("SettlementFactory_SettleBatch", Factories),
         Rule("Allocation_Settle", Allocations),
         Rule("Archive", Allocations \cup {LockedAmulet}),
         Rule("TransferRule_SettleAllocationV2", {TransferRule}),
         Rule("EventLog_HoldingsChange", {TransferRule})}

IsAmulet(expect) ==
    expect.instrument.admin = expect.dso /\ expect.instrument.id = "Amulet"

AllocationTemplate(expect) ==
    IF IsAmulet(expect) THEN AmuletAllocation ELSE RegistryAllocation
HoldingTemplates(expect) ==
    IF IsAmulet(expect) THEN {Amulet, LockedAmulet} ELSE {RegistryHolding}

Specification(argument, expect) ==
    At(argument, IF IsAmulet(expect) THEN 2 ELSE 4, "allocation")

FundingMap(argument, expect) ==
    At(Specification(argument, expect), 4, "nextIterationFunding")

\* tcAllocationFunding
Funding(argument, expect) ==
    Lookup(Inner(FundingMap(argument, expect)), expect.instrument.id)

\* the funding an allocation may carry: exactly {instrument: one of these}
FundedWith(argument, expect, allowed) ==
    LET funding == FundingMap(argument, expect)
    IN  IF allowed = {}
        THEN \/ IsNone(funding)
             \/ /\ TextMapDecodes(Inner(funding))
                /\ Payload(Inner(funding), "text_map") = <<>>
        ELSE /\ TextMapDecodes(Inner(funding))
             /\ Len(Payload(Inner(funding), "text_map")) = 1
             /\ \E d \in allowed : AssertAmount(Funding(argument, expect), d)

\* tcAssertAllocationArgs
AllocationArgs(argument, expect, allowed) ==
    LET settlement ==
            At(argument, IF IsAmulet(expect) THEN 1 ELSE 3, "settlement")
        spec == Specification(argument, expect)
        executors == At(settlement, 0, "executors")
        meta == At(At(spec, 6, "meta"), 0, "values")
    IN  /\ Has(executors, "list")
        /\ Len(ListOf(executors)) = 1
        /\ LeafOf(ListOf(executors)[1], "party") = expect.venue
        /\ IsNone(At(settlement, 2, "cid"))
        /\ TcParty(spec, 0, "admin") = expect.instrument.admin
        /\ OwnAccount(At(spec, 1, "authorizer"), expect.party)
        /\ IsEmptyList(At(spec, 2, "transferLegSides"))
        /\ IsNone(At(spec, 3, "settlementDeadline"))
        /\ FundedWith(argument, expect, allowed)
        /\ IsTrue(At(spec, 5, "committed"))
        /\ TextMapDecodes(meta)
        /\ LeafOf(Lookup(meta, "tradecraft.fi/amm-id"), "text")
              = expect.ammId
        /\ LeafOf(Lookup(meta, "tradecraft.fi/instrument-id"), "text")
              = expect.instrument.id

\* tcAssertHoldingOwner
HoldingOwner(template, argument) ==
    CASE template = Amulet -> TcParty(argument, 1, "owner")
      [] template = LockedAmulet -> TcParty(At(argument, 0, "amulet"), 1, "owner")
      [] OTHER -> TcParty(argument, 3, "owner")

AllocationCreates(decoded, expect, allowed) ==
    /\ CreatesHaveArguments(decoded)
    /\ \A n \in Range(Creates(decoded)) :
        \/ /\ n.template = AllocationTemplate(expect)
           /\ AllocationArgs(n.argument[1], expect, allowed)
        \/ /\ n.template \in HoldingTemplates(expect)
           /\ HoldingOwner(n.template, n.argument[1]) = expect.party

CreatedAllocations(decoded, expect) ==
    SelectSeq(Creates(decoded),
              LAMBDA n : n.template = AllocationTemplate(expect))

PoolIsDisclosed(decoded, ammCid, expect) ==
    ammCid # Undecodable
      /\ LET amm == SelectSeq(decoded.inputs, LAMBDA c : c.cid = ammCid)
         IN  /\ Len(amm) = 1
             /\ amm[1].template = AMM
             /\ amm[1].signatories = Operators(expect)

AllocationParties(decoded, expect) ==
    PartiesAreKnown(
        decoded, Root(decoded).id,
        InputsBeside(decoded, {Operators(expect), {expect.dso}}),
        Admits({expect.party} \cup Operators(expect), expect.instrument.admin,
               1, TRUE, Undefined, expect.registry))

\* expect.funding is the set of the amount to lock, empty for none
AssertPreparedTcCreateAllocation(decoded, expect) ==
    LET a == Root(decoded).chosen[1]
        initialFunding == At(a, 4, "initialFunding")
    IN  /\ AssertSingleAllowedRootExercise(
              decoded, "AMMRules_CreateSettlementAllocation",
              AllocationConsequences)
        /\ AssertRootContract(decoded, AMMRules, Operators(expect))
        /\ TcParty(a, 0, "actor") = expect.party
        /\ PoolIsDisclosed(decoded, ContractId(At(a, 1, "ammCid")), expect)
        /\ AssertInstrument(At(a, 2, "instrument"), expect.instrument)
        /\ OwnAccount(At(a, 3, "authorizerAccount"), expect.party)
        /\ IF expect.funding = {}
           THEN /\ IsNone(initialFunding)
                /\ IsEmptyList(At(a, 5, "inputHoldingCids"))
           ELSE \E d \in expect.funding :
                   AssertAmount(Inner(initialFunding), d)
        /\ AllocationCreates(decoded, expect, expect.funding)
        /\ Len(CreatedAllocations(decoded, expect)) = 1
        /\ AssertEnvelope(decoded, expect)
        /\ AllocationParties(decoded, expect)

\* addDecimals, on amounts whose fractions fit
AddDecimals(x, y) ==
    LET cx == CanonicalAmount(x)
        cy == CanonicalAmount(y)
        atoms(d) == FoldLeft(LAMBDA n, digit : 10 * n + digit,
                             d.whole, d.fraction)
        sum == atoms(cx) + atoms(cy)
        digit(i) == (sum \div 10 ^ (Precision - i)) % 10
    IN  Decimal(sum \div 10 ^ Precision, [i \in 1 .. Precision |-> digit(i)])

AssertPreparedTcFundAllocation(decoded, expect) ==
    LET a == Root(decoded).chosen[1]
        after == AddDecimals(expect.currentFunding, expect.additionalFunding)
        created == CreatedAllocations(decoded, expect)
    IN  /\ AssertSingleAllowedRootExercise(
              decoded, "AMMRules_FundSettlementAllocation", FundConsequences)
        /\ AssertRootContract(decoded, AMMRules, Operators(expect))
        /\ TcParty(a, 0, "actor") = expect.party
        /\ PoolIsDisclosed(decoded, ContractId(At(a, 1, "ammCid")), expect)
        /\ OwnAccount(At(a, 2, "authorizerAccount"), expect.party)
        /\ ContractId(At(a, 3, "allocationCid")) = expect.allocationCid
        /\ AssertInstrument(At(a, 4, "instrument"), expect.instrument)
        /\ AssertAmount(At(a, 5, "additionalFunding"),
                        expect.additionalFunding)
        /\ AllocationCreates(decoded, expect,
                             {expect.additionalFunding, after})
        /\ Len(created) \in 1 .. 2
        /\ \E i \in DOMAIN created :
              AssertAmount(Funding(created[i].argument[1], expect), after)
        /\ AssertEnvelope(decoded, expect)
        /\ AllocationParties(decoded, expect)

----------------------------------------------------------------------------
(* 3. Queued swap orders, and 3b. the cancel of one.                       *)

\* want.minOut is a set: empty for no minimum
OrderTerms(amount, minOut, want) ==
    /\ AssertAmount(amount, want.amount)
    /\ IF want.minOut = {} THEN IsNone(minOut)
       ELSE \E d \in want.minOut : AssertAmount(Inner(minOut), d)

\* tcVariant
VariantOf(value, con) ==
    IF /\ Has(value, "variant")
       /\ Payload(value, "variant").constructor = <<con>>
       /\ Len(Payload(value, "variant").value) = 1
    THEN Payload(value, "variant").value[1] ELSE Empty

SwapOrderArgs(argument, expect, want) ==
    LET short == VariantOf(At(argument, 4, "what"), "Short")
    IN  /\ IsOf(argument, expect)
        /\ TcText(argument, 3, "ammId") = expect.ammId
        /\ AssertInstrument(At(short, 0, "instrument"), expect.sellInstrument)
        /\ OrderTerms(At(short, 1, "amount"), At(argument, 5, "minOut"), want)

AssertPreparedTcCreateOrders(decoded, expect) ==
    LET a == Root(decoded).chosen[1]
        specs == At(a, 2, "orders")
        children == Root(decoded).children
        child(i) == NodeOf(decoded, children[i])
    IN  /\ expect.orders # <<>>
        /\ AssertSingleAllowedRootExercise(
              decoded, "SwapOrderBatcher_CreateOrdersV2", {})
        /\ AssertRootContract(decoded, SwapOrderBatcher, {expect.vault})
        /\ AssertContractIdMatches(Root(decoded), expect.batcherCid)
        /\ RootContract(decoded).argument # <<>>
        /\ IsOf(RootContract(decoded).argument[1], expect)
        /\ TcText(a, 0, "ammId") = expect.ammId
        /\ AssertInstrument(At(a, 1, "instrument"), expect.sellInstrument)
        /\ Len(ListOf(specs)) = Len(expect.orders)
        /\ \A i \in DOMAIN ListOf(specs) :
              OrderTerms(At(ListOf(specs)[i], 0, "amount"),
                         At(ListOf(specs)[i], 1, "minOut"), expect.orders[i])
        /\ Len(Creates(decoded)) = Len(expect.orders)
        /\ Len(children) = Len(expect.orders)
        /\ \A i \in DOMAIN children :
              /\ child(i).kind = "create"
              /\ child(i).template = SwapOrder
              /\ child(i).argument # <<>>
              /\ SwapOrderArgs(child(i).argument[1], expect, expect.orders[i])
        /\ AssertEnvelope(decoded, expect)
        /\ PartiesAreKnown(
              decoded, Root(decoded).id, decoded.inputs,
              Admits({expect.party} \cup Operators(expect),
                     expect.sellInstrument.admin, 1, TRUE, Undefined, {}))

\* settlementHelpers is a trailing Optional, which the participant drops when
\* it is None
AssertPreparedTcCancelOrder(decoded, expect) ==
    LET a == Root(decoded).chosen[1]
    IN  /\ AssertSingleAllowedRootExercise(
              decoded, "SwapOrder_WithdrawV3", {})
        /\ AssertRootContract(decoded, SwapOrder, {expect.party, expect.vault})
        /\ AssertContractIdMatches(Root(decoded), expect.orderCid)
        /\ RootContract(decoded).argument # <<>>
        /\ IsOf(RootContract(decoded).argument[1], expect)
        /\ IsEmptyList(At(a, 0, "tradingBalanceCids"))
        /\ Len(RecordEntries(a)) <= 2
        /\ Len(RecordEntries(a)) = 2 => IsNone(At(a, 1, "settlementHelpers"))
        /\ Creates(decoded) = <<>>
        /\ AssertEnvelope(decoded, expect)
        /\ PartiesAreKnown(
              decoded, Root(decoded).id, decoded.inputs,
              Admits({expect.party} \cup Operators(expect)
                        \cup expect.instrumentAdmins,
                     Undefined, 0, FALSE, Undefined, {}))

----------------------------------------------------------------------------
(* 4. A withdrawal request: a create the agent authorises alone, so the    *)
(* package that runs is pinned too.                                        *)

AssertPreparedTcWithdrawalRequest(decoded, expect) ==
    LET n == decoded.nodes[1]
        argument == n.argument[1]
    IN  /\ Exercises(decoded) = <<>>
        /\ Len(decoded.nodes) = 1 /\ Len(decoded.roots) = 1
        /\ n.recognized
        /\ n.kind = "create"
        /\ n.id = decoded.roots[1]
        /\ n.template = WithdrawalRequest
        /\ n.argument # <<>>
        /\ n.package \in expect.trustedPackageIds
        /\ n.signatories = {expect.party}
        /\ n.stakeholders = {expect.party, expect.venue}
        /\ TcParty(argument, 0, "actor") = expect.party
        /\ TcParty(argument, 1, "venue") = expect.venue
        /\ TcText(argument, 2, "ammId") = expect.ammId
        /\ AssertInstrument(At(argument, 3, "instrument"), expect.instrument)
        /\ AssertEnvelope(decoded, expect)
        /\ PartiesAreKnown(
              decoded, n.id, decoded.inputs,
              Admits({expect.party, expect.venue}, expect.instrument.admin, 0,
                     TRUE, Undefined, {}))
=============================================================================
