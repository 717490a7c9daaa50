---------------------------- MODULE PreparedIntent ----------------------------
(* What a caller of verify-before-sign can ask for, and the transaction an  *)
(* honest participant prepares for it: one for each arm, in the shapes the  *)
(* repository's recorded transactions have.  Fields no arm reads are left   *)
(* out of the end of a record or hold a unit.                               *)
EXTENDS PreparedTradecraft

CONSTANT Intents        \* the intents in use, of those named below

Synchronizer == "global-domain"

Unit == Val("unit", 0)
InstrumentOf(admin, id) ==
    Record(<<Field("admin", Party(admin)), Field("id", Text(id))>>)
MetaOf(entries) == Record(<<Field("values", TextMap(entries))>>)

One == Decimal(1, <<>>)
Half == Decimal(0, <<5>>)
OneAndHalf == Decimal(1, <<5>>)

----------------------------------------------------------------------------
(* The message around a tree.                                              *)

HonestTiming ==
    [preparationTime |-> <<Now>>, minLedgerEffectiveTime |-> <<Now>>,
     maxLedgerEffectiveTime |-> <<Now + 1>>, maxRecordTime |-> <<Now + 1>>]

Message(actAs, inputs, roots, nodes) ==
    [metadata |-> <<[submitter |-> <<<<actAs>>>>,
                     synchronizer |-> <<[logical |-> Synchronizer,
                                         suffix |-> ""]>>,
                     timing |-> HonestTiming, inputs |-> inputs]>>,
     transaction |-> <<[roots |-> roots, nodes |-> nodes]>>]

Input(cid, template, argument, signatories) ==
    [v1 |-> <<CreateBody(cid, template, argument, signatories, signatories)>>]

Create(id, template, argument, signatories) ==
    Node(id, "create", CreateBody(id, template, argument, signatories,
                                  signatories))

Exercise(id, cid, template, choice, chosen, children, parties) ==
    Node(id, "exercise", ExerciseBody(cid, template, choice, chosen, children,
                                      parties, parties))

AmuletOf(owner) ==
    Record(<<Field("dso", Party("dso")), Field("owner", Party(owner))>>)
HoldingOf(owner) ==
    Record(<<Field("operator", Party("operator")), Field("provider", Unit),
             Field("registrar", Party("registrar")),
             Field("owner", Party(owner))>>)
PreapprovalOf(receiver, provider) ==
    Record(<<Field("dso", Party("dso")), Field("receiver", Party(receiver)),
             Field("provider", Party(provider))>>)

AmuletRulesInput == Input("rules", AmuletRules, AmuletOf("dso"), <<"dso">>)
ConfigurationInput ==
    Input("config", InstrumentConfiguration,
          Record(<<Field("beneficiary", Party("beneficiary"))>>),
          <<"registrar">>)

Archive(id, cid, template, owner) ==
    Exercise(id, cid, template, "Archive", Record(<<>>), <<>>, <<owner>>)

----------------------------------------------------------------------------
(* Transfers, accepts and self-preapprovals.                               *)

TransferArgument(sender, receiver, admin, id) ==
    Record(<<
        Field("expectedAdmin", Party(admin)),
        Field("transfer", Record(<<
            Field("sender", Party(sender)), Field("receiver", Party(receiver)),
            Field("amount", Numeric(One)),
            Field("instrumentId", InstrumentOf(admin, id)),
            Field("requestedAt", Time(Now)), Field("executeBefore", Time(Now + 1)),
            Field("inputHoldingCids", List(<<Cid("h1"), Cid("h2")>>)),
            Field("meta", MetaOf(<<Entry("x402.memo", Text("invoice"))>>))>>))>>)

TransferRoot(template, children, receiver, admin, id) ==
    Exercise("0", "factory", template, TransferChoice,
             TransferArgument("agent", receiver, admin, id), children,
             <<"agent", admin>>)

\* through the preapproval of a receiver, whose provider may be a third party
AmuletTransfer(provider) ==
    Message("agent",
        <<Input("h1", Amulet, AmuletOf("agent"), <<"dso", "agent">>),
          Input("pre", Preapproval, PreapprovalOf("merchant", provider),
                <<"dso", "merchant", provider>>)>>,
        <<"0">>,
        <<TransferRoot(ExternalPartyAmuletRules, <<"1">>, "merchant", "dso",
                       "Amulet"),
          Exercise("1", "pre", Preapproval, "TransferPreapproval_Send",
                   Record(<<Field("sender", Party("agent"))>>),
                   <<"2", "3", "4">>, <<"dso", "merchant", provider>>),
          Archive("2", "h1", Amulet, "agent"),
          Create("3", Amulet, AmuletOf("merchant"), <<"dso", "merchant">>),
          Create("4", Amulet, AmuletOf("agent"), <<"dso", "agent">>)>>)

RegistryTransfer(receiver, inner, template, created) ==
    Message("agent",
        <<Input("h1", RegistryHolding, HoldingOf("agent"),
                <<"registrar", "agent">>),
          ConfigurationInput>>,
        <<"0">>,
        <<TransferRoot(AllocationFactory, <<"1">>, receiver, "registrar",
                       "CBTC"),
          Exercise("1", "rule", template, inner, Record(<<>>), <<"2", "3">>,
                   <<"registrar", "operator">>),
          created,
          Create("3", RegistryHolding, HoldingOf("agent"),
                 <<"registrar", "agent">>)>>)

ReceiverHolding(receiver) ==
    Create("2", RegistryHolding, HoldingOf(receiver), <<"registrar">>)
Offer(receiver) ==
    Create("2", TransferOffer,
           Record(<<Field("receiver", Party(receiver))>>), <<"agent">>)

TransferIntent(receiver, admin, id, registry, offer) ==
    [sender |-> "agent", receiver |-> receiver, amount |-> One,
     instrumentId |-> id, instrumentAdmin |-> admin,
     requireInputHoldings |-> TRUE, memo |-> "invoice",
     synchronizer |-> Synchronizer, template |-> Undefined, cid |-> "factory",
     registry |-> registry, allowRegistryOffer |-> offer]

AmuletAccept ==
    Message("agent", <<AmuletRulesInput>>, <<"0">>,
        <<Exercise("0", "offer", "Splice.AmuletTransferInstruction",
                   AcceptChoice, Record(<<>>), <<"1", "2">>, <<"agent", "dso">>),
          Exercise("1", "locked", LockedAmulet, "LockedAmulet_UnlockV2",
                   Record(<<>>), <<>>, <<"dso">>),
          Create("2", Amulet, AmuletOf("agent"), <<"dso", "agent">>)>>)

RegistryAccept ==
    Message("agent", <<ConfigurationInput>>, <<"0">>,
        <<Exercise("0", "offer", TransferOffer, AcceptChoice, Record(<<>>),
                   <<"1">>, <<"agent", "operator">>),
          Exercise("1", "rule", TransferRule, TwoStepTransfer, Record(<<>>),
                   <<"2", "3">>, <<"registrar", "operator">>),
          Create("2", RegistryHolding, HoldingOf("agent"),
                 <<"registrar", "agent">>),
          Create("3", ExecutedTransfer, Record(<<>>), <<"registrar">>)>>)

RegistryPreapprovalCreate ==
    Message("agent", <<>>, <<"0">>,
        <<Create("0", RegistryPreapproval,
                 Record(<<Field("operator", Party("operator")),
                          Field("receiver", Party("agent")),
                          Field("admin", Party("registrar"))>>),
                 <<"agent">>)>>)

AmuletPreapprovalCreate ==
    Message("agent",
        <<AmuletRulesInput,
          Input("h1", Amulet, AmuletOf("agent"), <<"dso", "agent">>)>>,
        <<"0">>,
        <<Exercise("0", "rules", AmuletRules, AmuletSelfPreapprovalChoice,
                   Record(<<Field("context", Unit), Field("inputs", List(<<>>)),
                            Field("receiver", Party("agent")),
                            Field("provider", Party("agent")),
                            Field("expiresAt", Time(Now + 1)),
                            Field("expectedDso", Some(Party("dso")))>>),
                   <<"1", "2", "3", "4">>, <<"dso", "agent">>),
          Exercise("1", "round", OpenMiningRound, "OpenMiningRound_Fetch",
                   Record(<<>>), <<>>, <<"dso">>),
          Archive("2", "h1", Amulet, "agent"),
          Create("3", Preapproval, PreapprovalOf("agent", "agent"),
                 <<"dso", "agent">>),
          Create("4", Amulet, AmuletOf("agent"), <<"dso", "agent">>)>>)

----------------------------------------------------------------------------
(* Tradecraft.                                                             *)

PoolId == "pool-1"
TcRules == Input("amm-rules", AMMRules, Record(<<>>), <<"venue", "vault">>)
TcPool == Input("amm", AMM, Record(<<>>), <<"venue", "vault">>)

Actors ==
    <<Field("actor", Party("agent")), Field("venue", Party("venue")),
      Field("vault", Party("vault"))>>

CreateBatcher ==
    Message("agent", <<TcRules>>, <<"0">>,
        <<Exercise("0", "amm-rules", AMMRules,
                   "AMMRules_CreateSwapOrderBatcher",
                   Record(<<Field("actor", Party("agent"))>>), <<"1">>,
                   <<"venue", "vault", "agent">>),
          Create("1", SwapOrderBatcher, Record(Actors), <<"vault">>)>>)

Account ==
    Record(<<Field("owner", Some(Party("agent"))), Field("provider", None),
             Field("id", Text(""))>>)

FundingOf(id, funding) ==
    IF funding = <<>> THEN None ELSE Some(TextMap(<<Entry(id, Numeric(funding[1]))>>))

AllocationOf(admin, id, funding) ==
    LET settlement == Record(<<Field("executors", List(<<Party("venue")>>)),
                               Field("id", Text("s")), Field("cid", None)>>)
        spec == Record(<<
            Field("admin", Party(admin)), Field("authorizer", Account),
            Field("transferLegSides", List(<<>>)),
            Field("settlementDeadline", None),
            Field("nextIterationFunding", FundingOf(id, funding)),
            Field("committed", Val("bool", TRUE)),
            Field("meta", MetaOf(<<Entry("tradecraft.fi/amm-id", Text(PoolId)),
                                   Entry("tradecraft.fi/instrument-id",
                                         Text(id))>>))>>)
        pair == <<Field("settlement", settlement), Field("allocation", spec)>>
    IN  IF id = "Amulet" THEN Record(<<Field("holding", None)>> \o pair)
        ELSE Record(<<Field("operator", Party("operator")),
                      Field("provider", None),
                      Field("registrar", Party(admin))>> \o pair)

TcTemplate(id) == IF id = "Amulet" THEN AmuletAllocation ELSE RegistryAllocation
TcHolding(id) ==
    IF id = "Amulet"
    THEN Create("3", LockedAmulet, Record(<<Field("amulet", AmuletOf("agent"))>>),
                <<"dso", "agent">>)
    ELSE Create("3", RegistryHolding, HoldingOf("agent"), <<"agent">>)

\* the choice runs the standard allocation factory, which locks a holding
Allocating(choice, chosen, admin, id, inner, more, allocations, dso) ==
    LET n == Len(allocations)
        ids == SubSeq(<<"4", "5">>, 1, n)
    IN  Message("agent", <<TcRules, TcPool>> \o dso, <<"0">>,
            <<Exercise("0", "amm-rules", AMMRules, choice, chosen, <<"1">>,
                       <<"venue", "vault", "agent">>),
              Exercise("1", "factory",
                       IF id = "Amulet" THEN ExternalPartyAmuletRules
                       ELSE AllocationFactory, inner, Record(<<>>),
                       <<"2", "3">> \o ids, <<"agent", admin>>),
              Exercise("2", "alloc", IF more THEN TcTemplate(id) ELSE
                         IF id = "Amulet" THEN Amulet ELSE RegistryHolding,
                       "Archive", Record(<<>>), <<>>, <<"agent">>),
              TcHolding(id)>>
              \o [i \in 1 .. n |-> Create(ids[i], TcTemplate(id),
                                          AllocationOf(admin, id, allocations[i]),
                                          <<"agent", "venue">>)])

CreateAllocation(admin, id, funding, dso) ==
    Allocating("AMMRules_CreateSettlementAllocation",
        Record(<<Field("actor", Party("agent")), Field("ammCid", Cid("amm")),
                 Field("instrument", InstrumentOf(admin, id)),
                 Field("authorizerAccount", Account),
                 Field("initialFunding", IF funding = <<>> THEN None
                                         ELSE Some(Numeric(funding[1]))),
                 Field("inputHoldingCids",
                       List(IF funding = <<>> THEN <<>> ELSE <<Cid("h1")>>))>>),
        admin, id, "AllocationFactory_Allocate", FALSE, <<funding>>, dso)

FundAllocation ==
    Allocating("AMMRules_FundSettlementAllocation",
        Record(<<Field("actor", Party("agent")), Field("ammCid", Cid("amm")),
                 Field("authorizerAccount", Account),
                 Field("allocationCid", Cid("alloc")),
                 Field("instrument", InstrumentOf("dso", "Amulet")),
                 Field("additionalFunding", Numeric(Half))>>),
        "dso", "Amulet", "SettlementFactory_SettleBatch", TRUE,
        <<<<Half>>, <<OneAndHalf>>>>, <<AmuletRulesInput>>)

OrderOf(amount, minOut) ==
    Record(Actors \o <<
        Field("ammId", Text(PoolId)),
        Field("what", Variant("Short", Record(<<
            Field("instrument", InstrumentOf("registrar", "CBTC")),
            Field("amount", Numeric(amount))>>))),
        Field("minOut", minOut)>>)

OrderSpec(amount, minOut) ==
    Record(<<Field("amount", Numeric(amount)), Field("minOut", minOut)>>)

CreateOrders ==
    Message("agent", <<Input("batcher", SwapOrderBatcher, Record(Actors),
                             <<"vault">>)>>, <<"0">>,
        <<Exercise("0", "batcher", SwapOrderBatcher,
                   "SwapOrderBatcher_CreateOrdersV2",
                   Record(<<Field("ammId", Text(PoolId)),
                            Field("instrument", InstrumentOf("registrar", "CBTC")),
                            Field("orders",
                                  List(<<OrderSpec(One, Some(Numeric(Half))),
                                         OrderSpec(Half, None)>>))>>),
                   <<"1", "2">>, <<"vault", "agent">>),
          Create("1", SwapOrder, OrderOf(One, Some(Numeric(Half))),
                 <<"agent", "vault">>),
          Create("2", SwapOrder, OrderOf(Half, None), <<"agent", "vault">>)>>)

CancelOrder ==
    Message("agent", <<Input("order", SwapOrder, OrderOf(One, None),
                             <<"agent", "vault">>)>>, <<"0">>,
        <<Exercise("0", "order", SwapOrder, "SwapOrder_WithdrawV3",
                   Record(<<Field("tradingBalanceCids", List(<<>>)),
                            Field("settlementHelpers", None)>>), <<>>,
                   <<"agent", "vault">>)>>)

WithdrawalCreate ==
    Message("agent", <<>>, <<"0">>,
        <<Node("0", "create",
               CreateBody("0", WithdrawalRequest,
                          Record(<<Field("actor", Party("agent")),
                                   Field("venue", Party("venue")),
                                   Field("ammId", Text(PoolId)),
                                   Field("instrument",
                                         InstrumentOf("dso", "Amulet"))>>),
                          <<"agent">>, <<"agent", "venue">>))>>)

----------------------------------------------------------------------------
(* The intents: the arm that decides, the caller's expectation, the honest *)
(* transaction.                                                            *)

TcIntent ==
    [party |-> "agent", venue |-> "venue", vault |-> "vault",
     synchronizer |-> Synchronizer, ammId |-> PoolId, dso |-> "dso",
     registry |-> {"operator"}]
TcAmulet == [admin |-> "dso", id |-> "Amulet"]
TcRegistry == [admin |-> "registrar", id |-> "CBTC"]

AllocationIntent(instrument, funding) ==
    TcIntent @@ [instrument |-> instrument, funding |-> funding]

Expect(intent) ==
    CASE intent \in {"amulet-transfer", "amulet-transfer-provider"} ->
           TransferIntent("merchant", "dso", "Amulet", {}, FALSE)
      [] intent = "registry-transfer" ->
           TransferIntent("merchant", "registrar", "CBTC", {"operator"}, FALSE)
      [] intent = "registry-offer" ->
           TransferIntent("merchant", "registrar", "CBTC", {"operator"}, TRUE)
      [] intent = "registry-merge" ->
           TransferIntent("agent", "registrar", "CBTC", {"operator"}, FALSE)
      [] intent = "amulet-accept" ->
           [party |-> "agent", instrumentAdmin |-> Undefined, registry |-> {}]
      [] intent = "registry-accept" ->
           [party |-> "agent", instrumentAdmin |-> "registrar",
            registry |-> {"operator"}]
      [] intent = "registry-preapproval" ->
           [party |-> "agent", admin |-> "registrar", registry |-> {"operator"}]
      [] intent = "amulet-preapproval" ->
           [party |-> "agent", dso |-> "dso", expiresAt |-> Now + 1]
      [] intent = "batcher" -> TcIntent
      [] intent = "allocation" -> AllocationIntent(TcAmulet, {One})
      [] intent = "allocation-empty" -> AllocationIntent(TcRegistry, {})
      [] intent = "fund" ->
           TcIntent @@ [instrument |-> TcAmulet, allocationCid |-> "alloc",
                        currentFunding |-> One, additionalFunding |-> Half]
      [] intent = "orders" ->
           TcIntent @@ [sellInstrument |-> TcRegistry,
                        batcherCid |-> "batcher",
                        orders |-> <<[amount |-> One, minOut |-> {Half}],
                                     [amount |-> Half, minOut |-> {}]>>]
      [] intent = "cancel" ->
           TcIntent @@ [orderCid |-> "order", instrumentAdmins |-> {"registrar"}]
      [] intent = "withdrawal" ->
           TcIntent @@ [instrument |-> TcAmulet, trustedPackageIds |-> {"pkg"}]

HonestTx(intent) ==
    CASE intent = "amulet-transfer" -> AmuletTransfer("merchant")
      [] intent = "amulet-transfer-provider" -> AmuletTransfer("provider")
      [] intent = "registry-transfer" ->
           RegistryTransfer("merchant", "TransferRule_DirectTransfer",
                            TransferRule, ReceiverHolding("merchant"))
      [] intent = "registry-offer" ->
           RegistryTransfer("merchant", InternalTransfer, AllocationFactory,
                            Offer("merchant"))
      [] intent = "registry-merge" ->
           RegistryTransfer("agent", InternalTransfer, AllocationFactory,
                            ReceiverHolding("agent"))
      [] intent = "amulet-accept" -> AmuletAccept
      [] intent = "registry-accept" -> RegistryAccept
      [] intent = "registry-preapproval" -> RegistryPreapprovalCreate
      [] intent = "amulet-preapproval" -> AmuletPreapprovalCreate
      [] intent = "batcher" -> CreateBatcher
      [] intent = "allocation" ->
           CreateAllocation("dso", "Amulet", <<One>>, <<AmuletRulesInput>>)
      [] intent = "allocation-empty" ->
           CreateAllocation("registrar", "CBTC", <<>>, <<ConfigurationInput>>)
      [] intent = "fund" -> FundAllocation
      [] intent = "orders" -> CreateOrders
      [] intent = "cancel" -> CancelOrder
      [] intent = "withdrawal" -> WithdrawalCreate

Transfers ==
    {"amulet-transfer", "amulet-transfer-provider", "registry-transfer",
     "registry-offer", "registry-merge"}

\* the wallet signs what the arm of its intent does not refuse
Matches(intent, decoded) ==
    LET expect == Expect(intent)
    IN  CASE intent \in Transfers ->
               AssertPreparedTransferMatches(decoded, expect)
          [] intent \in {"amulet-accept", "registry-accept"} ->
               AssertPreparedAcceptMatches(decoded, expect)
          [] intent = "registry-preapproval" ->
               AssertPreparedRegistrySelfPreapproval(decoded, expect)
          [] intent = "amulet-preapproval" ->
               AssertPreparedAmuletSelfPreapproval(decoded, expect)
          [] intent = "batcher" ->
               AssertPreparedTcCreateBatcher(decoded, expect)
          [] intent \in {"allocation", "allocation-empty"} ->
               AssertPreparedTcCreateAllocation(decoded, expect)
          [] intent = "fund" -> AssertPreparedTcFundAllocation(decoded, expect)
          [] intent = "orders" -> AssertPreparedTcCreateOrders(decoded, expect)
          [] intent = "cancel" -> AssertPreparedTcCancelOrder(decoded, expect)
          [] intent = "withdrawal" ->
               AssertPreparedTcWithdrawalRequest(decoded, expect)

Signs(intent, tx) ==
    PreparedDecodes(tx) /\ Matches(intent, DecodePrepared(tx))
=============================================================================
