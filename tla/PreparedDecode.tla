---------------------------- MODULE PreparedDecode ----------------------------
(* decodePrepared of core/src/prepared-transfer.ts: the nodes, the metadata *)
(* and the input contracts of a PreparedTransaction, as the validator       *)
(* accounts for them.                                                       *)
(*                                                                          *)
(* tx.metadata and tx.transaction are occurrences; so are a node's id, its  *)
(* v1 body and the members of that body.  A node carried under another      *)
(* version, or beside another member, has `extra` set.                      *)
(*                                                                          *)
(* An Identifier is the occurrences of its package and of its name, module  *)
(* and entity as one, and what the same bytes are as text: some encodings   *)
(* carry "package:module:entity" in place of the message.                   *)
EXTENDS PreparedValue

CONSTANTS
    MaxNodes,       \* MAX_NODES
    MaxRoots        \* MAX_ROOTS

ASSUME CapsAssumption == MaxNodes \in Nat /\ MaxRoots \in Nat

----------------------------------------------------------------------------
(* Building nodes.                                                         *)

NoText == [package |-> Undefined, name |-> Undefined]
Identifier(name) ==
    [package |-> <<"pkg">>, name |-> <<name>>, text |-> NoText]
TextIdentifier(name) ==
    [package |-> <<>>, name |-> <<>>,
     text |-> [package |-> "pkg", name |-> name]]

\* a transaction node of kind m, or an input contract's Create
Meta(signatories, stakeholders) ==
    [signatories |-> signatories, stakeholders |-> stakeholders,
     acting |-> <<>>, observers |-> <<>>, key |-> <<>>]

CreateBody(cid, template, argument, signatories, stakeholders) ==
    [cid |-> <<cid>>, template |-> <<Identifier(template)>>,
     argument |-> <<argument>>, meta |-> Meta(signatories, stakeholders)]

ExerciseBody(cid, template, choice, chosen, children, signers, holders) ==
    [cid |-> <<cid>>, template |-> <<Identifier(template)>>,
     choice |-> <<choice>>, chosen |-> <<chosen>>, result |-> <<>>,
     children |-> children, meta |-> Meta(signers, holders)]

Node(id, kind, body) ==
    [id |-> <<id>>, v1 |-> <<<<[kind |-> kind, body |-> body]>>>>,
     extra |-> FALSE]

----------------------------------------------------------------------------
(* identifierQualifiedName and identifierPackageId: where a field repeats,  *)
(* the accessor throws and its caller catches, so the bytes are read as     *)
(* text, as those of an Identifier without the field may be.                *)

QualifiedName(template) ==
    IF template = <<>> THEN Undefined
    ELSE LET id == template[1]
         IN  IF Len(id.name) = 1 THEN id.name[1]
             ELSE IF id.name = <<>> /\ id.package # <<>> THEN Undefined
             ELSE id.text.name

PackageId(template) ==
    IF template = <<>> THEN Undefined
    ELSE LET id == template[1]
         IN  IF Len(id.package) = 1 THEN id.package[1]
             ELSE IF id.package = <<>> /\ id.name # <<>> THEN Undefined
             ELSE id.text.package

PartyMeta(meta) ==
    meta.signatories \o meta.stakeholders \o meta.acting \o meta.observers
      \o KeyParties(meta.key)

\* a node that the invariant refuses, whatever it holds
OpaqueNode(id, recognized) ==
    [id |-> id, recognized |-> recognized, kind |-> Undefined,
     choice |-> Undefined, chosen |-> <<>>, template |-> Undefined,
     package |-> Undefined, cid |-> Undefined, argument |-> <<>>,
     children |-> <<>>, values |-> <<>>, partyMeta |-> <<>>,
     signatories |-> {}, stakeholders |-> {}]

NodeKinds == {"create", "fetch", "exercise", "rollback", "query_by_key"}

\* the members of node_type that this version knows
KnownBodies(v1) == SelectSeq(v1, LAMBDA b : b.kind \in NodeKinds)

\* decodeV1Node: one member of node_type, or a kind that is undefined
DecodeV1Node(id, v1) ==
    LET kind == v1[1].kind
        body == v1[1].body
        opaque == OpaqueNode(id, TRUE)
    IN  IF Len(v1) # 1 THEN opaque
        ELSE CASE kind = "exercise" ->
                    [opaque EXCEPT !.kind = "exercise",
                        !.choice = IF body.chosen = <<>> \/ body.choice = <<>>
                                   THEN Undefined ELSE body.choice[1],
                        !.chosen = body.chosen,
                        !.template = QualifiedName(body.template),
                        !.cid = IF body.cid = <<>> THEN Undefined
                                ELSE body.cid[1],
                        !.children = body.children,
                        !.values = body.chosen \o body.result,
                        !.partyMeta = PartyMeta(body.meta)]
               [] kind = "create" ->
                    [opaque EXCEPT !.kind = "create",
                        !.template = QualifiedName(body.template),
                        !.package = PackageId(body.template),
                        !.argument = body.argument,
                        !.values = body.argument,
                        !.partyMeta = PartyMeta(body.meta),
                        !.signatories = Range(body.meta.signatories),
                        !.stakeholders = Range(body.meta.stakeholders)]
               [] kind = "rollback" ->
                    [opaque EXCEPT !.kind = "rollback",
                        !.children = body.children]
               [] kind \in {"fetch", "query_by_key"} ->
                    [opaque EXCEPT !.kind = kind,
                        !.partyMeta = PartyMeta(body.meta)]

\* the accessors of decodeV1Node throw where a field or a member repeats
V1NodeDecodes(v1) ==
    /\ IsInjective([i \in DOMAIN v1 |-> v1[i].kind])
    /\ Len(v1) = 1 =>
         LET body == v1[1].body IN
         CASE v1[1].kind = "exercise" ->
                /\ Unique(body.choice) /\ Unique(body.chosen)
                /\ Unique(body.result) /\ Unique(body.template)
                /\ Unique(body.cid)
                /\ Undecodable \notin Range(PartyMeta(body.meta))
           [] v1[1].kind = "create" ->
                /\ Unique(body.argument) /\ Unique(body.template)
                /\ Undecodable \notin Range(PartyMeta(body.meta))
           [] v1[1].kind \in {"fetch", "query_by_key"} ->
                Undecodable \notin Range(PartyMeta(body.meta))
           [] OTHER -> TRUE

DecodeNode(node) ==
    LET id == IF node.id = <<>> THEN "" ELSE node.id[1]
    IN  IF node.v1 = <<>> \/ node.extra THEN OpaqueNode(id, FALSE)
        ELSE DecodeV1Node(id, KnownBodies(node.v1[1]))

NodeDecodes(node) ==
    /\ Unique(node.id)
    /\ Unique(node.v1)
    /\ node.v1 # <<>> /\ ~node.extra =>
          V1NodeDecodes(KnownBodies(node.v1[1]))

\* an input contract is inspectable only as a v1 Create
InputContractDecodes(ic) ==
    /\ Len(ic.v1) = 1
    /\ Unique(ic.v1[1].argument) /\ Unique(ic.v1[1].template)
    /\ Unique(ic.v1[1].cid)
    /\ Undecodable \notin Range(PartyMeta(ic.v1[1].meta))

InputContract(ic) ==
    [cid |-> IF ic.v1[1].cid = <<>> THEN Undefined ELSE ic.v1[1].cid[1],
     template |-> QualifiedName(ic.v1[1].template),
     argument |-> ic.v1[1].argument,
     partyMeta |-> PartyMeta(ic.v1[1].meta),
     signatories |-> Range(ic.v1[1].meta.signatories),
     stakeholders |-> Range(ic.v1[1].meta.stakeholders)]

TimingFields ==
    {"preparationTime", "minLedgerEffectiveTime", "maxLedgerEffectiveTime",
     "maxRecordTime"}

MetadataDecodes(md) ==
    /\ Unique(md.submitter) /\ Unique(md.synchronizer)
    /\ \A f \in TimingFields : Unique(md.timing[f])
    /\ \A i \in DOMAIN md.inputs : InputContractDecodes(md.inputs[i])

\* decodePrepared: where it throws ...
PreparedDecodes(tx) ==
    /\ Unique(tx.metadata)
    /\ tx.metadata # <<>> => MetadataDecodes(tx.metadata[1])
    /\ Len(tx.transaction) = 1
    /\ LET dt == tx.transaction[1]
       IN  /\ Len(dt.roots) <= MaxRoots
           /\ Len(dt.nodes) <= MaxNodes
           /\ \A i \in DOMAIN dt.nodes : NodeDecodes(dt.nodes[i])

NoMetadata ==
    [submitter |-> <<>>, synchronizer |-> <<>>,
     timing |-> [f \in TimingFields |-> <<>>], inputs |-> <<>>]

\* ... and what it returns
DecodePrepared(tx) ==
    LET md == IF tx.metadata = <<>> THEN NoMetadata ELSE tx.metadata[1]
        dt == tx.transaction[1]
    IN  [actAs |-> IF md.submitter = <<>> THEN <<>> ELSE md.submitter[1],
         synchronizer |-> md.synchronizer,
         timing |-> md.timing,
         inputs |-> [i \in DOMAIN md.inputs |-> InputContract(md.inputs[i])],
         roots |-> dt.roots,
         nodes |-> [i \in DOMAIN dt.nodes |-> DecodeNode(dt.nodes[i])]]

Nodes(decoded) == Range(decoded.nodes)

\* decoded.exercises: the exercises whose choice and argument were read
Exercises(decoded) ==
    SelectSeq(decoded.nodes,
              LAMBDA n : n.kind = "exercise" /\ n.choice # Undefined)

Creates(decoded) == SelectSeq(decoded.nodes, LAMBDA n : n.kind = "create")

----------------------------------------------------------------------------
(* The participant's reading of the same message: every node body in it,   *)
(* the last occurrence of each field, every version it understands.        *)

ExecutedBody(node) ==
    IF node.v1 = <<>> THEN <<>> ELSE Latest(KnownBodies(Last(node.v1)))

ExecutedNodes(tx) ==
    IF tx.transaction = <<>> THEN <<>> ELSE Last(tx.transaction).nodes

ExecutedRoots(tx) ==
    IF tx.transaction = <<>> THEN <<>> ELSE Last(tx.transaction).roots

ExecutedId(node) == IF node.id = <<>> THEN "" ELSE Last(node.id)

\* of an Identifier the last name and package, or the text where it is text
ExecutedName(template) ==
    IF template = <<>> THEN Undefined
    ELSE LET id == Last(template)
         IN  IF id.name # <<>> THEN Last(id.name) ELSE id.text.name

ExecutedPackage(template) ==
    IF template = <<>> THEN Undefined
    ELSE LET id == Last(template)
         IN  IF id.package # <<>> THEN Last(id.package) ELSE id.text.package

ExecutedActAs(tx) ==
    IF tx.metadata = <<>> \/ Last(tx.metadata).submitter = <<>> THEN <<>>
    ELSE Last(Last(tx.metadata).submitter)
=============================================================================
