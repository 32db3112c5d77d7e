------------------------------- MODULE MCNode -------------------------------
(* Four validators of which the last equivocates: it signs two vertices of *)
(* round 0, and validators 0 to 2 have signed the first one only.          *)
EXTENDS Node

Va == [round |-> 0, author |-> 3, id |-> "a"]
Vb == [round |-> 0, author |-> 3, id |-> "b"]

\* A certificate of v with these bits set and these signatures in it.
MCCert(v, ones, signers) ==
    [vertex |-> v, hash |-> v, bitmap |-> [bytes |-> 1, ones |-> ones],
     sig |-> [p \in (DOMAIN signers) \X {v} |-> signers[p[1]]]]

\* A quorum for a; for b, the signature of its author with padding bits, and
\* the same signature counted three times.
MCCerts ==
    {MCCert(Va, {0, 1, 3}, [i \in {0, 1, 3} |-> 1]),
     MCCert(Vb, {3, 5, 7}, [i \in {3} |-> 1]),
     MCCert(Vb, {1, 2, 3}, [i \in {3} |-> 3])}

MCProposals == {"a", "b"}
\* Two checkpoints of height 0: a validator that forgets what it adopted may
\* fill its window otherwise after a restart.
MCHeights == {0}
MCRoots == {"x", "y"}
X == [height |-> 0, root |-> "x"]

\* A first start, and a restart after a checkpoint of height 0 was justified.
FirstStart == {EmptyDb}
MCDatabases ==
    FirstStart \cup
    {put_monotonic(store_macro_qc(store_macro_checkpoint(EmptyDb, X), hash(X)),
                   hash(X), Justified)}

MCBase == [kind |-> "devnet_seed", label |-> "v0"]
MCMembers == [l \in {"v0", "v1"} |-> devnet_bls_ikm(l)]

LiveNode ==
    [stack |-> <<MCBase, [l3_wire_complete |-> TRUE]>>, skeleton |-> FALSE,
     label |-> "", members |-> MCMembers, bls_key |-> <<>>, epoch |-> 0]

\* Command lines: a live node; the same without the flag that the live gate
\* asks for; a stranger to the validator set; a key that is not the listed one;
\* a skeleton node with no swarm; a validator set of another epoch; and an
\* identity nobody supports.
MCConfigs ==
    {LiveNode,
     [LiveNode EXCEPT !.stack = <<MCBase>>],
     [LiveNode EXCEPT !.label = "stranger"],
     [LiveNode EXCEPT !.bls_key = <<"env", "key">>],
     [LiveNode EXCEPT !.stack = <<MCBase, [network_mode |-> "skeleton"]>>, !.skeleton = TRUE],
     [LiveNode EXCEPT !.epoch = 1],
     [LiveNode EXCEPT !.stack = <<MCBase, [kind |-> "hsm"]>>]}

\* Live nodes that derive the subnet count, and that configure fewer subnets
\* than aggregation uses.
MCSubnets ==
    {LiveNode,
     [LiveNode EXCEPT !.stack = Append(@, [macro_subnet_count |-> 1])]}

\* One certificate of a peer, and none of its proposals.
FewCerts == {MCCert(Va, {0, 1, 3}, [i \in {0, 1, 3} |-> 1])}
NoProposals == {}
OneRoot == {"x"}
=============================================================================
