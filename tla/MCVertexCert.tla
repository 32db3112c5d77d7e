----------------------------- MODULE MCVertexCert -----------------------------
(***************************************************************************)
(* Instances of VertexCert for TLC: four validators, so that a quorum is   *)
(* three of them.                                                          *)
(***************************************************************************)
EXTENDS VertexCert

Payload == CHOOSE b \in Blobs : TRUE

\* Honest validators drain one payload; only a faulty one signs two.
OnePayload == [n \in Honest |-> {Payload}]

GenesisBy(S, T) == [vertex : [round : {0}, author : S, blobs : T],
                     parents : {{}}, repeats : {0}]

\* Two vertices in round 0, then one in round 1 over any three vertices of
\* round 0, certified or not, or over a single one of them listed three times.
EquivocatesThenGoesOn ==
    LET below == [round : {0}, author : Honest, blobs : {Payload}]
                 \cup [round : {0}, author : Faulty, blobs : Blobs]
    IN  GenesisBy(Faulty, Blobs) \cup
        {p \in [vertex  : [round : {1}, author : Faulty, blobs : {Payload}],
               parents : SUBSET below,
               repeats : {0, 2}] :
            p.parents # {} /\ ListLength(p) = 3}

\* The other three validators run ahead for a round, two of them with a vertex
\* in round 0.
PeersRunAhead ==
    LET peers(r, S) == [round : {r}, author : S, blobs : {Payload}]
    IN  GenesisBy({2, 3}, {Payload}) \cup
        [vertex : peers(1, {2, 3, 4}), parents : {peers(0, {1, 2, 3})},
         repeats : {0}]
=============================================================================
