-------------------------------- MODULE Wire --------------------------------
(***************************************************************************)
(* The gossip wire of the net crate: topics, the topics a node subscribes  *)
(* to, and the two translations between consensus actions, gossip messages *)
(* and consensus events (net/src/gossip_wire.rs, gossip/topics.rs,         *)
(* swarm_runner.rs).                                                       *)
(*                                                                         *)
(* A topic is a pair: its name and, for partial signatures, its subnet (0  *)
(* otherwise).  A Borsh payload is the value it encodes together with the  *)
(* name of its type: decoding it as another type fails.                    *)
(***************************************************************************)
EXTENDS Integers

CONSTANT Ke             \* subnets of macro aggregation, compute_ke

ASSUME KeAssumption == Ke \in Nat \ {0}

NoEvent == [kind |-> "none"]
DecodeError == [kind |-> "error"]

(* What an action that is gossiped becomes: its topic, and the event that  *)
(* its receivers step on.                                                  *)
TopicOf ==
    [BroadcastMicroQc |-> "micro-qc",
     BroadcastMacroProposal |-> "macro-proposal",
     BroadcastBlsPartial |-> "bls-partial",
     BroadcastSubnetAggregate |-> "subnet-aggregate",
     BroadcastMacroQc |-> "macro-qc",
     EmitSlashEvidence |-> "slash-evidence",
     BroadcastVertexProposal |-> "vertex-proposal",
     BroadcastVertexPartial |-> "vertex-partial",
     BroadcastCertifiedVertex |-> "certified-vertex"]

EventOf ==
    [x \in {"micro-qc", "macro-proposal", "bls-partial", "subnet-aggregate",
            "macro-qc", "slash-evidence", "vertex-proposal",
            "vertex-partial", "certified-vertex"} |->
        CASE x = "micro-qc" -> "MicroQcAssembled"
          [] x = "macro-proposal" -> "MacroProposalReceived"
          [] x = "bls-partial" -> "BlsPartialReceived"
          [] x = "subnet-aggregate" -> "SubnetAggregateReceived"
          [] x = "macro-qc" -> "MacroQcReceived"
          [] x = "slash-evidence" -> "SlashEvidenceFound"
          [] x = "vertex-proposal" -> "VertexProposalReceived"
          [] x = "vertex-partial" -> "VertexPartialReceived"
          [] x = "certified-vertex" -> "CertifiedVertexReceived"]

is_broadcast(a) == a.kind \in DOMAIN TopicOf

\* Mutant: every partial goes out on the topic of subnet 0.
FlatTopic(a) ==
    [topic |-> <<TopicOf[a.kind], 0>>, type |-> TopicOf[a.kind], data |-> a.body]

(* The body of a partial is its subnet, the only field the wire looks at.  *)
outbound_broadcast(a) ==
    [topic |-> <<TopicOf[a.kind],
                 IF a.kind = "BroadcastBlsPartial" THEN a.body ELSE 0>>,
     type |-> TopicOf[a.kind], data |-> a.body]

encode_blob_chunk(c) == [topic |-> <<"blob-chunk", 0>>, type |-> "chunk", data |-> c]

decode_blob_chunk(m) ==
    CASE m.topic[1] # "blob-chunk" -> NoEvent
      [] m.type # "chunk" -> DecodeError
      [] OTHER -> [kind |-> "chunk", body |-> m.data]

inbound_message(m) ==
    CASE m.topic[1] \notin DOMAIN EventOf -> NoEvent
      [] m.type # m.topic[1] -> DecodeError
      [] m.topic[1] = "bls-partial" /\ m.data # m.topic[2] -> DecodeError
      [] OTHER -> [kind |-> EventOf[m.topic[1]], body |-> m.data]

(* `count` is net.macro_subnet_count.  The node fills in Ke for 0 before   *)
(* it spawns the swarm, and leaves a configured count alone: it may be     *)
(* smaller than Ke, which is what assigns the validators their subnets.    *)
subnet_count(count) == IF count = 0 THEN Ke ELSE count

(* The flat mode of a swarm that is given 0 has the one topic of subnet 0. *)
partial_count(count) == IF count = 0 THEN 1 ELSE count

subscribe_set(count) ==
    {<<t, 0>> : t \in DOMAIN EventOf \ {"bls-partial"}}
        \cup {<<"bls-partial", s>> : s \in 0 .. partial_count(count) - 1}
=============================================================================
