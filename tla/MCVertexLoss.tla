----------------------------- MODULE MCVertexLoss -----------------------------
(***************************************************************************)
(* VertexLoss with four validators of which one is down, so that the other *)
(* three must all be heard.                                                *)
(***************************************************************************)
EXTENDS VertexLoss

OnePayload == [n \in Honest |-> Blobs]
NoProposal == {}
=============================================================================
