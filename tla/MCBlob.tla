------------------------------- MODULE MCBlob -------------------------------
(* Blob with a payload that spans both data shards and one that needs padding. *)
EXTENDS Blob

Long == <<7, 200, 33, 129>>
Short == <<1>>
MCBlobs == {Long, Short}

Chunk(b, i, data) == [blob |-> b, index |-> i, data |-> data]

\* Of the long payload, enough shards to decode and a parity shard with other bytes;
\* of the short one a shard of another length and an index the code does not have.
MCGossiped ==
    {Chunk(Long, i, encode_shards(Long)[i + 1]) : i \in {0, 2}}
        \cup {Chunk(Long, 2, <<0, 0>>), Chunk(Short, 0, <<1>>), Chunk(Short, N, <<0, 0>>)}

\* The code of the instance decodes.
ASSUME CodeDecodes == AnyKDecode
=============================================================================
