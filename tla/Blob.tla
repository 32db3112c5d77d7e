-------------------------------- MODULE Blob --------------------------------
(***************************************************************************)
(* Blob custody of one node: the RPC tasks that publish a payload          *)
(* (blob/mod.rs publish_payload), the ingest loop that stores gossiped     *)
(* shards and tracks what can be decoded (BlobCustody::run, CustodyLedger),*)
(* the consensus task that drains pending blobs into the vertex it         *)
(* proposes and marks them attached (drain_pending, propose_round,         *)
(* confirm_attached), and boot recovery after a crash.                     *)
(*                                                                         *)
(* A blob id is the hash of its payload, so a blob is its payload.  What   *)
(* comes in by gossip is stored as it is: a chunk may carry the shard      *)
(* encode_shards made, other bytes, or an index the code does not have,    *)
(* and overwrites what was stored under its index.  The size a chunk       *)
(* registers only says where decode_shards cuts its result, and the ledger *)
(* asks no more of that result than that there is one, so sizes are left   *)
(* out.  Spawning the tasks happens after boot recovery has returned, so   *)
(* boot_sync_done is up.                                                   *)
(***************************************************************************)
EXTENDS Erasure

CONSTANTS
    Blobs,          \* payloads
    Gossiped,       \* the chunks peers gossip: payload, index, bytes
    Clients,        \* RPC tasks that may run publish_payload at the same time
    MaxSubmits,     \* bound: submissions, resubmissions included
    MaxCrashes      \* bound

ASSUME BlobsFit == /\ IsFiniteSet(Blobs) /\ Blobs # {}
                   /\ \A b \in Blobs : b \in Seq(Byte) /\ Len(b) <= padded_len
ASSUME GossipedChunks == Gossiped \subseteq [blob : Blobs, index : Nat, data : Seq(Byte)]
ASSUME BoundsNat == MaxSubmits \in Nat /\ MaxCrashes \in Nat

VARIABLES
    record,     \* durable: BlobPublish column, the state of each PublishRecord
    chunks,     \* durable: BlobChunk column, the bytes stored per shard index
    up,         \* the process runs and boot recovery is done
    queue,      \* PendingQueue.queue
    ids,        \* PendingQueue.ids
    received,   \* CustodyLedger: shards noted per blob
    available,  \* CustodyLedger.available
    client,     \* publish_payload of each RPC task
    proposer,   \* propose_round of the consensus task
    sealed,     \* history: signed vertices of this node that carry the blob
    unmarked,   \* history: blobs whose mark_attached failed since the last boot
    missed,     \* history: blobs the last boot could not read
    submits, crashes

durable == <<record, chunks>>
pendingVars == <<queue, ids>>
ledger == <<received, available>>
history == <<sealed, unmarked, missed>>
bounds == <<submits, crashes>>
vars == <<durable, up, pendingVars, ledger, client, proposer, history, bounds>>

Idle == [pc |-> "idle", blob |-> CHOOSE b \in Blobs : TRUE, next |-> 0]
Resting == [pc |-> "idle", batch |-> {}]

\* Task c goes on with its blob: to pc, the next shard to note being i.
GoesTo(c, pc, i) == [client EXCEPT ![c] = [pc |-> pc, blob |-> client[c].blob, next |-> i]]

\* The shards of b with the given indices, as encode_shards makes them.
ShardsOf(b, S) == [i \in S |-> encode_shards(b)[i + 1]]

\* What the erasure code promises, about the code alone: any K shards of a blob, or
\* more, decode to it.
AnyKDecode == \A b \in Blobs : \A S \in SUBSET Indices :
                  Cardinality(S) >= K => decode_shards(ShardsOf(b, S), Len(b)) = b

\* The shard of b with index i, tabulated.
Shard == Table([b \in Blobs |-> Table([i \in Indices |-> encode_shards(b)[i + 1]])])

\* The indices chunks are stored under, what may be stored of b under one of them,
\* and all that may be stored of b: a function from indices to bytes.
Index == Indices \cup {g.index : g \in Gossiped}
Data(b) == {Shard[b][i] : i \in Indices} \cup {g.data : g \in {h \in Gossiped : h.blob = b}}
Stores(b) == UNION {[S -> Data(b)] : S \in SUBSET Index}

\* The chunks of stored with an index in S.
Only(S, stored) == [i \in S \cap DOMAIN stored |-> stored[i]]

\* Decoding it, tabulated.
Decoded == Table([b \in Blobs |->
              Table([stored \in Stores(b) |-> decode_shards(stored, Len(b))])])

-----------------------------------------------------------------------------
(* The store: the BlobPublish and BlobChunk columns.  Writes return the new   *)
(* column, so that a batch is one assignment per column.                      *)

\* put_ready_batch overwrites whatever record was there.
put_ready_batch(b) == [record EXCEPT ![b] = "Ready"]

\* put_attached: only a record that is there changes.
put_attached(b) == [record EXCEPT ![b] = IF @ = "None" THEN @ ELSE "Attached"]

is_attached(b) == record[b] = "Attached"

scan_ready == {b \in Blobs : record[b] = "Ready"}

\* put_chunk overwrites what was stored under the index.
put_chunk(b, i, data) ==
    [chunks EXCEPT ![b] = [j \in DOMAIN @ \cup {i} |-> IF j = i THEN data ELSE @[j]]]

\* The batch of publish_blob_atomic writes every shard.
put_batch(b) ==
    [chunks EXCEPT ![b] =
        [i \in DOMAIN @ \cup Indices |-> IF i \in Indices THEN Shard[b][i] ELSE @[i]]]

has_chunk(b, i) == i \in DOMAIN chunks[b]

\* list_chunk_refs looks at the first 64 indices only.
list_chunk_refs(b) == {i \in Index \cap 0 .. 63 : has_chunk(b, i)}

validate_chunks(b) == \A i \in Indices : has_chunk(b, i)

-----------------------------------------------------------------------------
(* The ledger. *)

\* Mutant: one shard less is enough, and it is not decoded.
OneShardLess(b, noted, stored) == Cardinality(noted \cap DOMAIN stored) + 1 >= K

\* erasure_available: K shards noted, K of them readable, and those decode, to
\* whatever it may be.
erasure_available(b, noted, stored) ==
    /\ Cardinality(noted) >= K
    /\ Cardinality(noted \cap DOMAIN stored) >= K
    /\ Decoded[b][Only(noted, stored)] # Failed

\* register_chunk_in_ledger and note_chunk of shard i.
note_chunk(b, i, stored) ==
    IF b \in available THEN UNCHANGED ledger
    ELSE /\ received' = [received EXCEPT ![b] = @ \cup {i}]
         /\ available' = IF erasure_available(b, received'[b], stored)
                         THEN available \cup {b} ELSE available

-----------------------------------------------------------------------------
(* publish_payload. *)

\* lua_submitBlob: the payload fits the code and boot recovery is over.
submit_blob(c, b) ==
    /\ client[c].pc = "idle" /\ submits < MaxSubmits
    /\ Len(b) <= padded_len
    /\ up

\* Encode, and write all shards and the Ready record in one batch.
PublishAtomic(c, b) ==
    /\ submit_blob(c, b)
    /\ record' = put_ready_batch(b)
    /\ chunks' = put_batch(b)
    /\ client' = [client EXCEPT ![c] = [pc |-> "enqueue", blob |-> b, next |-> 0]]
    /\ missed' = missed \ {b}
    /\ submits' = submits + 1
    /\ UNCHANGED <<up, pendingVars, ledger, proposer, sealed, unmarked, crashes>>

\* PendingQueue::enqueue: dropped when the id is queued already.
Enqueue(c) ==
    /\ client[c].pc = "enqueue"
    /\ LET b == client[c].blob IN
         IF b \in ids THEN UNCHANGED pendingVars
         ELSE queue' = Append(queue, b) /\ ids' = ids \cup {b}
    /\ client' = GoesTo(c, "note", 0)
    /\ UNCHANGED <<durable, up, ledger, proposer, history, bounds>>

\* Mutant: the loop runs one index too far.
NoteShardPastEnd(c) ==
    /\ client[c].pc = "note"
    /\ client' = GoesTo(c, IF client[c].next = N THEN "gossip" ELSE "note", client[c].next + 1)
    /\ UNCHANGED <<durable, up, pendingVars, ledger, proposer, history, bounds>>

\* Note the shards one after the other; the lock is released in between.
NoteShard(c) ==
    /\ client[c].pc = "note"
    /\ note_chunk(client[c].blob, client[c].next, chunks[client[c].blob])
    /\ client' = GoesTo(c, IF client[c].next + 1 = N THEN "gossip" ELSE "note", client[c].next + 1)
    /\ UNCHANGED <<durable, up, pendingVars, proposer, history, bounds>>

\* Hand every shard to the network, whether it takes it or not, and answer.
Gossip(c) ==
    /\ client[c].pc = "gossip"
    /\ client' = [client EXCEPT ![c] = Idle]
    /\ UNCHANGED <<durable, up, pendingVars, ledger, proposer, history, bounds>>

-----------------------------------------------------------------------------
(* BlobCustody::run: store a gossiped chunk, whatever it carries, and note it.  A *)
(* chunk that cannot be written changes nothing.                                 *)

IngestChunk(chunk) ==
    /\ up
    /\ chunks' = put_chunk(chunk.blob, chunk.index, chunk.data)
    /\ note_chunk(chunk.blob, chunk.index, chunks'[chunk.blob])
    /\ UNCHANGED <<record, up, pendingVars, client, proposer, history, bounds>>

-----------------------------------------------------------------------------
(* propose_round, the part that touches blobs. *)

\* Mutant: the ids of drained blobs stay in the set enqueue looks at.
DrainKeepsIds ==
    /\ up /\ proposer.pc = "idle" /\ queue # <<>>
    /\ proposer' = [pc |-> "filter", batch |-> Range(queue)]
    /\ queue' = <<>>
    /\ UNCHANGED <<ids, durable, up, ledger, client, history, bounds>>

\* Mutant: the proposer waits until two blobs are pending.
DrainPairs ==
    /\ up /\ proposer.pc = "idle" /\ Len(queue) > 1
    /\ proposer' = [pc |-> "filter", batch |-> Range(queue)]
    /\ queue' = <<>>
    /\ ids' = ids \ Range(queue)
    /\ UNCHANGED <<durable, up, ledger, client, history, bounds>>

\* PendingQueue::drain, under the lock.  A proposal that finds the queue empty
\* carries no blob and changes nothing here.
Drain ==
    /\ up /\ proposer.pc = "idle" /\ queue # <<>>
    /\ proposer' = [pc |-> "filter", batch |-> Range(queue)]
    /\ queue' = <<>>
    /\ ids' = ids \ Range(queue)
    /\ UNCHANGED <<durable, up, ledger, client, history, bounds>>

\* Mutant: the blobs are confirmed when they are drained, before the seal.
ConfirmOnDrain ==
    /\ proposer.pc = "filter"
    /\ record' = [b \in Blobs |-> IF b \in proposer.batch THEN "Attached" ELSE record[b]]
    /\ proposer' = [proposer EXCEPT !.pc = "seal"]
    /\ UNCHANGED <<chunks, up, pendingVars, ledger, client, history, bounds>>

\* The is_attached re-check, after the lock is released; a blob whose record
\* cannot be read stays in the batch.
Filter ==
    /\ proposer.pc = "filter"
    /\ \E skipped \in SUBSET {b \in proposer.batch : is_attached(b)} :
         proposer' = [pc |-> "seal", batch |-> proposer.batch \ skipped]
    /\ UNCHANGED <<durable, up, pendingVars, ledger, client, history, bounds>>

\* Seal and sign the vertex.
Seal ==
    /\ proposer.pc = "seal"
    /\ sealed' = [b \in Blobs |-> IF b \in proposer.batch THEN sealed[b] + 1 ELSE sealed[b]]
    /\ proposer' = IF proposer.batch = {} THEN Resting
                   ELSE [pc |-> "confirm", batch |-> proposer.batch]
    /\ UNCHANGED <<durable, up, pendingVars, ledger, client, unmarked, missed, bounds>>

\* confirm_attached: mark_attached blob by blob; an I/O error is logged and the
\* loop goes on.  (It follows the order of the vertex, which nothing depends on.)
Confirm ==
    /\ proposer.pc = "confirm"
    /\ \E b \in proposer.batch :
         /\ \/ record' = put_attached(b) /\ UNCHANGED unmarked
            \/ unmarked' = unmarked \cup {b} /\ UNCHANGED record
         /\ proposer' = IF proposer.batch = {b} THEN Resting
                        ELSE [pc |-> "confirm", batch |-> proposer.batch \ {b}]
    /\ UNCHANGED <<chunks, up, pendingVars, ledger, client, sealed, missed, bounds>>

-----------------------------------------------------------------------------
(* Crash and boot. *)

Crash ==
    /\ up /\ crashes < MaxCrashes
    /\ up' = FALSE
    /\ queue' = <<>> /\ ids' = {}
    /\ received' = [b \in Blobs |-> {}] /\ available' = {}
    /\ client' = [c \in Clients |-> Idle]
    /\ proposer' = Resting
    /\ unmarked' = {} /\ missed' = {}
    /\ crashes' = crashes + 1
    /\ UNCHANGED <<durable, sealed, submits>>

\* rehydrate_ledger: the shards are noted index by index until K make the blob
\* available, the later ones are not counted any more.
rehydrate_ledger(valid) ==
    /\ received' = [b \in Blobs |-> IF b \in valid THEN 0 .. K - 1 ELSE {}]
    /\ available' = valid

\* run_boot_recovery: every Ready record whose N shards are all there is noted in
\* the ledger and queued again.  A blob of which a shard cannot be read is skipped,
\* and a failed scan of the records skips all of them.
Boot ==
    /\ ~up
    /\ up' = TRUE
    /\ \E unread \in SUBSET scan_ready :
         LET valid == {b \in scan_ready \ unread : validate_chunks(b)} IN
         /\ queue' = SetToSeq(valid)
         /\ ids' = valid
         /\ rehydrate_ledger(valid)
         /\ missed' = unread
    /\ UNCHANGED <<durable, client, proposer, sealed, unmarked, bounds>>

-----------------------------------------------------------------------------
Init ==
    /\ record = [b \in Blobs |-> "None"]
    /\ chunks = [b \in Blobs |-> << >>]
    /\ up = FALSE
    /\ queue = <<>> /\ ids = {}
    /\ received = [b \in Blobs |-> {}] /\ available = {}
    /\ client = [c \in Clients |-> Idle]
    /\ proposer = Resting
    /\ sealed = [b \in Blobs |-> 0]
    /\ unmarked = {} /\ missed = {}
    /\ submits = 0 /\ crashes = 0

Publisher(c) == Enqueue(c) \/ NoteShard(c) \/ Gossip(c)
Proposer == Drain \/ Filter \/ Seal \/ Confirm

Next ==
    \/ \E c \in Clients, b \in Blobs : PublishAtomic(c, b)
    \/ \E c \in Clients : Publisher(c)
    \/ \E chunk \in Gossiped : IngestChunk(chunk)
    \/ Proposer
    \/ Crash
    \/ Boot

\* The tasks run to completion while the process is up, a round is proposed again
\* and again, and an operator restarts a node that is down.
Fairness ==
    /\ \A c \in Clients : WF_vars(Publisher(c))
    /\ WF_vars(Proposer)
    /\ WF_vars(Boot)

Spec == Init /\ [][Next]_vars /\ Fairness

-----------------------------------------------------------------------------
(* Properties. *)

TypeOK ==
    /\ record \in [Blobs -> {"None", "Ready", "Attached"}]
    /\ DOMAIN chunks = Blobs
    /\ \A b \in Blobs : /\ DOMAIN chunks[b] \subseteq Index
                       /\ chunks[b] \in [DOMAIN chunks[b] -> Data(b)]
    /\ up \in BOOLEAN
    /\ queue \in Seq(Blobs) /\ ids \subseteq Blobs
    /\ received \in [Blobs -> SUBSET Index] /\ available \subseteq Blobs
    /\ client \in [Clients -> [pc : {"idle", "enqueue", "note", "gossip"},
                               blob : Blobs, next : 0 .. N]]
    /\ proposer \in [pc : {"idle", "filter", "seal", "confirm"}, batch : SUBSET Blobs]
    /\ sealed \in [Blobs -> Nat] /\ unmarked \subseteq Blobs /\ missed \subseteq Blobs
    /\ submits \in Nat /\ crashes \in Nat

\* A blob that is durably Ready is never forgotten while the node runs: it waits
\* in the pending queue, an RPC task is about to queue it, the proposer holds it,
\* or it is in a vertex whose mark_attached failed; only a boot that could not read
\* it skips it, until it is submitted again.  (Boot recovery, the dedup of the queue,
\* the drain that pops before it re-checks the store, and resubmission of a payload
\* all have to agree for this, and no gossiped chunk may hide a shard from boot.)
NoBlobStranded ==
    \A b \in Blobs \ missed : up /\ record[b] = "Ready" =>
        \/ b \in Range(queue)
        \/ \E c \in Clients : client[c].pc = "enqueue" /\ client[c].blob = b
        \/ b \in proposer.batch
        \/ b \in unmarked

\* A record says Attached only of a blob some signed vertex of this node carries,
\* whatever crash came in between: otherwise a restart would lose the blob.
AttachedWasSealed ==
    \A b \in Blobs : record[b] = "Attached" => sealed[b] > 0

\* The shard of b stored under index i is the one encode_shards made.
Genuine(b, i) == i \in Indices /\ chunks[b][i] = Shard[b][i]

\* What the ledger calls available can be read back, in whatever order and number
\* chunks came and across restarts: K shards of the code are in the store, whatever
\* was gossiped, and if none of what is stored is damaged it decodes to the payload.
\* (A gossiped chunk is not verified, so with a damaged one the ledger promises no
\* more than that there are K.)
AvailableDecodes ==
    \A b \in available :
        /\ Cardinality(DOMAIN chunks[b] \cap Indices) >= K
        /\ (\A i \in DOMAIN chunks[b] : Genuine(b, i)) => Decoded[b][chunks[b]] = b

\* An availability challenge for K or more of the chunks the store lists of a blob:
\* the answer read from the store verifies if every one of them is genuine, and does
\* not if a single one is damaged, has another length or an index beyond the code.
Accepted(b, stored) ==
    verify_availability_response(DOMAIN stored, stored,
                                 rs_merkle_commitment(encode_shards(b)), Len(b))
Accepts == Table([b \in Blobs |-> Table([stored \in Stores(b) |-> Accepted(b, stored)])])
ResponsesVerify ==
    \A b \in Blobs : \A S \in SUBSET list_chunk_refs(b) :
        Cardinality(S) >= K =>
            (Accepts[b][Only(S, chunks[b])] <=> \A i \in S : Genuine(b, i))

\* Every blob that was made durable gets into a signed vertex, however often the
\* node crashes in between, unless boot recovery could not read it.
EveryBlobSealed ==
    \A b \in Blobs : record[b] = "Ready" ~> (sealed[b] > 0 \/ b \in missed)
=============================================================================
