----------------------------- MODULE BlobProofs -----------------------------
(***************************************************************************)
(* Theorems about Blob, for every set of payloads, of RPC tasks and of     *)
(* chunks peers gossip, every number of submissions and crashes, and every *)
(* erasure configuration.                                                  *)
(***************************************************************************)
EXTENDS Blob, FiniteSetTheorems, SequenceTheorems, TLAPS

-----------------------------------------------------------------------------
(***************************************************************************)
(* The inductive invariant.                                                *)
(***************************************************************************)

\* The queue's set of ids names nothing that is not queued, so that a blob whose
\* id keeps it out of the queue is in it.
IdsQueued == ids \subseteq Range(queue)

\* An RPC task notes shards that exist.
NotesShards == \A c \in Clients : client[c].pc = "note" => client[c].next < N

\* Between proposals the proposer holds no blob.
RestsEmpty == proposer.pc = "idle" => proposer.batch = {}

\* The proposer confirms what it has sealed.
ConfirmsSealed == proposer.pc = "confirm" => \A b \in proposer.batch : sealed[b] > 0

\* A Ready record comes with every shard, which is what boot recovery asks for.
ReadyHasShards == \A b \in Blobs : record[b] = "Ready" => Indices \subseteq DOMAIN chunks[b]

BlobInv == /\ TypeOK
           /\ IdsQueued
           /\ NotesShards
           /\ RestsEmpty
           /\ ConfirmsSealed
           /\ ReadyHasShards
           /\ AttachedWasSealed
           /\ NoBlobStranded

-----------------------------------------------------------------------------
(***************************************************************************)
(* Facts about the data.                                                   *)
(***************************************************************************)

\* The code has at least one data and one parity shard.
LEMMA ShardCount == N \in Nat /\ N > 0 /\ K \in Nat /\ K < N
BY CfgValid

\* SetToSeq lists a set of blobs: boot recovery queues each of them.
LEMMA SetToSeqLists ==
    ASSUME NEW S \in SUBSET Blobs
    PROVE  SetToSeq(S) \in Seq(Blobs) /\ Range(SetToSeq(S)) = S
<1>1. IsFiniteSet(S)
  BY BlobsFit, FS_Subset
<1> DEFINE n == Cardinality(S)
           f == SetToSeq(S)
<1>2. n \in Nat /\ ExistsBijection(1 .. n, S)
  BY <1>1, FS_CardinalityType
<1>3. \E g \in [1 .. n -> S] : IsInjective(g)
  BY <1>2 DEF ExistsBijection, Bijection, Injection
<1>4. f \in [1 .. n -> S] /\ IsInjective(f)
  BY <1>3 DEF SetToSeq
<1>5. f \in Injection(1 .. n, S)
  BY <1>4 DEF Injection
<1>6. Cardinality(1 .. n) = n
  BY <1>2, FS_Interval
<1>7. f \in Surjection(1 .. n, S)
  BY <1>1, <1>5, <1>6, FS_Injection
<1>8. Range(f) = S
  BY <1>4, <1>7 DEF Range, Surjection
<1>9. f \in Seq(Blobs)
  BY <1>2, <1>4
<1> QED BY <1>8, <1>9

\* What a queued sequence holds.
LEMMA QueueRange ==
    ASSUME NEW q \in Seq(Blobs)
    PROVE  /\ Range(q) \subseteq Blobs
           /\ \A b \in Blobs : Append(q, b) \in Seq(Blobs) /\ Range(Append(q, b)) = Range(q) \cup {b}
<1>1. Range(q) \subseteq Blobs
  BY RangeOfSeq
<1>2. ASSUME NEW b \in Blobs
      PROVE  Append(q, b) \in Seq(Blobs) /\ Range(Append(q, b)) = Range(q) \cup {b}
  <2>1. Append(q, b) = q \o <<b>> /\ <<b>> \in Seq(Blobs)
    BY AppendIsConcat
  <2>2. Range(<<b>>) = {b}
    BY DEF Range
  <2>3. Range(q \o <<b>>) = Range(q) \cup Range(<<b>>)
    BY <2>1, RangeConcatenation
  <2> QED BY <2>1, <2>2, <2>3, AppendProperties
<1> QED BY <1>1, <1>2

\* The empty queue.
LEMMA EmptyQueue == << >> \in Seq(Blobs) /\ Range(<< >>) = {}
BY DEF Range

\* An idle task, and a proposer between proposals.
LEMMA IdleStates ==
    /\ Idle \in [pc : {"idle", "enqueue", "note", "gossip"}, blob : Blobs, next : 0 .. N]
    /\ Idle.pc = "idle"
    /\ Resting \in [pc : {"idle", "filter", "seal", "confirm"}, batch : SUBSET Blobs]
    /\ Resting.pc = "idle" /\ Resting.batch = {}
BY BlobsFit, ShardCount DEF Idle, Resting

\* Noting a shard keeps the ledger in its domain.
LEMMA NoteTyped ==
    ASSUME NEW b \in Blobs, NEW i \in Index, NEW stored,
           received \in [Blobs -> SUBSET Index], available \subseteq Blobs,
           note_chunk(b, i, stored)
    PROVE  received' \in [Blobs -> SUBSET Index] /\ available' \subseteq Blobs
<1>1. CASE b \in available
  BY <1>1 DEF note_chunk, ledger
<1>2. CASE b \notin available
  BY <1>2 DEF note_chunk
<1> QED BY <1>1, <1>2

\* What the chunk column holds, as in TypeOK.
Column(c) ==
    /\ DOMAIN c = Blobs
    /\ \A b \in Blobs : /\ DOMAIN c[b] \subseteq Index
                       /\ c[b] \in [DOMAIN c[b] -> Data(b)]

\* The shards of the code have an index chunks are stored under.
LEMMA IndicesIn == Indices \subseteq Index
BY DEF Index

\* Tabulating a function leaves it as it is.
LEMMA TableIs ==
    ASSUME NEW f
    PROVE  Table(f) = f
BY Zenon DEF Table

\* Storing a gossiped chunk adds its index and takes none away.
LEMMA PutChunk ==
    ASSUME Column(chunks), NEW chunk \in Gossiped,
           chunks' = put_chunk(chunk.blob, chunk.index, chunk.data)
    PROVE  /\ chunk.blob \in Blobs /\ chunk.index \in Index
           /\ Column(chunks')
           /\ \A b \in Blobs : DOMAIN chunks[b] \subseteq DOMAIN chunks'[b]
<1> DEFINE b == chunk.blob
           i == chunk.index
           new == [j \in DOMAIN chunks[b] \cup {i} |-> IF j = i THEN chunk.data ELSE chunks[b][j]]
<1>1. b \in Blobs /\ i \in Index /\ chunk.data \in Data(b)
  BY GossipedChunks DEF Index, Data
<1>2. chunks' = [chunks EXCEPT ![b] = new]
  BY DEF put_chunk
<1>3. DOMAIN chunks[b] \subseteq Index /\ chunks[b] \in [DOMAIN chunks[b] -> Data(b)]
  BY <1>1 DEF Column
<1>4. /\ DOMAIN new = DOMAIN chunks[b] \cup {i}
      /\ new \in [DOMAIN new -> Data(b)]
  BY <1>1, <1>3
<1> HIDE DEF new, b, i
<1>5. \A x \in Blobs : chunks'[x] = IF x = b THEN new ELSE chunks[x]
  BY <1>2 DEF Column
<1>6. DOMAIN chunks' = Blobs
  BY <1>2 DEF Column
<1>7. Column(chunks')
  BY <1>1, <1>3, <1>4, <1>5, <1>6 DEF Column
<1> QED BY <1>1, <1>4, <1>5, <1>7 DEF b, i

\* A batch adds every shard of its blob and takes none away.
LEMMA PutBatch ==
    ASSUME Column(chunks), NEW b \in Blobs, chunks' = put_batch(b)
    PROVE  /\ Column(chunks')
           /\ Indices \subseteq DOMAIN chunks'[b]
           /\ \A x \in Blobs : DOMAIN chunks[x] \subseteq DOMAIN chunks'[x]
<1> DEFINE new == [i \in DOMAIN chunks[b] \cup Indices |->
                      IF i \in Indices THEN Shard[b][i] ELSE chunks[b][i]]
<1>1. chunks' = [chunks EXCEPT ![b] = new]
  BY DEF put_batch
<1>2. DOMAIN chunks[b] \subseteq Index /\ chunks[b] \in [DOMAIN chunks[b] -> Data(b)]
  BY DEF Column
<1>3. /\ DOMAIN new = DOMAIN chunks[b] \cup Indices
      /\ new \in [DOMAIN new -> Data(b)]
  BY <1>2 DEF Data
<1> HIDE DEF new
<1>4. \A x \in Blobs : chunks'[x] = IF x = b THEN new ELSE chunks[x]
  BY <1>1 DEF Column
<1>5. DOMAIN chunks' = Blobs
  BY <1>1 DEF Column
<1>6. Column(chunks')
  BY <1>2, <1>3, <1>4, <1>5, IndicesIn DEF Column
<1> QED BY <1>3, <1>4, <1>6

-----------------------------------------------------------------------------
(***************************************************************************)
(* The invariant is inductive: one lemma per kind of step.                 *)
(***************************************************************************)

\* An empty database and a process that is down.
LEMMA InitHolds == Init => BlobInv
<1> SUFFICES ASSUME Init PROVE BlobInv
  OBVIOUS
<1>0. Column(chunks)
  <2>1. DOMAIN << >> = {} /\ \A V : << >> \in [{} -> V]
    OBVIOUS
  <2> DEFINE empty == << >>
  <2>2. chunks = [b \in Blobs |-> empty] /\ DOMAIN empty = {} /\ \A V : empty \in [{} -> V]
    BY <2>1 DEF Init
  <2> HIDE DEF empty
  <2> QED BY <2>2 DEF Column
<1>1. TypeOK
  BY <1>0, EmptyQueue, IdleStates DEF Init, TypeOK, Column
<1>2. IdsQueued /\ ReadyHasShards /\ AttachedWasSealed /\ NoBlobStranded
  BY DEF Init, IdsQueued, ReadyHasShards, AttachedWasSealed, NoBlobStranded
<1>3. NotesShards /\ RestsEmpty /\ ConfirmsSealed
  BY IdleStates DEF Init, NotesShards, RestsEmpty, ConfirmsSealed
<1> QED BY <1>1, <1>2, <1>3 DEF BlobInv

\* A payload is made durable: its record becomes Ready, and a task is to queue it.
LEMMA PublishStep ==
    ASSUME BlobInv, NEW c \in Clients, NEW b \in Blobs, PublishAtomic(c, b)
    PROVE  BlobInv'
<1> USE DEF durable, pendingVars, ledger, history, bounds
<1>0. /\ Column(chunks') /\ Indices \subseteq DOMAIN chunks'[b]
      /\ \A x \in Blobs : DOMAIN chunks[x] \subseteq DOMAIN chunks'[x]
  BY PutBatch DEF BlobInv, TypeOK, Column, PublishAtomic
<1>1. TypeOK'
  BY <1>0, ShardCount DEF BlobInv, TypeOK, Column, PublishAtomic, submit_blob, put_ready_batch
<1>2. /\ IdsQueued' /\ RestsEmpty' /\ ConfirmsSealed'
  BY DEF BlobInv, TypeOK, PublishAtomic, IdsQueued, RestsEmpty, ConfirmsSealed
<1>3. NotesShards'
  BY DEF BlobInv, TypeOK, PublishAtomic, NotesShards
<1>4. ReadyHasShards'
  BY <1>0 DEF BlobInv, TypeOK, PublishAtomic, ReadyHasShards, put_ready_batch
<1>5. AttachedWasSealed'
  BY DEF BlobInv, TypeOK, PublishAtomic, AttachedWasSealed, put_ready_batch
<1>6. NoBlobStranded'
  BY DEF BlobInv, TypeOK, PublishAtomic, submit_blob, NoBlobStranded, put_ready_batch
<1> QED BY <1>1, <1>2, <1>3, <1>4, <1>5, <1>6 DEF BlobInv

\* A task queues its blob: when the id keeps it out, the blob is in the queue.
LEMMA EnqueueStep ==
    ASSUME BlobInv, NEW c \in Clients, Enqueue(c)
    PROVE  BlobInv'
<1> USE DEF durable, pendingVars, ledger, history, bounds
<1> DEFINE b == client[c].blob
<1>1. b \in Blobs
  BY DEF BlobInv, TypeOK
<1>2. /\ queue' \in Seq(Blobs) /\ ids' \subseteq Blobs
      /\ Range(queue') = Range(queue) \cup {b} /\ IdsQueued'
  <2>1. CASE b \in ids
    <3>1. queue' = queue /\ ids' = ids
      BY <2>1 DEF Enqueue
    <3> QED BY <2>1, <3>1 DEF BlobInv, TypeOK, IdsQueued
  <2>2. CASE b \notin ids
    <3>1. queue' = Append(queue, b) /\ ids' = ids \cup {b}
      BY <2>2 DEF Enqueue
    <3>2. queue' \in Seq(Blobs) /\ Range(queue') = Range(queue) \cup {b}
      BY <1>1, <3>1, QueueRange DEF BlobInv, TypeOK
    <3> QED BY <1>1, <3>1, <3>2 DEF BlobInv, TypeOK, IdsQueued
  <2> QED BY <2>1, <2>2
<1>3. TypeOK'
  BY <1>1, <1>2, ShardCount DEF BlobInv, TypeOK, Enqueue, GoesTo
<1>4. NotesShards'
  BY ShardCount DEF BlobInv, TypeOK, Enqueue, GoesTo, NotesShards
<1>5. RestsEmpty' /\ ConfirmsSealed' /\ ReadyHasShards' /\ AttachedWasSealed'
  BY DEF BlobInv, Enqueue, RestsEmpty, ConfirmsSealed, ReadyHasShards, AttachedWasSealed
<1>6. NoBlobStranded'
  BY <1>2 DEF BlobInv, TypeOK, Enqueue, GoesTo, NoBlobStranded
<1> QED BY <1>2, <1>3, <1>4, <1>5, <1>6 DEF BlobInv

\* A task notes a shard in the ledger.
LEMMA NoteStep ==
    ASSUME BlobInv, NEW c \in Clients, NoteShard(c)
    PROVE  BlobInv'
<1> USE DEF durable, pendingVars, history, bounds
<1> DEFINE b == client[c].blob
           i == client[c].next
<1>1. b \in Blobs /\ i \in Indices /\ i + 1 \in 0 .. N
  BY ShardCount DEF BlobInv, TypeOK, NoteShard, NotesShards, Indices
<1>2. received' \in [Blobs -> SUBSET Index] /\ available' \subseteq Blobs
  BY <1>1, NoteTyped, IndicesIn DEF BlobInv, TypeOK, NoteShard
<1>3. client' \in [Clients -> [pc : {"idle", "enqueue", "note", "gossip"}, blob : Blobs, next : 0 .. N]]
  BY <1>1 DEF BlobInv, TypeOK, NoteShard, GoesTo
<1>4. TypeOK'
  BY <1>2, <1>3 DEF BlobInv, TypeOK, NoteShard
<1>5. NotesShards'
  BY <1>1, ShardCount DEF BlobInv, TypeOK, NoteShard, GoesTo, NotesShards
<1>6. /\ IdsQueued' /\ RestsEmpty' /\ ConfirmsSealed'
      /\ ReadyHasShards' /\ AttachedWasSealed'
  BY DEF BlobInv, NoteShard, IdsQueued, RestsEmpty, ConfirmsSealed, ReadyHasShards,
         AttachedWasSealed
<1>7. NoBlobStranded'
  BY DEF BlobInv, TypeOK, NoteShard, GoesTo, NoBlobStranded
<1> QED BY <1>4, <1>5, <1>6, <1>7 DEF BlobInv

\* A task hands its shards to the network and answers.
LEMMA GossipStep ==
    ASSUME BlobInv, NEW c \in Clients, Gossip(c)
    PROVE  BlobInv'
<1> USE DEF durable, pendingVars, ledger, history, bounds
<1>1. TypeOK'
  BY IdleStates DEF BlobInv, TypeOK, Gossip
<1>2. NotesShards'
  BY IdleStates DEF BlobInv, TypeOK, Gossip, NotesShards
<1>3. /\ IdsQueued' /\ RestsEmpty' /\ ConfirmsSealed'
      /\ ReadyHasShards' /\ AttachedWasSealed'
  BY DEF BlobInv, Gossip, IdsQueued, RestsEmpty, ConfirmsSealed, ReadyHasShards,
         AttachedWasSealed
<1>4. NoBlobStranded'
  BY DEF BlobInv, TypeOK, Gossip, NoBlobStranded
<1> QED BY <1>1, <1>2, <1>3, <1>4 DEF BlobInv

\* A chunk comes in by gossip: what it overwrites stays present, whatever it holds.
LEMMA IngestStep ==
    ASSUME BlobInv, NEW chunk \in Gossiped, IngestChunk(chunk)
    PROVE  BlobInv'
<1> USE DEF pendingVars, history, bounds
<1>2. /\ chunk.blob \in Blobs /\ chunk.index \in Index /\ Column(chunks')
      /\ \A x \in Blobs : DOMAIN chunks[x] \subseteq DOMAIN chunks'[x]
  BY PutChunk DEF BlobInv, TypeOK, Column, IngestChunk
<1>1. received' \in [Blobs -> SUBSET Index] /\ available' \subseteq Blobs
  BY <1>2, NoteTyped DEF BlobInv, TypeOK, IngestChunk
<1>3. TypeOK'
  BY <1>1, <1>2 DEF BlobInv, TypeOK, Column, IngestChunk
<1>4. ReadyHasShards'
  BY <1>2 DEF BlobInv, IngestChunk, ReadyHasShards
<1>5. /\ IdsQueued' /\ NotesShards' /\ RestsEmpty' /\ ConfirmsSealed'
      /\ AttachedWasSealed' /\ NoBlobStranded'
  BY DEF BlobInv, IngestChunk, IdsQueued, NotesShards, RestsEmpty, ConfirmsSealed,
         AttachedWasSealed, NoBlobStranded
<1> QED BY <1>3, <1>4, <1>5 DEF BlobInv

\* The queue goes to the proposer, whose hands were empty.
LEMMA DrainStep ==
    ASSUME BlobInv, Drain
    PROVE  BlobInv'
<1> USE DEF durable, ledger, history, bounds
<1>1. Range(queue) \subseteq Blobs
  BY QueueRange DEF BlobInv, TypeOK
<1>2. TypeOK'
  BY <1>1, EmptyQueue DEF BlobInv, TypeOK, Drain
<1>3. IdsQueued'
  BY EmptyQueue DEF BlobInv, Drain, IdsQueued
<1>4. RestsEmpty' /\ ConfirmsSealed'
  BY DEF Drain, RestsEmpty, ConfirmsSealed
<1>5. NotesShards' /\ ReadyHasShards' /\ AttachedWasSealed'
  BY DEF BlobInv, Drain, NotesShards, ReadyHasShards, AttachedWasSealed
<1>6. NoBlobStranded'
  BY EmptyQueue DEF BlobInv, Drain, RestsEmpty, NoBlobStranded
<1> QED BY <1>2, <1>3, <1>4, <1>5, <1>6 DEF BlobInv

\* Attached blobs are dropped from the batch; they are not Ready.
LEMMA FilterStep ==
    ASSUME BlobInv, Filter
    PROVE  BlobInv'
<1> USE DEF durable, pendingVars, ledger, history, bounds
<1>1. PICK skipped \in SUBSET {b \in proposer.batch : is_attached(b)} :
          proposer' = [pc |-> "seal", batch |-> proposer.batch \ skipped]
  BY DEF Filter
<1>2. TypeOK'
  BY <1>1 DEF BlobInv, TypeOK, Filter
<1>3. RestsEmpty' /\ ConfirmsSealed'
  BY <1>1 DEF RestsEmpty, ConfirmsSealed
<1>4. /\ IdsQueued' /\ NotesShards' /\ ReadyHasShards'
      /\ AttachedWasSealed'
  BY DEF BlobInv, Filter, IdsQueued, NotesShards, ReadyHasShards,
         AttachedWasSealed
<1>5. NoBlobStranded'
  BY <1>1 DEF BlobInv, Filter, NoBlobStranded, is_attached
<1> QED BY <1>2, <1>3, <1>4, <1>5 DEF BlobInv

\* The vertex is signed: from here on its blobs may be marked.
LEMMA SealStep ==
    ASSUME BlobInv, Seal
    PROVE  BlobInv'
<1> USE DEF durable, pendingVars, ledger, bounds
<1>1. /\ sealed' \in [Blobs -> Nat]
      /\ \A b \in Blobs : sealed'[b] >= sealed[b]
      /\ \A b \in proposer.batch : sealed'[b] > 0
  BY DEF BlobInv, TypeOK, Seal
<1>2. \/ proposer.batch = {} /\ proposer' = Resting
      \/ proposer' = [pc |-> "confirm", batch |-> proposer.batch]
  BY DEF Seal
<1>3. TypeOK'
  BY <1>1, <1>2, IdleStates DEF BlobInv, TypeOK, Seal
<1>4. RestsEmpty' /\ ConfirmsSealed'
  BY <1>1, <1>2, IdleStates DEF RestsEmpty, ConfirmsSealed
<1>5. IdsQueued' /\ NotesShards' /\ ReadyHasShards'
  BY DEF BlobInv, Seal, IdsQueued, NotesShards, ReadyHasShards
<1>6. AttachedWasSealed'
  BY <1>1 DEF BlobInv, TypeOK, Seal, AttachedWasSealed
<1>7. NoBlobStranded'
  BY <1>2, IdleStates DEF BlobInv, Seal, NoBlobStranded
<1> QED BY <1>3, <1>4, <1>5, <1>6, <1>7 DEF BlobInv

\* A blob of the batch is marked, or marking it fails.
LEMMA ConfirmStep ==
    ASSUME BlobInv, Confirm
    PROVE  BlobInv'
<1> USE DEF pendingVars, ledger, bounds
<1>1. PICK b \in proposer.batch :
          /\ \/ record' = put_attached(b) /\ UNCHANGED unmarked
             \/ unmarked' = unmarked \cup {b} /\ UNCHANGED record
          /\ proposer' = IF proposer.batch = {b} THEN Resting
                         ELSE [pc |-> "confirm", batch |-> proposer.batch \ {b}]
  BY DEF Confirm
<1>2. b \in Blobs /\ sealed[b] > 0
  BY <1>1 DEF BlobInv, TypeOK, Confirm, ConfirmsSealed
<1>3. /\ proposer' \in [pc : {"idle", "filter", "seal", "confirm"}, batch : SUBSET Blobs]
      /\ proposer'.batch = proposer.batch \ {b}
      /\ RestsEmpty'
  BY <1>1, IdleStates DEF BlobInv, TypeOK, RestsEmpty
<1>4. /\ record' \in [Blobs -> {"None", "Ready", "Attached"}] /\ unmarked' \subseteq Blobs
      /\ unmarked \subseteq unmarked'
      /\ \A x \in Blobs \ {b} : record'[x] = record[x]
      /\ record'[b] = "Ready" => record[b] = "Ready" /\ b \in unmarked'
  BY <1>1, <1>2 DEF BlobInv, TypeOK, put_attached
<1>5. TypeOK'
  BY <1>3, <1>4 DEF BlobInv, TypeOK, Confirm
<1>6. ConfirmsSealed'
  BY <1>3 DEF BlobInv, Confirm, ConfirmsSealed
<1>7. IdsQueued' /\ NotesShards'
  BY DEF BlobInv, Confirm, IdsQueued, NotesShards
<1>8. ReadyHasShards' /\ AttachedWasSealed'
  BY <1>2, <1>4 DEF BlobInv, Confirm, ReadyHasShards, AttachedWasSealed
<1>9. NoBlobStranded'
  BY <1>3, <1>4 DEF BlobInv, Confirm, NoBlobStranded
<1> QED BY <1>3, <1>5, <1>6, <1>7, <1>8, <1>9 DEF BlobInv

\* A crash leaves the two columns, and what has been signed.
LEMMA CrashStep ==
    ASSUME BlobInv, Crash
    PROVE  BlobInv'
<1> USE DEF durable
<1>1. TypeOK'
  <2>1. /\ up' \in BOOLEAN
        /\ received' \in [Blobs -> SUBSET Index] /\ available' \subseteq Blobs
        /\ queue' \in Seq(Blobs) /\ ids' \subseteq Blobs
        /\ unmarked' \subseteq Blobs /\ missed' \subseteq Blobs
    BY EmptyQueue DEF Crash
  <2>2. client' \in [Clients -> [pc : {"idle", "enqueue", "note", "gossip"}, blob : Blobs, next : 0 .. N]]
    BY IdleStates DEF Crash
  <2>3. proposer' \in [pc : {"idle", "filter", "seal", "confirm"}, batch : SUBSET Blobs]
    BY IdleStates DEF Crash
  <2>4. /\ record' \in [Blobs -> {"None", "Ready", "Attached"}] /\ Column(chunks')
        /\ sealed' \in [Blobs -> Nat] /\ submits' \in Nat /\ crashes' \in Nat
    BY DEF BlobInv, TypeOK, Column, Crash
  <2> QED BY <2>1, <2>2, <2>3, <2>4 DEF TypeOK, Column
<1>2. IdsQueued' /\ NoBlobStranded'
  BY DEF Crash, IdsQueued, NoBlobStranded
<1>3. NotesShards' /\ RestsEmpty' /\ ConfirmsSealed'
  BY IdleStates DEF Crash, NotesShards, RestsEmpty, ConfirmsSealed
<1>4. ReadyHasShards' /\ AttachedWasSealed'
  BY DEF BlobInv, Crash, ReadyHasShards, AttachedWasSealed
<1> QED BY <1>1, <1>2, <1>3, <1>4 DEF BlobInv

\* Boot recovery queues every Ready blob it can read, because all of them have their
\* shards.
LEMMA BootStep ==
    ASSUME BlobInv, Boot
    PROVE  BlobInv'
<1> USE DEF durable, pendingVars, ledger, history, bounds
<1>1. PICK unread \in SUBSET scan_ready :
          LET valid == {b \in scan_ready \ unread : validate_chunks(b)} IN
          /\ queue' = SetToSeq(valid)
          /\ ids' = valid
          /\ rehydrate_ledger(valid)
          /\ missed' = unread
  BY DEF Boot
<1> DEFINE valid == {b \in scan_ready \ unread : validate_chunks(b)}
<1>2. valid = {b \in Blobs : record[b] = "Ready"} \ unread
  BY DEF BlobInv, ReadyHasShards, scan_ready, validate_chunks, has_chunk
<1>3. /\ queue' = SetToSeq(valid) /\ ids' = valid
      /\ rehydrate_ledger(valid) /\ missed' = unread
  BY <1>1
<1>4. missed' \subseteq Blobs
  BY <1>3 DEF scan_ready
<1> HIDE DEF valid
<1>5. valid \subseteq Blobs
  BY <1>2
<1>6. queue' \in Seq(Blobs) /\ Range(queue') = valid
  BY <1>3, <1>5, SetToSeqLists
<1>7. 0 .. K - 1 \subseteq Index
  BY ShardCount, IndicesIn DEF Indices
<1>8. received' \in [Blobs -> SUBSET Index] /\ available' \subseteq Blobs
  BY <1>3, <1>5, <1>7 DEF rehydrate_ledger
<1>9. TypeOK'
  BY <1>3, <1>4, <1>5, <1>6, <1>8 DEF BlobInv, TypeOK, Boot
<1>10. IdsQueued'
  BY <1>3, <1>6 DEF IdsQueued
<1>11. /\ NotesShards' /\ RestsEmpty' /\ ConfirmsSealed'
       /\ ReadyHasShards' /\ AttachedWasSealed'
  BY DEF BlobInv, Boot, NotesShards, RestsEmpty, ConfirmsSealed, ReadyHasShards, AttachedWasSealed
<1>12. NoBlobStranded'
  BY <1>2, <1>3, <1>6 DEF Boot, NoBlobStranded
<1> QED BY <1>9, <1>10, <1>11, <1>12 DEF BlobInv

\* Nothing the invariant speaks of changes in a stuttering step.
LEMMA StutterStep ==
    ASSUME BlobInv, UNCHANGED vars
    PROVE  BlobInv'
<1> USE DEF vars, durable, pendingVars, ledger, history, bounds
<1>1. TypeOK'
  BY DEF BlobInv, TypeOK
<1>2. /\ IdsQueued' /\ NotesShards' /\ RestsEmpty' /\ ConfirmsSealed'
      /\ ReadyHasShards'
  BY DEF BlobInv, IdsQueued, NotesShards, RestsEmpty, ConfirmsSealed, ReadyHasShards
<1>3. AttachedWasSealed' /\ NoBlobStranded'
  BY DEF BlobInv, AttachedWasSealed, NoBlobStranded
<1> QED BY <1>1, <1>2, <1>3 DEF BlobInv

\* Every step of blob publishing keeps the invariant.
LEMMA InvInductive == BlobInv /\ [Next]_vars => BlobInv'
<1> SUFFICES ASSUME BlobInv, [Next]_vars PROVE BlobInv'
  OBVIOUS
<1>1. CASE \E c \in Clients, b \in Blobs : PublishAtomic(c, b)
  BY <1>1, PublishStep
<1>2. CASE \E c \in Clients : Publisher(c)
  BY <1>2, EnqueueStep, NoteStep, GossipStep DEF Publisher
<1>3. CASE \E chunk \in Gossiped : IngestChunk(chunk)
  BY <1>3, IngestStep
<1>4. CASE Proposer
  BY <1>4, DrainStep, FilterStep, SealStep, ConfirmStep DEF Proposer
<1>5. CASE Crash
  BY <1>5, CrashStep
<1>6. CASE Boot
  BY <1>6, BootStep
<1>7. CASE UNCHANGED vars
  BY <1>7, StutterStep
<1> QED BY <1>1, <1>2, <1>3, <1>4, <1>5, <1>6, <1>7 DEF Next

\* The invariant holds in every reachable state.
LEMMA InvAlways == Spec => []BlobInv
BY InitHolds, InvInductive, PTL DEF Spec

-----------------------------------------------------------------------------
(***************************************************************************)
(* The theorems.                                                           *)
(***************************************************************************)

\* Records, shards, queue, ledger and the tasks of blob publishing stay in their
\* domains; no task notes a shard beyond the last one.
THEOREM TypeCorrect == Spec => []TypeOK
BY InvAlways, PTL DEF BlobInv

\* A record is marked Attached only after a vertex with the blob was signed, so a
\* crash anywhere between drain_pending, the seal and confirm_attached loses no blob.
THEOREM AttachedOnlyAfterSeal == Spec => []AttachedWasSealed
BY InvAlways, PTL DEF BlobInv

\* A blob that is durably Ready is queued, about to be queued, in the proposer's
\* hands or was published without being marked, however RPC tasks, drains, crashes
\* and boot recovery interleave and whatever is gossiped, unless the last boot could
\* not read it.
THEOREM NothingStranded == Spec => []NoBlobStranded
BY InvAlways, PTL DEF BlobInv

-----------------------------------------------------------------------------
(***************************************************************************)
(* Availability.  The ledger calls a blob available while K of its shards  *)
(* are in the store, and only if decode_shards returned something for what *)
(* was noted; that undamaged shards decode to the payload is a fact about  *)
(* the code alone, AnyKDecode, which is algebra over GF(256) and not about *)
(* states.                                                                 *)
(***************************************************************************)

\* K shards of every available blob are in the store, and stay there.
LedgerStored == \A b \in available : Cardinality(DOMAIN chunks[b] \cap Indices) >= K

LedgerInv == BlobInv /\ LedgerStored

\* What the table of shards holds.
LEMMA ShardIs ==
    ASSUME NEW b \in Blobs, NEW i \in Indices
    PROVE  Shard[b][i] = encode_shards(b)[i + 1]
<1> DEFINE row(x) == [j \in Indices |-> encode_shards(x)[j + 1]]
           table == [x \in Blobs |-> Table(row(x))]
<1>1. Shard = Table(table)
  BY DEF Shard
<1>2. Table(table) = table
  <2> HIDE DEF table
  <2> QED BY TableIs
<1>3. table[b] = Table(row(b))
  OBVIOUS
<1>4. Table(row(b)) = row(b)
  <2> HIDE DEF row
  <2> QED BY TableIs
<1>5. row(b)[i] = encode_shards(b)[i + 1]
  OBVIOUS
<1> HIDE DEF table, row
<1> QED BY <1>1, <1>2, <1>3, <1>4, <1>5

\* What the table of decodings holds.
LEMMA DecodedIs ==
    ASSUME NEW b \in Blobs, NEW stored \in Stores(b)
    PROVE  Decoded[b][stored] = decode_shards(stored, Len(b))
<1> DEFINE row(x) == [F \in Stores(x) |-> decode_shards(F, Len(x))]
           table == [x \in Blobs |-> Table(row(x))]
<1>1. Decoded = Table(table)
  BY DEF Decoded
<1>2. Table(table) = table
  <2> HIDE DEF table
  <2> QED BY TableIs
<1>3. table[b] = Table(row(b))
  OBVIOUS
<1>4. Table(row(b)) = row(b)
  <2> HIDE DEF row
  <2> QED BY TableIs
<1>5. row(b)[stored] = decode_shards(stored, Len(b))
  OBVIOUS
<1> HIDE DEF table, row
<1> QED BY <1>1, <1>2, <1>3, <1>4, <1>5

\* What is stored of a blob, and any part of it, is in the tables.
LEMMA OnlyStored ==
    ASSUME NEW c, Column(c), NEW b \in Blobs, NEW S
    PROVE  /\ c[b] \in Stores(b)
           /\ Only(S, c[b]) \in Stores(b)
           /\ DOMAIN Only(S, c[b]) = S \cap DOMAIN c[b]
           /\ \A i \in S \cap DOMAIN c[b] : Only(S, c[b])[i] = c[b][i]
<1> DEFINE F == c[b]
           part == [i \in S \cap DOMAIN F |-> F[i]]
<1>1. DOMAIN F \in SUBSET Index /\ F \in [DOMAIN F -> Data(b)]
  BY DEF Column
<1>2. F \in Stores(b)
  BY <1>1 DEF Stores
<1>3. Only(S, F) = part
  BY DEF Only
<1> HIDE DEF F
<1>4. /\ DOMAIN part = S \cap DOMAIN F /\ DOMAIN part \in SUBSET Index
      /\ \A i \in S \cap DOMAIN F : part[i] = F[i]
      /\ part \in [S \cap DOMAIN F -> Data(b)]
  BY <1>1
<1>5. part \in Stores(b)
  <2>1. part \in [DOMAIN part -> Data(b)]
    BY <1>4
  <2> HIDE DEF part
  <2> QED BY <1>4, <2>1 DEF Stores
<1> HIDE DEF part
<1> QED BY <1>2, <1>3, <1>4, <1>5 DEF F

\* Sets of shards are finite, and a larger set has no fewer shards.
LEMMA ShardSets ==
    ASSUME NEW S \in SUBSET Indices, NEW T \in SUBSET S
    PROVE  /\ Cardinality(S) \in Nat /\ Cardinality(T) \in Nat
           /\ Cardinality(T) <= Cardinality(S)
<1>1. IsFiniteSet(Indices)
  BY ShardCount, FS_Interval DEF Indices
<1>2. IsFiniteSet(S)
  BY <1>1, FS_Subset
<1> QED BY <1>2, FS_Subset, FS_CardinalityType

\* All the shards are more than K.
LEMMA AllShards == Cardinality(Indices) = N
<1>1. Cardinality(0 .. N - 1) = IF 0 > N - 1 THEN 0 ELSE (N - 1) - 0 + 1
  BY ShardCount, FS_Interval
<1> QED BY <1>1, ShardCount DEF Indices

\* What decodes has no index the code does not have.
LEMMA DecodesInRange ==
    ASSUME NEW present, NEW len, decode_shards(present, len) # Failed
    PROVE  DOMAIN present \subseteq Indices
BY DEF decode_shards, Fits

\* A blob that noting a chunk makes available has K of the shards stored.
LEMMA NoteStored ==
    ASSUME NEW c, Column(c), NEW b \in Blobs, NEW i, note_chunk(b, i, c[b])
    PROVE  \A x \in available' \ available :
               x = b /\ Cardinality(DOMAIN c[b] \cap Indices) >= K
<1>1. CASE b \in available
  BY <1>1 DEF note_chunk, ledger
<1>2. CASE b \notin available
  <2> DEFINE noted == received'[b]
             stored == c[b]
  <2>1. available' = IF erasure_available(b, noted, stored) THEN available \cup {b} ELSE available
    BY <1>2 DEF note_chunk
  <2> HIDE DEF noted
  <2>2. ASSUME erasure_available(b, noted, stored)
        PROVE  Cardinality(DOMAIN stored \cap Indices) >= K
    <3>1. Cardinality(noted \cap DOMAIN stored) >= K /\ Decoded[b][Only(noted, stored)] # Failed
      BY <2>2 DEF erasure_available
    <3>2. Only(noted, stored) \in Stores(b) /\ DOMAIN Only(noted, stored) = noted \cap DOMAIN stored
      BY OnlyStored
    <3>3. Decoded[b][Only(noted, stored)] = decode_shards(Only(noted, stored), Len(b))
      BY <3>2, DecodedIs
    <3>4. noted \cap DOMAIN stored \subseteq Indices
      BY <3>1, <3>2, <3>3, DecodesInRange
    <3>5. noted \cap DOMAIN stored \in SUBSET (DOMAIN stored \cap Indices)
      BY <3>4
    <3>6. /\ Cardinality(DOMAIN stored \cap Indices) \in Nat
          /\ Cardinality(noted \cap DOMAIN stored) \in Nat
          /\ Cardinality(noted \cap DOMAIN stored) <= Cardinality(DOMAIN stored \cap Indices)
      BY <3>5, ShardSets
    <3> QED BY <3>1, <3>6, ShardCount
  <2> QED BY <2>1, <2>2
<1> QED BY <1>1, <1>2

\* A chunk is never taken out of the store, so the shards an available blob has stay.
LEMMA StoreGrows ==
    ASSUME LedgerInv,
           \A b \in Blobs : DOMAIN chunks[b] \subseteq DOMAIN chunks'[b],
           \A b \in available' \ available : Cardinality(DOMAIN chunks'[b] \cap Indices) >= K,
           available' \subseteq Blobs
    PROVE  LedgerStored'
<1> SUFFICES ASSUME NEW b \in available' PROVE Cardinality(DOMAIN chunks'[b] \cap Indices) >= K
  BY DEF LedgerStored
<1>1. CASE b \in available
  <2> DEFINE S == DOMAIN chunks[b] \cap Indices
             T == DOMAIN chunks'[b] \cap Indices
  <2>1. Cardinality(S) >= K
    BY <1>1 DEF LedgerInv, LedgerStored
  <2>2. T \in SUBSET Indices /\ S \in SUBSET T
    OBVIOUS
  <2> HIDE DEF S, T
  <2>3. /\ Cardinality(T) \in Nat /\ Cardinality(S) \in Nat
        /\ Cardinality(S) <= Cardinality(T)
    BY <2>2, ShardSets
  <2>4. Cardinality(T) >= K
    BY <2>1, <2>3, ShardCount
  <2> QED BY <2>4 DEF T
<1> QED BY <1>1

LEMMA LedgerNext == LedgerInv /\ [Next]_vars => LedgerInv'
<1> SUFFICES ASSUME LedgerInv, [Next]_vars PROVE LedgerInv'
  OBVIOUS
<1>1. BlobInv'
  BY InvInductive DEF LedgerInv
<1>2. /\ Column(chunks) /\ Column(chunks')
      /\ available' \subseteq Blobs
  BY <1>1 DEF LedgerInv, BlobInv, TypeOK, Column
<1>3. ASSUME UNCHANGED <<chunks, available>> PROVE LedgerStored'
  BY <1>2, <1>3, StoreGrows
<1>4. CASE \E c \in Clients, b \in Blobs : PublishAtomic(c, b)
  <2>1. PICK c \in Clients, b \in Blobs : PublishAtomic(c, b)
    BY <1>4
  <2>2. available' = available /\ chunks' = put_batch(b)
    BY <2>1 DEF PublishAtomic, ledger
  <2>3. \A x \in Blobs : DOMAIN chunks[x] \subseteq DOMAIN chunks'[x]
    BY <1>2, <2>2, PutBatch
  <2> QED BY <1>1, <1>2, <2>2, <2>3, StoreGrows DEF LedgerInv
<1>5. CASE \E c \in Clients : Publisher(c)
  <2>1. PICK c \in Clients : Publisher(c)
    BY <1>5
  <2>2. CASE Enqueue(c) \/ Gossip(c)
    BY <1>1, <1>3, <2>2 DEF Enqueue, Gossip, durable, ledger, LedgerInv
  <2>3. CASE NoteShard(c)
    <3> DEFINE b == client[c].blob
    <3>1. b \in Blobs /\ chunks' = chunks
      BY <2>3 DEF LedgerInv, BlobInv, TypeOK, NoteShard, durable
    <3>2. note_chunk(b, client[c].next, chunks[b])
      BY <2>3 DEF NoteShard
    <3> HIDE DEF b
    <3>3. \A x \in available' \ available : x = b /\ Cardinality(DOMAIN chunks[b] \cap Indices) >= K
      BY <1>2, <3>1, <3>2, NoteStored
    <3> QED BY <1>1, <1>2, <3>1, <3>3, StoreGrows DEF LedgerInv
  <2> QED BY <2>1, <2>2, <2>3 DEF Publisher
<1>6. CASE \E chunk \in Gossiped : IngestChunk(chunk)
  <2>1. PICK chunk \in Gossiped : IngestChunk(chunk)
    BY <1>6
  <2>2. /\ chunk.blob \in Blobs /\ \A x \in Blobs : DOMAIN chunks[x] \subseteq DOMAIN chunks'[x]
    BY <1>2, <2>1, PutChunk DEF IngestChunk
  <2> DEFINE b == chunk.blob
  <2>3. note_chunk(b, chunk.index, chunks'[b])
    BY <2>1 DEF IngestChunk
  <2> HIDE DEF b
  <2>4. \A x \in available' \ available : x = b /\ Cardinality(DOMAIN chunks'[b] \cap Indices) >= K
    BY <1>2, <2>2, <2>3, NoteStored DEF b
  <2> QED BY <1>1, <1>2, <2>2, <2>4, StoreGrows DEF LedgerInv
<1>7. CASE Proposer
  BY <1>1, <1>3, <1>7 DEF Proposer, Drain, Filter, Seal, Confirm, durable, ledger, LedgerInv
<1>8. CASE Crash
  BY <1>1, <1>8 DEF Crash, LedgerInv, LedgerStored
<1>9. CASE Boot
  <2>1. chunks' = chunks
    BY <1>9 DEF Boot, durable
  <2>2. ASSUME NEW b \in available' \ available
        PROVE  Cardinality(DOMAIN chunks'[b] \cap Indices) >= K
    <3>1. b \in Blobs /\ validate_chunks(b)
      BY <1>9, <2>2 DEF Boot, rehydrate_ledger, scan_ready
    <3>2. DOMAIN chunks[b] \cap Indices = Indices
      BY <3>1 DEF validate_chunks, has_chunk
    <3> QED BY <2>1, <3>2, AllShards, ShardCount
  <2> QED BY <1>1, <1>2, <2>1, <2>2, StoreGrows DEF LedgerInv
<1>10. CASE UNCHANGED vars
  BY <1>1, <1>3, <1>10 DEF vars, durable, ledger, LedgerInv
<1> QED BY <1>4, <1>5, <1>6, <1>7, <1>8, <1>9, <1>10 DEF Next

LEMMA LedgerAlways == Spec => []LedgerInv
<1>1. Init => LedgerInv
  BY InitHolds DEF Init, LedgerInv, LedgerStored
<1> QED BY <1>1, LedgerNext, PTL DEF Spec

\* What the ledger calls available can be read back: K of its shards are in the store
\* whatever peers gossiped and however often the node restarted, and while none of
\* what is stored is damaged it decodes to the payload, if any K shards of a blob do.
THEOREM AvailableMeansDecodable ==
    ASSUME AnyKDecode
    PROVE  Spec => []AvailableDecodes
<1>1. LedgerInv => AvailableDecodes
  <2> SUFFICES ASSUME LedgerInv, NEW b \in available
               PROVE  /\ Cardinality(DOMAIN chunks[b] \cap Indices) >= K
                      /\ (\A i \in DOMAIN chunks[b] : Genuine(b, i)) => Decoded[b][chunks[b]] = b
    BY DEF AvailableDecodes
  <2>1. b \in Blobs /\ Column(chunks)
    BY DEF LedgerInv, BlobInv, TypeOK, Column
  <2>2. Cardinality(DOMAIN chunks[b] \cap Indices) >= K
    BY DEF LedgerInv, LedgerStored
  <2>3. ASSUME \A i \in DOMAIN chunks[b] : Genuine(b, i) PROVE Decoded[b][chunks[b]] = b
    <3> DEFINE S == DOMAIN chunks[b]
    <3>1. S \subseteq Indices /\ S \cap Indices = S
      BY <2>3 DEF Genuine
    <3>2. \A i \in S : chunks[b][i] = encode_shards(b)[i + 1]
      BY <2>1, <2>3, <3>1, ShardIs DEF Genuine
    <3>3. chunks[b] = [i \in S |-> chunks[b][i]]
      BY <2>1 DEF Column
    <3>4. chunks[b] = ShardsOf(b, S)
      BY <3>2, <3>3 DEF ShardsOf
    <3>5. Decoded[b][chunks[b]] = decode_shards(chunks[b], Len(b))
      BY <2>1, OnlyStored, DecodedIs
    <3> QED BY <2>1, <2>2, <3>1, <3>4, <3>5 DEF AnyKDecode
  <2> QED BY <2>2, <2>3
<1> QED BY <1>1, LedgerAlways, PTL

-----------------------------------------------------------------------------
(***************************************************************************)
(* Availability challenges.                                                *)
(***************************************************************************)

\* The check of a response, whatever it holds, accepts with K shards or more only
\* the very shards of the blob that was committed to.
THEOREM OnlyTheShardsVerify ==
    ASSUME NEW b \in Blobs, NEW S, Cardinality(S) >= K, NEW T, NEW V,
           NEW response \in [T -> V],
           verify_availability_response(S, response, rs_merkle_commitment(encode_shards(b)), Len(b))
    PROVE  S \subseteq Indices /\ response = ShardsOf(b, S)
<1> DEFINE decoded == decode_shards(response, Len(b))
           full == encode_shards(decoded)
<1>1. /\ DOMAIN response = S
      /\ decoded # Failed
      /\ full = encode_shards(b)
      /\ \A i \in S : full[i + 1] = response[i]
  BY DEF verify_availability_response, rs_merkle_commitment
<1>2. S \subseteq Indices
  BY <1>1, DecodesInRange
<1> HIDE DEF full, decoded
<1>3. \A i \in S : response[i] = encode_shards(b)[i + 1]
  BY <1>1
<1>4. response = [i \in S |-> response[i]]
  BY <1>1
<1>5. response = [i \in S |-> encode_shards(b)[i + 1]]
  BY <1>3, <1>4
<1> QED BY <1>2, <1>5 DEF ShardsOf

\* K or more undamaged shards verify.
LEMMA ShardsVerify ==
    ASSUME AnyKDecode, NEW b \in Blobs, NEW S \in SUBSET Indices, Cardinality(S) >= K
    PROVE  verify_availability_response(S, ShardsOf(b, S),
                                        rs_merkle_commitment(encode_shards(b)), Len(b))
<1> DEFINE shards == ShardsOf(b, S)
<1>1. DOMAIN shards = S /\ \A i \in S : shards[i] = encode_shards(b)[i + 1]
  BY DEF ShardsOf
<1>2. decode_shards(shards, Len(b)) = b
  BY DEF AnyKDecode
<1>3. b # Failed
  <2>1. b \in Seq(Byte)
    BY BlobsFit
  <2>2. Failed = <<-1>> /\ Failed[1] = -1 /\ Len(Failed) = 1
    BY DEF Failed
  <2>3. Len(b) = 1 => b[1] \in Byte
    BY <2>1
  <2> QED BY <2>2, <2>3 DEF Byte
<1> HIDE DEF shards
<1>4. verify_availability_response(S, shards, rs_merkle_commitment(encode_shards(b)), Len(b))
  BY <1>1, <1>2, <1>3 DEF verify_availability_response, rs_merkle_commitment
<1> QED BY <1>4 DEF shards

\* What the table of checks holds.
LEMMA AcceptsIs ==
    ASSUME NEW b \in Blobs, NEW stored \in Stores(b)
    PROVE  Accepts[b][stored] = Accepted(b, stored)
<1> DEFINE row(x) == [F \in Stores(x) |-> Accepted(x, F)]
           table == [x \in Blobs |-> Table(row(x))]
<1>1. Accepts = Table(table)
  BY DEF Accepts
<1>2. Table(table) = table
  <2> HIDE DEF table
  <2> QED BY TableIs
<1>3. table[b] = Table(row(b))
  OBVIOUS
<1>4. Table(row(b)) = row(b)
  <2> HIDE DEF row
  <2> QED BY TableIs
<1>5. row(b)[stored] = Accepted(b, stored)
  OBVIOUS
<1> HIDE DEF table, row
<1> QED BY <1>1, <1>2, <1>3, <1>4, <1>5

\* An answer of K or more of the chunks the store lists of a blob verifies exactly
\* when each of them is the shard encode_shards made, whatever chunks were gossiped
\* and stored: a damaged one is never taken for the blob, and an undamaged answer is
\* never refused, if any K shards decode.
THEOREM ChallengesAnswered ==
    ASSUME AnyKDecode
    PROVE  Spec => []ResponsesVerify
<1>1. TypeOK => ResponsesVerify
  <2> SUFFICES ASSUME TypeOK, NEW b \in Blobs, NEW S \in SUBSET list_chunk_refs(b),
                      Cardinality(S) >= K
               PROVE  Accepts[b][Only(S, chunks[b])] <=> \A i \in S : Genuine(b, i)
    BY DEF ResponsesVerify
  <2> DEFINE answer == Only(S, chunks[b])
             accepted == verify_availability_response(S, answer,
                             rs_merkle_commitment(encode_shards(b)), Len(b))
  <2>1. Column(chunks)
    BY DEF TypeOK, Column
  <2>2. S \subseteq DOMAIN chunks[b] /\ S \cap DOMAIN chunks[b] = S
    BY DEF list_chunk_refs, has_chunk
  <2>3. /\ answer \in Stores(b) /\ DOMAIN answer = S
        /\ \A i \in S : answer[i] = chunks[b][i]
    BY <2>1, <2>2, OnlyStored
  <2>4. answer = [i \in S |-> chunks[b][i]] /\ answer \in [S -> {chunks[b][i] : i \in S}]
    BY <2>2 DEF Only
  <2> HIDE DEF answer
  <2>5. Accepts[b][answer] = accepted
    BY <2>3, AcceptsIs DEF Accepted
  <2>6. ASSUME accepted PROVE \A i \in S : Genuine(b, i)
    <3>1. S \subseteq Indices /\ answer = ShardsOf(b, S)
      BY <2>4, <2>6, OnlyTheShardsVerify
    <3>2. \A i \in S : chunks[b][i] = encode_shards(b)[i + 1]
      BY <2>3, <3>1 DEF ShardsOf
    <3> QED BY <3>1, <3>2, ShardIs DEF Genuine
  <2>7. ASSUME \A i \in S : Genuine(b, i) PROVE accepted
    <3>1. S \in SUBSET Indices /\ \A i \in S : chunks[b][i] = encode_shards(b)[i + 1]
      BY <2>7, ShardIs DEF Genuine
    <3>2. answer = ShardsOf(b, S)
      BY <2>4, <3>1 DEF ShardsOf
    <3> QED BY <3>1, <3>2, ShardsVerify
  <2> HIDE DEF accepted
  <2> QED BY <2>5, <2>6, <2>7 DEF answer
<1> QED BY <1>1, TypeCorrect, PTL

=============================================================================
