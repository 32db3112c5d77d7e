# TLA+ models of lua-dag-consensus

The repository implements LUA-DAG, a data-availability consensus in Rust: a
certified DAG of vertices (L1), a Bullshark-style ordering of that DAG (L2) and
a finality gadget on top of the ordering (L3). These modules model the
consensus crate (`src/crates/consensus`), whose `StateMachine::step` is a
deterministic function from events to actions; the node process around it, with
its channels, timers, database, gossip codecs and boot; the blob publisher with
its erasure code; and the simulator. TLC checks the models on small instances;
TLAPS proves the safety of L1, L2 and L3, of Mode A on the simulator's bus, of
the node host and of blob publishing for every instance.

## 1. The system

A node is one `StateMachine` with three books, driven by the host:

    gossip --events--> Orchestrator --> StateMachine::step --actions--> gossip
      timers ----------^   (LiveDag)        L1 -> L2 -> L3      +-----> timers, storage

| component | state | operations | interacts with |
|---|---|---|---|
| **L1 vertex certification** `vertex_cert/` | `VertexBook`: current round, own proposal and its signers, `proposals_seen`, `voted`, certified vertices per round, round timer | `genesis_propose`, `on_vertex_proposal`, `on_vertex_partial`, `on_certified_vertex`, `on_timer_fired` | proposals, partials and certificates over gossip; drains pending blobs |
| **L2 Bullshark** `bullshark/` | `WaveBook`: committed waves, slow-path timers; `EmittedSet` | `on_certified_vertex`, `on_timer_fired`, `on_micro_qc_assembled` (changes nothing) | reads the host's `LiveDag` and beacon; hands `MicroQc`s to L3 within one step |
| **L3 macro finality** `macro_fin/` | `MacroBook`: micro ring, candidates, partials, lock, two-chain rule, Mode B and backup timers, reputations, leak counter | `on_local_micro_qcs`, `on_macro_proposal`, `on_bls_partial`, `on_macro_qc_received`, `on_subnet_aggregate`, `on_timer_fired` | proposals, partials and MacroQcs over gossip; moves the beacon that L2 and L3 draw from |
| **slashing** `slashing/` | none | scans for equivocation, double votes, surround votes; inactivity leak; penalties | called by the handlers of L1 and L3 |
| **node host** `apps/node` | bounded event, action and schedule channels, timer registry, `LiveDag`, `ChainedBeacon`, configuration | configuration layers, boot gates, ingest, step, dispatch, timer tasks | everything |
| **blob custody** `apps/node/src/blob`, `crates/dag/src/blob` | pending queue, custody ledger; ready and attached records and shards in RocksDB | publish, ingest of gossiped shards, drain, confirm, boot recovery | L1 drains it when it proposes |
| **DAG crate** `crates/dag` | none | quorum arithmetic, certificates, Reed-Solomon code, availability challenges | L1, host, blobs |
| **storage** `crates/storage` | one column family per kind of record | typed puts and gets; blob status only rises | host, blobs, queries |
| **network** `crates/net` | gossip swarm, subscriptions | codecs between actions, topics, messages and events | host |
| **crypto** `crates/crypto` | none | signatures, aggregates, bitmaps, sortition | everything |
| **simulator** `apps/sim` | `World`: machines, one bus, one timer queue, one clock, partition, adversaries | `tick_round` | runs the state machines without a host |
| **command line** `apps/cli` | none | prints the database | |

What is hard about it, and where it bites, is the list `hazards` of
`PROJECT.json`. In short: each validator forgets old rounds while old messages
are still admissible; a candidate of L3 is replaced while votes for it travel;
three things decide what a validator signs at a height (proposal, Mode B, lock);
the anchor and the proposer are drawn from a beacon that moves at a different
time at every validator; a timer may fire before what it waits for; nothing of
the books survives a restart; messages are lost; the host's channels fill up and
three layers share timer ids; a crash falls between two actions of one step, or
between draining a blob and marking it attached; and an aggregate overtakes the
partials it is checked against.

What makes the parts correct:

* L1: one vote per author and round; one certified vertex per author and round;
  certified vertices have certified parents, a quorum of them if their author is
  correct; nobody correct is accused; a round that is complete is left, and one that
  is not has its timer.
* L2: a wave is decided once; a checkpoint is the whole history of its anchor;
  a committed anchor stays in the history of every correct author; a wave that has
  support commits.
* L3: one vote per height; one MacroQc per height; MacroQcs form a chain, and what
  is final is on it; the tier of a checkpoint does not fall; heights get votes
  without their proposer.
* Host: what a crash leaves on disk can be found again; a timer that a layer
  waits for is somewhere; the own certificate comes back; peers understand what
  is sent.
* Blobs: what is durable is neither forgotten nor marked as published before it
  is; what is called available is there; a damaged shard is noticed in an answer.
* Mode A: a certificate merged from subnets carries a global quorum, and there
  is one.

## 2. The modules

| module | models | extends |
|---|---|---|
| `VertexCert` | L1, all handlers, any number of honest and faulty validators, lists of parents that may name one twice | |
| `VertexLoss` | L1 over links that lose messages | `VertexCert` |
| `VertexCertProofs` | theorems about `VertexCert`: votes, certificates, the DAG they make up, evidence, timers | `VertexCert`, TLAPS |
| `Bullshark` | L2, all handlers, over a given certified DAG | |
| `BullsharkProofs` | theorems about `Bullshark` | `Bullshark`, TLAPS |
| `MacroFin` | L3 below `subnet_flat_threshold`: Mode 0, backup proposer, Mode B; any number of validators that restart and forget | |
| `MacroLog` | what L3 promises: a replicated log of checkpoints that only grows | |
| `MacroFinProofs` | theorems about `MacroFin`: votes, agreement, slashing | `MacroFin`, TLAPS |
| `MacroLogProofs` | the same: two-chain rule, leak, tiers, windows, refinement of `MacroLog`, agreement on what is final, accusations | `MacroFinProofs` |
| `MacroDelivery` | L3 with every message delivered exactly once, for liveness | `MacroFin` |
| `MacroDeliveryProofs` | `MacroDelivery` implements `MacroFin` | `MacroDelivery`, `MacroLogProofs` |
| `ModeA` | the L3 handlers with subnet aggregates, one height | |
| `SimWorld` | the simulator's `World::tick_round`, running `ModeA` | `ModeA` |
| `SimWorldProofs` | theorems about `SimWorld` | `SimWorld`, TLAPS |
| `Certificate` | bitmaps, aggregates, vertex certificates | |
| `Wire` | topics, subscriptions, both gossip codecs | |
| `Storage` | column families, keys, queries | |
| `Node` | the node process | `Certificate`, `Wire`, `Storage` |
| `NodeProofs` | theorems about `Node` | `Node`, TLAPS |
| `Erasure` | GF(256), Reed-Solomon, commitments, availability responses | |
| `Blob` | blob publishing, custody and recovery of one node | `Erasure` |
| `BlobProofs` | theorems about `Blob` | `Blob`, TLAPS |
| `MC*` | the values TLC gives the constants | the module they check |

`MacroFin` is shown to implement `MacroLog` (`ImplementsLog`, an `INSTANCE` with
a refinement mapping; checked by TLC and proved), and `MacroDelivery` to implement
`MacroFin` (proved). The compositions are `SimWorld` (Mode A, the bus and the
timers) and `Node` (the three layers behind `StateMachine::step`, with codecs,
storage, channels and timers). The layers meet in theorems: what `Bullshark` assumes
of the DAG is proved of `VertexCert`, and what `MacroFin` assumes of L2 is proved
of `Bullshark` (section 4).

`PROJECT.json` maps every definition to the lines it stands for. Definitions
keep the names of the Rust functions where they model one (`on_vertex_proposal`,
`try_commit_wave`, `should_assemble_qc`); a handler whose branches change
different state is a disjunction of named actions
(`on_bls_partial == CollectPartial \/ AssembleQc`). A branch that returns
without a change is a stuttering step and has no action.

### Abstractions

* **Hashes do not collide and bind their content**, as they are made by this code. A
  vertex of L1 is its round, author and payload, with its parents beside it; a macro
  checkpoint is the sequence of the windows of its chain; a micro checkpoint is the
  linearization itself. Nothing else about hashes is used except, in L2, a total order.
* **Signatures are unforgeable**, and those that are checked are genuine.
* **Who may fail, and how.** In L1 faulty validators run any code: they sign anything,
  which is why their signatures are always available (`Signers`), and propose what
  `FaultyProposal` lists, with any list of parents. In L3 every message comes from
  this code. A validator is honest, down, or *forgetful*: it restarts whenever it
  likes with an empty book (`runtime.rs:89`), and so over its lives may propose and
  sign anything that `build` can make. Senders that run other code are left out of
  L3 because its receivers do not check what safety needs: `verify_macro_qc`
  (`verify.rs:112`) verifies the aggregate and does not count who signed, and
  `on_macro_proposal` (`mod.rs:360`) compares height, parent and root of a proposal
  with its own candidate and does not compute the hash from them. That a MacroQc
  carries a quorum and that a hash binds height and parent is therefore what
  `try_finalize_mode0` and `build` do at the sender, and the agreement of L3 is claimed
  on those terms and no others.
* **Certificates.** For L1 `Certificate` has what is checked: the length of the bitmap,
  the quorum, and an aggregate which is a bag of signatures, so that bits in the
  padding and signers counted twice are distinct from what they imitate.
* **The network** of `VertexCert` and `MacroFin` is the set of what was ever
  sent, from which anything may arrive anywhere any number of times, in any
  order, or never. `VertexLoss` and `MacroDelivery` narrow it down where
  a liveness property needs it.
* **Time** is abstracted: a timer may fire any moment after it was armed.
* **Beacon and sortition.** L3's beacon is chained on every MacroQc that is
  adopted, so the last adopted checkpoint names it; L2 counts how often it
  moved. The sortition is an operator of height (or wave), beacon and
  reputations; the instances use round robins, over the beacon in L2 and over height and reputations in L3, so
  that validators with different reputations follow different schedules.

### VertexCert

`book[n]` is the `VertexBook` of honest validator `n`; `proposals`, `partials`,
`certs` and `evidence` are everything broadcast. `maybe_advance` is a loop in the
code that can cross several rounds in one event; `AdvancesTo` gives the round in
which it ends and `Advanced` the book after it, with a proposal for each round
crossed and with `voted` and `proposals_seen` pruned as the code prunes them. Honest
validators drain payloads from a set given per validator.

A proposal lists hashes of parents, and the voters compare the length of the list with
the quorum (`vertex_cert/mod.rs:117`) and look every entry up; they do not ask that the
entries differ. In the model `parents` is the set the list names and `repeats` the number
of entries that name a parent again. A faulty author may thus get a vertex certified over a single
parent, and `CausalHistory` claims a quorum of parents for honest authors only: those
propose over distinct ones (`Distinct`).

The validator sets have at least four members. With one to three validators a
proposal certifies itself inside `propose_round`
(`vertex_cert/mod.rs:278`), which calls `maybe_advance`, which proposes again,
without end.

### Bullshark

The certified DAG is given: `Dags` is the set of maps from vertices to parents
that L1 may certify, one of which `Init` picks. Vertices of `Correct` authors have a
quorum of parents, the others at least one (`DagAssumption`), which is what L1
gives; `ShortcutStaysInHistory` is about the vertices of `Correct` authors. `Deliver` is the orchestrator's
ingest followed by the step; `Late` says which vertices may be overtaken by
their descendants. One event tries every undecided wave up to that of the
vertex; the waves do not interfere, so the action treats them as a set and puts
what is emitted in the order of the loop. `emitted` is what is broadcast.

An observation the model makes plain: the anchor of wave 0 has no parents, its
closure has one author, and so wave 0 commits and never emits, although
`macro_fin/book.rs:28` counts it in the first window. The closure of a later
anchor includes everything back to genesis, where `docs/whitepaper.tex:343`
excludes the closure of the previous anchor.

### MacroFin

`book[n]` is the `MacroBook` with the timers, votes and two-chain rule it owns.
Maps from heights are sets with one checkpoint per height and options are sets
with at most one element (`IsMap`, `IsOption` in `TypeOK`). `emitted` is L2's
`EmittedSet`: a micro checkpoint is handed over once, in any order, which covers
every order in which waves commit. Adoption (`Adopted`) is the code's
`finish_macro_qc_adoption`: two-chain rule, tiers, leak counter, reputations,
next height. The two copies of it, in `on_bls_partial` and
`on_macro_qc_received`, have the same effect on the state.

The refinement mapping to `MacroLog`: `certified` is the set of checkpoints with
a MacroQc on the wire, `view[n]` the last checkpoint validator `n` has adopted,
`final[n]` the last one its two-chain rule calls final. A checkpoint is the
sequence of the windows of its chain, so a prefix is an ancestor, and that every
step maps to `Certify`, `Adopt` or both says: one checkpoint per height, each on
top of the last, adopted in order by everyone, final only behind what is
adopted and never taken back.

### ModeA and SimWorld

`ModeA` gives for each handler the new book and the actions it returns, as the
code does; `SimWorld` runs N books on the simulator's bus. The code handles a
tick in nested calls (deliver, step, apply, which may step again); `agenda` is
the call stack. The random generator is replaced by a choice: each message may
be dropped, duplicated or delayed, at most `MaxFaults` of them. The partition
between {0, 1} and {2, 3}, if there is one, is up until tick `HealAt`, and two
adversaries (withhold the anchor's vertex, drop the primary's macro proposals)
are on or off from the start. L1 and L2 of the machines are reduced to the tick in which
they fill the window.

### Node

`Node` is one process: `Boot` with the configuration layers and the gates of
`runtime.rs`; `Inbound`, the swarm task and the fan-in task as one lossy step;
`Process`, one event through ingest and `StateMachine::step`; `Dispatch`, one
action at a time, because each is awaited on its own and a crash may fall in
between; `ScheduleEvent` and `Fire`, the timer loop and its tasks; `Crash`. The
layers are their interface to the host: what they may answer an event with, in
the order `step` asks them, and the timers their books wait for; which of these
answers is chosen is left open where it depends on the books that `VertexCert`,
`Bullshark` and `MacroFin` model. A full channel drops what is offered with
`try_send` and blocks the sender otherwise, as at each place in the code.
`lost` records what a full channel, a failed write or a shared timer id has cost, for the
properties to say exactly what can be lost, and by what.

Any write may fail (`Apply`): the orchestrator logs it (`orchestrator.rs:98`) and goes on with
the next action; a certificate that cannot be ingested is not stepped on
(`orchestrator.rs:132`). In `Storage` the column of checkpoints is keyed by height and that
of their certificates by hash (`macro_store.rs`). `latest_finalized` finds a certificate
through the checkpoint of its height, so two things hide one: the write of its
checkpoint failed (`unstored`), or a restarted node adopted and stored another
checkpoint of the height. `FinalizedVisible` says that nothing else does.

### Blob and Erasure

`publish_payload` is split where it awaits: the atomic write of shards and Ready
record, queueing, noting shard by shard, gossiping. `propose_round` is split where a
crash leaves something different on disk: drain, re-check of the store, seal,
confirm. Writes may fail where the code handles a failure, and boot recovery skips
what it cannot read (`missed`).

`BlobCustody::run` stores a gossiped chunk as it comes: `Gossiped` lists chunks with the
right bytes, with other bytes or another length, and with an index beyond the code, and
each overwrites what was stored under its index, the node's own shard included. The
properties say what is left of availability and of challenges then: `AvailableDecodes`
promises K shards in range, and their decoding to the payload while nothing stored is
damaged; `ResponsesVerify` that an answer is accepted exactly if every shard in it is
genuine. The code over GF(256)
is computed for real: a field with tables of logarithms, the systematic matrix,
inversion by elimination; so `AvailableDecodes` really decodes. `Table` makes TLC
evaluate a function once and keep it; it is the function itself (`TableIs`).

## 3. What is checked

Four validators in every run, so a quorum is three; who is in neither `Honest`
nor `Faulty` or `Forgetful` is down.

| run | instance | shows |
|---|---|---|
| `vertex_equivocation` | two honest, one faulty validator that signs two vertices in a round and builds on any three vertices below, certified or not, or on one of them listed three times; rounds 0 to 2 | `TypeOK`, `OneVotePerSlot`, `CertUnique`, `CausalHistory`, `NoHonestAccused` |
| `vertex_single` | one honest validator, three peers that are a round ahead; several rounds are crossed in one event | `ProposesEveryRoundOnce`, `FallbackTimerArmed` |
| `vertex_loss_proposal` | three honest validators, proposals get lost | `RecoversFromLoss`: the re-broadcast of the round timer makes up for it |
| `micro_order` | one validator, rounds 0 to 7, five DAGs, the beacon moves once | `TypeOK`, `OneDecisionPerWave`, `EmitsWholeHistory`, `ShortcutStaysInHistory`, `EveryWaveCommits` |
| `macro_chain` | two heights, two honest validators whose reputations diverge, one that restarts and forgets, replaced candidates and Mode B | `TypeOK`, `OneVotePerHeight`, `MacroAgreement`; `FinalsAgree`: what validators have adopted or call final lies on one chain; `ImplementsLog`: the refinement of `MacroLog` |
| `macro_single` | one validator, windows of two, peers that disagree on the window | `NoMicroTwice`, `LeakMeasuresLag`, `VotesNeverSlashable`, `TierNeverFalls` |
| `macro_mode_b` | the primary is down, exactly-once delivery | `EveryHeightVoted` |
| `macro_stall` | the same with a second window | violation of `SomeQc` |
| `sim_mode_a` | four validators in two subnets of two on the simulator's bus | `QcHasQuorum`, `OneQcPerCheckpoint`, `NothingOverdue`, `EveryoneAdopts` |
| `node_host` | one node, seven command lines, forged certificates, writes that fail, a crash | `TypeOK`, `NoForkedVertex`, `TimersSurvive`, `OwnCertReturns` |
| `node_storage` | two checkpoints of one height, two databases, the subnet count derived and configured below `Ke`, writes that fail, a crash | `FinalizedVisible`, `PeersUnderstand`, `StatusNeverFalls` |
| `blob_custody` | two RPC tasks, two payloads, a resubmission, gossiped chunks that are genuine, damaged and out of range, a crash | `TypeOK`, `NoBlobStranded`, `AttachedWasSealed`, `AvailableDecodes`, `ResponsesVerify`, `EveryBlobSealed` |

Why the bounds are enough. The L1 invariants relate two votes, two certificates
or a vertex and its parents: an author that signs twice
and a round above it are what it takes to violate them; round 2 is there because
a validator that enters it forgets round 0. For L2 the
waves keep their four rounds, and both windows their configured lengths (two
and four); two waves are the least for which anything is emitted. Four of the
DAGs are the ways in which an anchor can win its supporters: at once, in two
rounds, one per round (slow path only); in the fifth one author references only its
own vertices, the least that L1 certifies. A checkpoint being the linearization of
the whole DAG above an anchor implies that any two validators agree on it, so
one validator suffices. For L3, two micro windows at one height give replaced
candidates, and two heights give the two-chain rule something to finalize. In `macro_chain` the
forgetful validator signs and assembles again, and two conflicting proposals come from
honest proposers whose candidates were replaced; what forgetful ones propose again is in
`macro_single`.
Symmetry is used on micro checkpoints where nothing but equality is asked of them.

For the host, channels of two events and one timer are full after two or three
steps, so what happens at the limits of 1024 and 256 happens; two timers per
layer are the least for which an id of one layer is cancelled by another while
still awaited; two rounds let the node propose, certify and advance; two gossiped
messages bring the good and a forged certificate of one slot. For `node_storage`, two
contents of one checkpoint are the least for which a restarted node overwrites
what it stored, which may be what the older database holds, and three gossiped messages
fill the window, have a vote and adopt; with two subnets and a count of one the partials of the
second subnet are the unheard ones. For blobs, two of
three shards decode, one payload spans both data shards and one is padded; two
RPC tasks with a submission each race on the same payload or use different ones,
and one crash falls anywhere. Of the long payload the gossiped chunks suffice to decode, one index
of it comes genuine and damaged in any order; the short one gets a shard of another
length and one with an index the code does not have. TLC also evaluates that any K shards
of the payloads decode (`AnyKDecode`, as the assumption `CodeDecodes` of `MCBlob`). For Mode A, two subnets of two are the smallest in
which a subnet quorum (one) is less than the subnet and two subnet quorums are
less than a global quorum (three); two imperfect messages delay a partial behind
its aggregate and lose another.

The L1 runs and the blob run check for deadlock, and there is none: something can
always be delivered again, and a round proposed. The others do not: with bounded
rounds, heights, windows, ticks and messages a behaviour may end there.

### Fairness

Safety runs assume none. `VertexLoss` and `Bullshark`: weak fairness of delivery
of what is not lost and of armed timers (the host sleeps for the delay
and sends the event, `apps/node/src/timer.rs`). `MacroDelivery`: weak fairness
of emission by L2, of delivery and of timers, per validator; a message is
delivered once, because gossip drops duplicates and the code does not send
anything again. That is the best a network does, so a stall there is not the
network's fault. `PacedSpec` restricts the search for the counterexample to
behaviours in which a second window comes after everything the first one
started; those are fair behaviours of `DeliverySpec` too. `Node`: weak fairness
of `Process` and `Dispatch`; the orchestrator is one task of a running runtime
that never awaits anything else with work at hand. `Blob`: weak fairness of each
RPC task, of the proposer (rounds go on) and of `Boot` (an operator restarts a
node). `SimWorld`: weak fairness of `Next`; `World::run` is a loop.

### Where the code and its documentation disagree

Runs marked violation state what a comment or document says; `findings` quotes it.

* **Mode B can stall for good** (`macro_stall`). A MacroQc is assembled only when a
  partial arrives, and only by the smallest signer; when that one signs last,
  nobody assembles.

Seen while modelling, and not kept as runs of their own.

L1:
* A restart forgets votes: `runtime.rs:89` boots with empty books, so a validator
  signs a second vertex of a slot, against `vertex_cert/mod.rs:59`.
* With n other than 3f+1 (`dag/src/cert.rs:38`) 2f+1 signers need not intersect in
  an honest one, against `docs/whitepaper.tex:195`.
* The list of parents is counted with its repetitions (`vertex_cert/mod.rs:117`), so a
  vertex whose author names one parent three times is certified; `docs/whitepaper.tex:301`
  has a vertex wait for 2f+1 certified parents.
* A lost partial is never sent again (`vertex_cert/mod.rs:373`, against the vertex
  certificate design of 2026-06-04, lines 210-211).

L2:
* A slow-path commit never reaches L3: `TimerFired` (`state_machine.rs:104`) does
  not run `on_local_micro_qcs`, against `macro_fin/book.rs:24`.
* Validators whose beacons differ commit different anchors for a wave, and a
  vertex that was overtaken by its descendants makes for a different checkpoint
  (set `Late` in `Bullshark_order.cfg`), against `docs/whitepaper.tex:349`.
* Waves commit in any order (`bullshark/mod.rs:71`), so two validators' rings
  differ. `MacroFin` lets them.

L3:
* The receiver of a MacroQc does not count its signers (`macro_fin/verify.rs:112`), and that
  of a proposal does not compute the hash from the content (`macro_fin/mod.rs:360`).
  `docs/whitepaper.tex:195` claims safety against a third of Byzantine stake; what is
  shown here is safety against a third that restarts and forgets.
* A correct primary is accused of equivocation when its window fills again before
  the MacroQc (`macro_fin/mod.rs:271`, against `types/slashing.rs:17`). Nothing else
  gets it accused (`AccusedOnlyForRefills`).
* A MacroQc is dropped when its candidate was replaced (`macro_fin/mod.rs:607`).
* A validator that voted for another checkpoint of the height never finalizes the
  certified one, since a vote already enters the two-chain rule
  (`macro_fin/mod.rs:382`, against `two_chain.rs:45`).
* `verify_subnet_agg` asks for all partials named by an aggregate, so one that
  overtakes a partial is refused for good and Mode A stalls under jitter; an older
  aggregate overwrites a newer one; with `sim_force_ke` no Mode B timer helps out.
* `double_vote::verify` fixes the source of a vote to its target minus one.

Host and storage:
* A layer that fails drops the actions of the layers before it
  (`state_machine.rs:76`).
* Three layers hand out the same timer ids, against `macro_fin/timer.rs:9`; a
  cancel misses a timer that is still in the schedule channel. `TimersSurvive`
  says that nothing else costs a timer.
* The sequence number of slashing evidence restarts at zero, and evidence is
  overwritten, against `slash_store.rs:1`.
* `latest_finalized` looks at the first 128 heights only; `list_chunk_refs` at the
  first 64 indices.
* A certificate whose checkpoint was not written, or was replaced by another one of its height
  after a restart, is on disk and found by no query (`query.rs:48`).
* With `macro_subnet_count` configured below the number of subnets (`runtime.rs:127`) the node
  subscribes to fewer topics than partials are sent on, where the comment on
  `subscribe_set` (`swarm_runner.rs:380`) has every subnet subscribed; `PeersUnderstand` names the
  partials that nobody hears (`Unheard`).
* A validator set of an epoch other than 0 boots, and every step fails.
* After the shutdown signal the runtime waits for the orchestrator, which ends only
  when its channels close (`runtime.rs:254`).
* `LiveDag` and the beacon are not reloaded after a restart.
* The node is ready when as many listen addresses were observed as are configured,
  be they the configured ones or not (`swarm_runner.rs:173`, against line 10).

Blobs:
* Gossiped chunks are stored unverified (`blob/mod.rs:265`), which
  `docs/superpowers/specs/2026-07-19-l1-dataplane-verified-ingest-repair-design.md:32` plans to change:
  a damaged one overwrites the node's own shard, the answers it is part of are refused, and
  what is called available need not decode to the payload. One with an index beyond the
  code keeps its blob from being called available.
* `subscribe_set` never subscribes to `Topic::BlobChunk`, against
  `docs/superpowers/plans/2026-05-23-07b-l1-blob-custody.md:67`.
* `verify_availability_response` accepts fewer than K shards unchecked; hence the
  condition in `ResponsesVerify`.
* A second submission of a payload may enter the queue after the first one was
  attached, so the queue holds a blob whose record is not Ready, against
  `docs/superpowers/specs/2026-07-13-blob-atomic-publish-p1-design.md:106`; the
  drain re-checks and drops it.

Simulator: one timer queue for all machines, so ids of different machines collide
and every machine hears every timer; slashing evidence is not delivered.

## 4. What is proved

Every safety invariant and action property of the passing runs is a theorem: for
every set of validators, payloads, tasks and configurations, every bound and every
behaviour of faulty or forgetful validators and of gossip that the modules' `ASSUME`s
admit. TLC evaluates those assumptions in every run of the module
that states them. What a theorem needs beyond them is in its statement.

Two hypotheses recur. *n = 3f+1*: the code computes f as (n - 1) div 3 and asks for
2f+1 signers, and for other n two such sets need not share an honest validator.
*At most f faulty* in L1, *at most f forgetful* in L3, where all validators run this code
(section 2). Theorems without them hold however many there are. A third one, `AnyKDecode`, is about the erasure code
and explained with the blobs.

An invariant that says what matters is seldom inductive. For each group below, the
inductive invariant and what it adds.

### L1: `VertexCertProofs`

* `TypeCorrect`, `OneVote` (`OneVotePerSlot`). `VoteInv`: `voted` forgets, so a vote
  in a round that the validator still admits is in its `voted`, and its round is
  never behind what it has forgotten. The steps that matter are a vote, and an
  advance, which prunes exactly the rounds `round_in_window` no longer lets in.
* `CertificatesUnique` (`CertUnique`; n = 3f+1, at most f faulty). `CertInv`: collected
  partials were signed, and a certificate has 2f+1 signers. Two of those sets
  share an honest validator, who by `OneVote` signed one vertex of the slot.
* `EvidenceSound` (`NoHonestAccused`), `EveryRoundOnce` (`ProposesEveryRoundOnce`),
  `AlwaysArmed` (`FallbackTimerArmed`) and `ParentsAlwaysCertified` (`CausalHistory`;
  at most f faulty). `DagInv`: whoever signed has seen a long enough list of certified parents
  (`VotersChecked`), a slot of an honest author has one proposal (`HonestOnce`), what
  is in `proposals_seen` was proposed and what is in `certified_by_round` is certified,
  and a started validator has its timer and a round without a quorum. Then a
  certificate has an honest signer, and that one has checked the parents.
* `DagDelivered` (n = 3f+1, at most f faulty) is where L1 meets L2. `FormsDag`: name the
  certified vertices by round and author, as `Bullshark` does; then the parents of a
  vertex are certified vertices of the round below, at least one, and at least 2f+1 if
  its author is honest, none in round 0, and none is missing. That is `DagAssumption` of `Bullshark`
  for the DAG of any moment. It takes `CertUnique` (else two vertices share a name),
  `CausalHistory`, and that names are as many as the vertices they stand for (`NamesCount`).

### L2: `BullsharkProofs`

* `TypeCorrect`, `OneDecision` (`OneDecisionPerWave`), `ShortcutFinal`
  (`ShortcutStaysInHistory`, of the vertices of `Correct` authors; n = 3f+1, at most f
  authors that are not, a shortcut window of at most two rounds, which is the configured
  one), `WholeHistory` (`EmitsWholeHistory`; `Late` = {}: certificates
  arrive in causal order. Without that the property is false, see above).
* `OrderInv`: what the shortcut committed has its 2f+1 supporters in the DAG; when
  nothing is overtaken a validator has the parents of what it has, and has emitted
  linearizations of the whole DAG.
* The rest is about what the code computes. `vertex_reaches` and `closure_of_anchor`
  are recursive functions. Induction is done by least counterexample (`AllNumbers`, from
  the well-foundedness of the naturals), the existence of a recursively defined
  function is proved (`RecursionExists`) rather than assumed, and from there: 2f+1
  supporters in two rounds are f+1 of one of them, the quorum of parents of a `Correct` author's
  vertex in the next round meets those, and further up one of the parents is by such an
  author again (`SupportStays`, `ManyPathsStay`); the breadth-first queue has every vertex of the history
  once (`ClosureShape`, `ClosureWhole`); and it does not depend on the rest of the DAG
  (`ClosureSame`, `PastSame`), so two validators with different DAGs agree on it.
* `CheckpointsAgree` (n = 3f+1, at most f authors not `Correct`, window of at most two,
  `Late` = {}) puts these together
  for two validators. `CheckpointsNest`: their checkpoints of one anchor are the same
  sequence, and the one of an anchor that somebody committed by the shortcut is contained
  in every checkpoint that has a vertex of a `Correct` author above its window, whoever
  emits it. Paths compose
  (`PastTransitive`), so that an anchor brings its whole history along.
* `OneMicroQcPerWave`, without hypotheses: a validator emits one checkpoint at most per
  wave, overtaken vertices included. `EmittedByWave`, a part of `OrderInv`: what was emitted
  starts from anchors of decisions, each of another round. The emitted set of the code
  only excludes equal checkpoints; different ones of a wave are excluded because a
  decided wave is not evaluated again. It is why `on_local_micro_qcs` of `MacroFin` may
  take every micro checkpoint once.
* `HashAssumption`: the hashes of a round are strictly and totally ordered.

### L3: `MacroFinProofs`, `MacroLogProofs`, `MacroDeliveryProofs`

* `TypeCorrect`, `OneVote` (`OneVotePerHeight`), `NeverSlashable`
  (`VotesNeverSlashable`), `Agreement` (`MacroAgreement`; n = 3f+1, at most f forgetful).
  `SafeInv`: a candidate is adopted or stands on the last adopted checkpoint, timers
  run for the next height only, and what a validator has signed for the next height is
  what it has locked. The lock alone remembers one height; that nothing below it is
  signed again is because candidates of older heights are adopted ones.
* `LagMeasured` (`LeakMeasuresLag`) and `TiersRise` (`TierNeverFalls`). `FinalInv`: what
  the two-chain rule holds for the next height is its justified head and stands
  on the last adopted checkpoint, the finalized head is behind it, and what is
  justified or final is below the next height. `LagMeasured` supposes a leak trigger
  above 0: the default is 4, the configuration does not exclude 0, and with 0 the leak
  is announced before anything lags, at the first adoption.
* `MicrosOnce` (`NoMicroTwice`). `CoverInv`: every candidate has full windows, all of
  what L2 emitted, no micro checkpoint twice, and nothing that is still in the ring.
* `LogImplemented` (`ImplementsLog`; n = 3f+1, at most f forgetful): every step of L3 is
  `Certify`, `Adopt`, both or a stutter of `MacroLog`. `LogInv` adds that certified
  checkpoints have every length up to their number once: no height is certified
  before the one below.
* `FinalityAgreed` (`FinalsAgree`; n = 3f+1, at most f forgetful): of two checkpoints that two
  honest validators have adopted last, or call final, one is an ancestor of the other.
  `ChainInv` adds that any two certified checkpoints are so related (`Chained`). A new
  MacroQc has an honest signer, so its parent is the last adopted checkpoint of that one
  and certified; the new one is the only one of its height, hence the longest.
* `AccusedOnlyForRefills`: evidence against an honest validator holds two checkpoints with
  one parent and no micro checkpoint in common in their last windows, so it comes from a
  window that filled again. `RefillInv`: what a validator has proposed for its next height
  stands on the last adopted checkpoint, keeps the backup timer from proposing again
  (`proposal_seen`), and its window has left the ring for good.
* `DeliveryImplementsMacroFin`: `DeliverySpec => Spec`. In `MacroFin` any proposal or MacroQc
  there is may arrive; in `MacroDelivery` what is in an inbox arrives, so that the
  invariant is `NothingInvented` (`MessagesWereSent`): a proposal on its way has been made
  by its sender, a vote signed by its sender, a MacroQc assembled. So the stall
  of `macro_stall` is a behaviour of `MacroFin` with nothing lost, and what is proved of
  `MacroFin` holds there; `DeliveredFinalsAgree` says so of agreement.

### Mode A and the bus: `SimWorldProofs`

* `QuorumNamed` (`QcHasQuorum`), `OneQc` (`OneQcPerCheckpoint`), for every assignment to
  subnets, partition, adversary and number of faults. `SignInv`: whatever is in a book, on
  the agenda or on the bus names only validators that are locked, and there is one
  MacroQc, the primary's.
* `BusOrdered` (`NothingOverdue`), for every base delay, 0 included. `BusInv`: the bus is
  sorted, and outside delivery holds nothing older than the tick.

### Node: `NodeProofs`

* `TypeCorrect`, `TimersKept` (`TimersSurvive`), `PeersAlwaysUnderstand`
  (`PeersUnderstand`, whose one exception is `Unheard`; configured counts are natural
  numbers, `CountsParse`, as the configuration parses them).
  `NodeInv`: the witness of a surviving timer is a schedule action of the *same* layer,
  ids are handed out once per layer, no action cancels what its own layer waits for,
  and a node without a validator set of epoch 0 still has fresh books. The handlers are
  followed one by one (`Good`), since each adds to what the one before it answered.
* `StatusRises` (`StatusNeverFalls`), because only `put_monotonic` writes the column.
* `FinalizedFound` (`FinalizedVisible`; heights within `ScanLimit`, 128 in the code,
  beyond which the query does not look). `DiskInv`: a certificate on disk has a checkpoint
  at its height or one whose write failed, and one still to be stored has its
  checkpoint there, failed or before it in the list of actions, wherever dispatch has got to.
* `DagUnforked` (`NoForkedVertex`; n = 3f+1, all but f validators sign one vertex per
  slot, which is what `OneVote` of L1 gives for validators that do not restart).
  `Indexed`: what is in `LiveDag` has verified and is what the vertex column holds. A
  verified certificate has 2f+1 genuine signers although its bitmap may have padding
  bits and its aggregate signers counted twice.

### Blobs: `BlobProofs`

* `TypeCorrect`, `AttachedOnlyAfterSeal` (`AttachedWasSealed`), `NothingStranded`
  (`NoBlobStranded`). `BlobInv`: the queue's ids name only what is queued
  (`IdsQueued`), or else a resubmission would be turned away without being in the
  queue; the proposer drains with empty hands (`RestsEmpty`); it confirms what it has
  sealed (`ConfirmsSealed`); a Ready record has all its shards (`ReadyHasShards`), or
  else boot recovery would skip it.
* `AvailableMeansDecodable` (`AvailableDecodes`) and `ChallengesAnswered` (`ResponsesVerify`)
  suppose `AnyKDecode`: any K or more shards of a blob decode to it. That is the algebra of
  the Reed-Solomon code (its matrices are invertible, and elimination inverts them), a
  recursion over byte tables of GF(256) which is beyond the provers; TLC evaluates it for
  the instance. The theorems show what the rest of the code makes of it when chunks are
  stored as they are gossiped. `LedgerInv`: what is called available has K shards with an
  index of the code in the store (`LedgerStored`), through crashes and overwritten chunks,
  because `decode_shards` takes no other index (`DecodesInRange`).
* `OnlyTheShardsVerify` has no hypothesis on decoding at all: whatever a response holds, if
  it has K shards or more and is accepted, its indices are those of the code and it consists
  of the shards of the committed blob. A response is decoded from its first K shards only, but what they decode to is
  encoded again, and the commitment binds all shards.

### Only model-checked

* Liveness (`RecoversFromLoss`, `EveryWaveCommits`, `EveryHeightVoted`, `EveryoneAdopts`,
  `OwnCertReturns`, `EveryBlobSealed`): the prover handles neither fairness nor `ENABLED`.
* `AnyKDecode`, for the payloads and the code of the instance.
* The violation of `SomeQc` is a counterexample and needs no proof.

## 5. What is not modelled

* **The layers inside the node.** `Node` has the interfaces of the layers, not
  their books; `BlsPartialReceived` and `SubnetAggregateReceived` are modelled in
  `MacroFin`, `MacroDelivery` and `ModeA` only. The product of the books with the
  host is out of TLC's reach.
* **Restarts of L1 and L3** as steps of a validator's own: the code restores nothing of the
  books. A restarted validator is one of `Faulty` in `VertexCert` and of `Forgetful` in
  `MacroFin`: its messages are there, and nothing is claimed of it. `Node` and `Blob`
  have crashes of what is restored.
* **Senders of L3 that run other code**: section 2 says which checks the receivers lack.
* **Sortition arithmetic**, VRF proofs and subnet assignment are parameters of
  the modules: nothing but their being functions is used.
* **Cryptography** is idealised (nothing is forged, nothing collides), except for
  what an aggregate says of its bitmap.
* **Slashing penalties** are a constant table without a caller.
* **Stores without a caller** in the node: micro checkpoints, validator sets, vote
  books, two-chain state. `PeerManager`, `Publisher` and `IdentityMap` of the net
  crate have none either.
* **I/O**: libp2p, discovery, readiness, HTTP, metrics, logging, the shutdown
  signal, report files of the simulator and the command line.
* The simulator's mode with distributed vertices, whose handlers are in `VertexCert`.

## 6. Plan

The safety properties of all parts are proved, and the interfaces between L1, L2 and
L3. Left for later:

1. `AnyKDecode` for every K and number of shards. The recursive functions over GF(256)
   would have to be followed one by one, as those of `Bullshark` are, down to the tables.
2. A restart of L1 and L3 in `VertexCert` and `MacroFin` once the code restores something, and
   senders of L3 that run any code once receivers count signers and compute hashes.
3. Shorter proofs: the facts about sequences and queues in `SimWorldProofs` and
   `NodeProofs`, and about quorums in `VertexCertProofs` and `MacroFinProofs`, overlap.
