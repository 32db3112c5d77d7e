-------------------------------- MODULE Node --------------------------------
(***************************************************************************)
(* One validator process (apps/node): configuration and boot, the gossip   *)
(* swarm task, the fan-in task, the timer loop with its one-shot tasks, and *)
(* the orchestrator that steps the consensus state machine and dispatches  *)
(* its actions one by one.  The tasks run on a multi-threaded runtime and  *)
(* meet in bounded channels; a crash may fall between any two dispatched   *)
(* actions, and loses everything but the database.                         *)
(*                                                                         *)
(* The three layers of the state machine are modelled in VertexCert,       *)
(* Bullshark and MacroFin.  Here they are their interface to the host: the *)
(* actions a layer may answer an event with, in the order StateMachine::   *)
(* step asks them, and the timers their books wait for.                    *)
(***************************************************************************)
EXTENDS Certificate, Wire, Storage, Sequences, SequencesExt

CONSTANTS
    Self,           \* this validator's position
    Subnet,         \* the aggregation subnet it is assigned to
    Certs,          \* certified vertices that peers gossip, valid or not
    Proposals,      \* the proposals of one peer for one round
    Heights,        \* macro heights that peers gossip about
    Roots,          \* contents of checkpoints: what a full window may become
    Configs,        \* command lines: layers, flags, validator set file
    Databases,      \* what earlier lives of the node may have left on disk
    EventCap,       \* the events channel of the orchestrator (1024)
    ScheduleCap,    \* the schedule channel of the timer loop (256)
    MaxTimer,       \* bound on the timers a layer allocates
    MaxRound,       \* bound on the rounds L1 proposes
    MaxInbound,     \* bound on gossip messages
    MaxCrash        \* bound on crashes

ASSUME NodeAssumption ==
    /\ Self \in Index /\ Subnet \in 0 .. Ke - 1
    /\ {EventCap, ScheduleCap, MaxTimer} \subseteq Nat \ {0}
    /\ {MaxRound, MaxInbound, MaxCrash} \subseteq Nat
    /\ Heights \subseteq Nat

ASSUME DatabaseAssumption ==
    \A d \in Databases :
        /\ DOMAIN d = Columns
        /\ \A b \in DOMAIN d["blob_status"] : d["blob_status"][b] \in Accepted .. Finalized

VARIABLES
    phase,          \* "down", "refused", "running"
    cfg,            \* the command line, one of Configs
    db,             \* RocksDB
    events,         \* the orchestrator's events
    actions,        \* what the orchestrator has still to dispatch
    scheduleQ,      \* timers on their way to the timer loop
    tasks,          \* timer ids with a live task (TimerRegistry)
    sm,             \* the layers' books
    dag,            \* LiveDag: certified vertices in order of arrival
    beacon,         \* ChainedBeacon: the checkpoints chained so far
    seq,            \* RocksPersistence.seq
    inbound,        \* gossip messages so far
    crashes,        \* crashes so far
    lost,           \* history: certificates and timers of this boot that a
                    \* full channel, a failed write or another layer's cancel
                    \* has cost
    unstored        \* history: checkpoints whose last write has failed

queues == <<events, actions, scheduleQ>>
memory == <<tasks, sm, dag, beacon, seq>>
vars == <<phase, cfg, inbound, crashes, db, queues, memory, lost, unstored>>

Layer == {"L1", "L2", "L3"}
TimerId == 0 .. MaxTimer - 1
Up == phase = "running"

(****************************** Configuration ******************************)
(* A layer maps the keys it sets to their values.  Tables merge field by   *)
(* field and everything else is replaced, so the later layer wins per key. *)
merge_layers(stack) == FoldLeft(LAMBDA acc, l : l @@ acc, <<>>, stack)

Defaults ==
    [network_mode |-> "live", l3_wire_complete |-> FALSE, macro_subnet_count |-> 0]

(* NodeConfig::load: the identity label of the environment wins over the   *)
(* files.  A profile with no identity does not parse.                      *)
load(c) ==
    LET merged == merge_layers(c.stack) @@ Defaults
    IN  IF c.label = "" THEN merged ELSE ("label" :> c.label) @@ merged

Parses(c) ==
    LET p == load(c)
    IN  {"kind", "label"} \subseteq DOMAIN p /\ (p.kind = "devnet_seed" \/ c.skeleton)

(* The gate at the top of run_async.                                       *)
LiveGate(c) ==
    load(c).network_mode = "live" => c.skeleton \/ load(c).l3_wire_complete

(* DevSigner: the key of the environment wins over the one derived from    *)
(* the label, and must be the one the validator set lists.                 *)
devnet_bls_ikm(label) == <<"devnet", label>>
resolve_ikm(c) == IF c.bls_key = <<>> THEN devnet_bls_ikm(load(c).label) ELSE c.bls_key
load_for_label(c) == resolve_ikm(c) = c.members[load(c).label]

Refuses(c) ==
    \/ ~Parses(c)
    \/ ~LiveGate(c)
    \/ load(c).label \notin DOMAIN c.members
    \/ ~load_for_label(c)

(* The one validator set that CachedValidatorSet answers for; every layer  *)
(* asks for epoch 0.                                                       *)
set_for(c, epoch) == IF c.epoch = epoch THEN {c.members} ELSE {}

HasSwarm(c) == ~c.skeleton \/ load(c).network_mode = "live"

(*************************** The layers' interface *************************)
Act(k, b) == [kind |-> k, body |-> b]
Timed(k, id, l) == [kind |-> k, body |-> id, by |-> l]

(* A blob is named by half of the hash of its checkpoint.                  *)
Status(cp, t) == [kind |-> "UpdateBlobStatus", body |-> hash(cp), tier |-> t]

(* What the full window of a height may become, and what peers gossip.     *)
CandidateOf(h) == [height : {h}, root : Roots]
Checkpoints == [height : Heights, root : Roots]

Out(s, acts) == [sm |-> s, acts |-> acts]

FreshBooks ==
    [started |-> FALSE, round |-> 0, certified |-> {}, seen |-> {}, waves |-> 0,
     height |-> 0, cands |-> {}, proposal_seen |-> {}, voted |-> {}, adopted |-> {},
     armed |-> [l \in {"L1", "L2"} |-> {}], backup |-> <<>>, mode_b |-> <<>>,
     next |-> [l \in Layer |-> 0]]

(* The ids a layer waits for: L3 keeps one of each kind per height.        *)
Awaited(s, l) == IF l = "L3" THEN Range(s.backup) \cup Range(s.mode_b) ELSE s.armed[l]

(* An answer that allocates an id of the layer's own scheduler; L1 and L2  *)
(* wait for it.                                                            *)
CanArm(o, l) == o.sm.next[l] < MaxTimer
allocate(o, l) ==
    Out([o.sm EXCEPT !.next[l] = @ + 1],
        Append(o.acts, Timed("ScheduleTimer", o.sm.next[l], l)))
Arm(o, l) ==
    [allocate(o, l) EXCEPT !.sm.armed[l] = @ \cup {o.sm.next[l]}]
Disarm(o, l, ids) == [o EXCEPT !.sm.armed[l] = @ \ ids]

(* MacroTimerBook.  A height armed again forgets its old id.               *)
backup_propose_action(o, h) ==
    [allocate(o, "L3") EXCEPT !.sm.backup = Put(@, h, o.sm.next["L3"])]
mode_b_deadline_action(o, h) ==
    [allocate(o, "L3") EXCEPT !.sm.mode_b = Put(@, h, o.sm.next["L3"])]
clear_backup(o, h) == [o EXCEPT !.sm.backup = Restrict(@, DOMAIN @ \ {h})]
clear_mode_b(o, h) == [o EXCEPT !.sm.mode_b = Restrict(@, DOMAIN @ \ {h})]
height_for_backup_timer(s, id) == {h \in DOMAIN s.backup : s.backup[h] = id}
height_for_mode_b_timer(s, id) == {h \in DOMAIN s.mode_b : s.mode_b[h] = id}

Cancel(o, l) ==
    Out(Disarm(o, l, o.sm.armed[l]).sm,
        o.acts \o SetToSeq({Timed("CancelTimer", id, l) : id \in o.sm.armed[l]}))
Say(o, a) == [o EXCEPT !.acts = Append(@, a)]
If(cond, out) == IF cond THEN {out} ELSE {}

Own(r) == [round |-> r, author |-> Self, id |-> "own"]
OwnCert ==
    [r \in 0 .. MaxRound |->
        CHOOSE c \in assemble_cert(Own(r), [i \in 0 .. quorum_threshold(N) - 1 |-> Own(r)]) : TRUE]

(* L1 proposes: the old fallback timer is cancelled, a new one armed.      *)
propose_round(o, r) ==
    Say(Arm(Cancel([o EXCEPT !.sm.round = r], "L1"), "L1"),
        Act("BroadcastVertexProposal", Own(r)))

(* L1 on a certified vertex: it may have completed the round.              *)
maybe_advance(o) ==
    {o} \cup If(o.sm.started /\ o.sm.round < MaxRound /\ CanArm(o, "L1"),
               propose_round(o, o.sm.round + 1))

(* L2 on a certified vertex, for the wave it waits for: nothing, a slow    *)
(* timer once the anchor is there, or the commit.                          *)
Commit(o) ==
    Say([Cancel(o, "L2") EXCEPT !.sm.waves = @ + 1], Act("BroadcastMicroQc", o.sm.waves))
try_emit_for_wave(o) ==
    {o, Commit(o)} \cup If(o.sm.armed["L2"] = {} /\ CanArm(o, "L2"), Arm(o, "L2"))

(* L3 on the commits L2 has just answered with: the window may now be full *)
(* and this validator its primary, its backup or neither.  The Mode B      *)
(* deadline is armed in every case.                                        *)
SetCandidate(o, c) ==
    [o EXCEPT !.sm.cands = {d \in @ : d.height # c.height} \cup {c}]
ProposesMacro(o, c) ==
    Say([o EXCEPT !.sm.proposal_seen = @ \cup {c.height}], Act("BroadcastMacroProposal", c))

FillsWindow(o, c) ==
    LET filled == SetCandidate(o, c)
        backup == backup_propose_action(filled, c.height)
    IN  {mode_b_deadline_action(filled, c.height),
         mode_b_deadline_action(ProposesMacro(filled, c), c.height)}
            \cup If(CanArm(backup, "L3"), mode_b_deadline_action(backup, c.height))

on_local_micro_qcs(o) ==
    {o} \cup IF /\ \E i \in DOMAIN o.acts : o.acts[i].kind = "BroadcastMicroQc"
                /\ CanArm(o, "L3")
             THEN UNION {FillsWindow(o, c) : c \in CandidateOf(o.sm.height)}
             ELSE {}

(* One layer after the other, each on what the previous one left.          *)
Then(outs, layer(_)) == UNION {layer(o) : o \in outs}

on_certified_vertex(o) ==
    Then(Then(maybe_advance(o), try_emit_for_wave), on_local_micro_qcs)

(* The backup takes over unless a proposal was seen, if it has a candidate *)
(* and, on the reputations of now, is still the backup.                    *)
BackupFires(o, h) ==
    {clear_backup(o, h)}
        \cup {ProposesMacro(clear_backup(o, h), c) :
                c \in {d \in o.sm.cands : d.height = h /\ h \notin o.sm.proposal_seen}}

(* A timer event goes to all three layers; each looks the id up in its own *)
(* book.                                                                   *)
slow_path_timer(o, id) ==
    IF id \notin o.sm.armed["L2"] THEN {o}
    ELSE {Disarm(o, "L2", {id}), Commit(Disarm(o, "L2", {id}))}

macro_timer(o, id) ==
    LET B == height_for_backup_timer(o.sm, id)
        D == height_for_mode_b_timer(o.sm, id)
    IN  CASE B # {} -> UNION {BackupFires(o, h) : h \in B}
          [] B = {} /\ D # {} ->
               UNION {{clear_mode_b(o, h),
                       Say(clear_mode_b(o, h), Act("BroadcastBlsPartial", 0))} : h \in D}
          [] OTHER -> {o}

round_timer(o, id) ==
    LET d == Disarm(o, "L1", {id})
    IN  IF id \notin o.sm.armed["L1"] THEN {o}
        ELSE {d} \cup If(CanArm(d, "L1"),
                        Arm(Say(d, Act("BroadcastVertexProposal", Own(o.sm.round))), "L1"))

on_timer_fired(o, id) ==
    Then(Then(slow_path_timer(o, id), LAMBDA x : macro_timer(x, id)),
         LAMBDA x : round_timer(x, id))

(* The partial that completes the quorum of this validator's own vertex.   *)
on_vertex_partial(o) ==
    IF ~o.sm.started \/ o.sm.round \in o.sm.certified THEN {o}
    ELSE {o} \cup maybe_advance(Say([o EXCEPT !.sm.certified = @ \cup {o.sm.round}],
                                   Act("BroadcastCertifiedVertex", OwnCert[o.sm.round])))

(* The first proposal of a peer is voted for; a different one is evidence, *)
(* each time it comes.                                                     *)
on_vertex_proposal(o, p) ==
    CASE o.sm.seen = {} -> {Say([o EXCEPT !.sm.seen = {p}], Act("BroadcastVertexPartial", p))}
      [] p \in o.sm.seen -> {o}
      [] OTHER -> {Say(o, Act("EmitSlashEvidence", o.sm.seen \cup {p}))}

(* L3 votes for its own candidate on top of the last adopted checkpoint.   *)
on_macro_proposal(o, c) ==
    LET h == c.height
    IN  IF h \in o.sm.voted \/ c \notin o.sm.cands \/ h # o.sm.height THEN {o}
        ELSE {Say(Say([[clear_backup(o, h) EXCEPT !.sm.voted = @ \cup {h}]
                                           EXCEPT !.sm.proposal_seen = @ \cup {h}],
                      Act("BroadcastBlsPartial", Subnet)),
                  Status(c, SoftConfirmed))}

(* A certificate names its checkpoint by the hash; the candidate it fits,  *)
(* unless adopted already, becomes the adopted checkpoint of its height.   *)
Certified(o, x) == {c \in o.sm.cands \ o.sm.adopted : hash(c) = x}

AdoptedBooks(o, c) ==
    [clear_mode_b(clear_backup(o, c.height), c.height).sm
        EXCEPT !.adopted = @ \cup {c}, !.proposal_seen = @ \cup {c.height},
               !.height = c.height + 1]

\* Mutant: the quorum certificate is stored before its checkpoint.
adopt_qc_first(o, x) ==
    IF Certified(o, x) = {} THEN {o}
    ELSE {Out(AdoptedBooks(o, c), <<Act("PersistMacroQc", x), Act("PersistMacroCheckpoint", c)>>) :
            c \in Certified(o, x)}

(* The height below is newly finalized or not.                             *)
Finalizes(o, c) ==
    {<<>>} \cup {<<Status(d, Finalized)>> : d \in {e \in o.sm.cands : e.height = c.height - 1}}

on_macro_qc_received(o, x) ==
    IF Certified(o, x) = {} THEN {o}
    ELSE UNION {{Out(AdoptedBooks(o, c),
                     <<Act("PersistMacroCheckpoint", c), Act("PersistMacroQc", x),
                       Status(c, Justified)>> \o fin) : fin \in Finalizes(o, c)} :
                  c \in Certified(o, x)}

(* StateMachine::step.  Micro certificates and evidence found elsewhere    *)
(* change nothing.                                                         *)
step(s, e) ==
    LET o == Out(s, <<>>)
    IN  CASE e.kind = "CertifiedVertexReceived" -> on_certified_vertex(o)
          [] e.kind = "TimerFired" -> on_timer_fired(o, e.body)
          [] e.kind = "MacroProposalReceived" -> on_macro_proposal(o, e.body)
          [] e.kind = "MacroQcReceived" -> on_macro_qc_received(o, e.body)
          [] e.kind = "VertexProposalReceived" -> on_vertex_proposal(o, e.body)
          [] e.kind = "VertexPartialReceived" -> on_vertex_partial(o)
          [] e.kind \in {"MicroQcAssembled", "SlashEvidenceFound"} -> {o}

(********************************* The host ********************************)
NothingLost == [certs |-> {}, timers |-> {}]

Init ==
    /\ phase = "down" /\ cfg \in Configs /\ db \in Databases
    /\ events = <<>> /\ actions = <<>> /\ scheduleQ = <<>>
    /\ tasks = {} /\ sm = FreshBooks /\ dag = <<>> /\ beacon = <<>> /\ seq = 0
    /\ inbound = 0 /\ crashes = 0 /\ lost = NothingLost
    /\ unstored = {c \in Checkpoints : /\ macro_qc_for(db, hash(c))
                                       /\ macro_checkpoint_at(db, c.height) = {}}

(* run_async up to the orchestrator's loop.  Without a swarm the node runs *)
(* ingress-only; without a validator set of epoch 0 the proposal fails.    *)
Boot ==
    /\ phase = "down"
    /\ phase' = IF Refuses(cfg) THEN "refused" ELSE "running"
    /\ LET o == propose_round(Out([FreshBooks EXCEPT !.started = TRUE], <<>>), 0)
           proposes == ~Refuses(cfg) /\ HasSwarm(cfg) /\ set_for(cfg, 0) # {}
       IN  /\ sm' = IF proposes THEN o.sm ELSE FreshBooks
           /\ actions' = IF proposes THEN o.acts ELSE <<>>
    /\ UNCHANGED <<cfg, inbound, crashes, db, events, scheduleQ,
                   tasks, dag, beacon, seq, lost, unstored>>

(* try_send: the channel keeps what fits and drops the rest.               *)
Offer(q, cap, x) == IF Len(q) < cap THEN Append(q, x) ELSE q

(* What peers gossip, and one payload that does not decode.                *)
PeerMessages ==
    {outbound_broadcast(a) :
        a \in {Act("BroadcastCertifiedVertex", c) : c \in Certs}
             \cup {Act("BroadcastVertexProposal", p) : p \in Proposals}
             \cup {Act("BroadcastMacroProposal", c) : c \in Checkpoints}
             \cup {Act("BroadcastMacroQc", hash(c)) : c \in Checkpoints}
             \cup {Act("BroadcastVertexPartial", "vote")}}
    \cup {[topic |-> <<"macro-qc", 0>>, type |-> "chunk", data |-> "garbled"]}

(* The topics a node of each configuration subscribes to.                  *)
Subscribed ==
    [c \in Configs |-> subscribe_set(subnet_count(load(c).macro_subnet_count))]

\* Mutant: the fan-in does not look at the capacity.
InboundUnbounded(m) ==
    /\ Up /\ inbound < MaxInbound /\ inbound' = inbound + 1
    /\ HasSwarm(cfg) /\ m.topic \in Subscribed[cfg]
    /\ LET e == inbound_message(m)
       IN  events' = IF e \in {NoEvent, DecodeError} THEN events ELSE Append(events, e)
    /\ UNCHANGED <<phase, cfg, crashes, db, actions, scheduleQ, memory, lost, unstored>>

(* The swarm task decodes a gossip message, and the fan-in task hands the  *)
(* event on.  Both try_send: what a full channel drops is gone, as it may  *)
(* be on the network, so the two channels are one.                         *)
Inbound(m) ==
    /\ Up /\ inbound < MaxInbound /\ inbound' = inbound + 1
    /\ HasSwarm(cfg) /\ m.topic \in Subscribed[cfg]
    /\ LET e == inbound_message(m)
       IN  events' = IF decode_blob_chunk(m) # NoEvent \/ e \in {NoEvent, DecodeError}
                     THEN events ELSE Offer(events, EventCap, e)
    /\ UNCHANGED <<phase, cfg, crashes, db, actions, scheduleQ, memory, lost, unstored>>

(* LiveDag: stored first, then indexed, once per delivery; what cannot be  *)
(* stored is not indexed.                                                  *)
ingest(cv) == db' = put_vertex(db, cv) /\ dag' = Append(dag, cv)
vertices_at_round(r) == {cv \in ToSet(dag) : cv.vertex.round = r}

(* The causal-set query of the RPC server, as the set of what it lists.    *)
causal_set(from, to) == UNION {vertices_at_round(r) : r \in from .. to}

(* A step that fails leaves nothing to dispatch.                           *)
StepOn(e) ==
    IF set_for(cfg, 0) = {} THEN UNCHANGED <<sm, actions>>
    ELSE \E o \in step(sm, e) : sm' = o.sm /\ actions' = o.acts

(* A certificate that verifies is stored and indexed before the step.  One *)
(* that does not verify, or cannot be stored, is dropped: no step.         *)
ProcessCertificate(e) ==
    \/ ~verify_certified_vertex(e.body) /\ UNCHANGED <<db, dag, sm, actions, lost>>
    \/ verify_certified_vertex(e.body) /\ ingest(e.body) /\ StepOn(e) /\ UNCHANGED lost
    \/ /\ verify_certified_vertex(e.body) /\ UNCHANGED <<db, dag, sm, actions>>
       /\ lost' = [lost EXCEPT !.certs = @ \cup {r \in 0 .. MaxRound : OwnCert[r] = e.body}]

(* The orchestrator takes the next event once the actions of the last one  *)
(* are dispatched.                                                         *)
Process ==
    /\ Up /\ actions = <<>> /\ events # <<>>
    /\ events' = Tail(events)
    /\ LET e == Head(events)
       IN  IF e.kind = "CertifiedVertexReceived" THEN ProcessCertificate(e)
           ELSE StepOn(e) /\ UNCHANGED <<db, dag, lost>>
    /\ UNCHANGED <<phase, cfg, inbound, crashes, scheduleQ,
                   tasks, beacon, seq, unstored>>

(* ActionApplier::apply, on the database.                                  *)
Stored(a) ==
    CASE a.kind = "PersistMacroCheckpoint" -> store_macro_checkpoint(db, a.body)
      [] a.kind = "PersistMacroQc" -> store_macro_qc(db, a.body)
      [] a.kind = "EmitSlashEvidence" -> append_slash_evidence(db, seq, a.body)
      [] a.kind = "UpdateBlobStatus" -> put_monotonic(db, a.body, a.tier)
      [] OTHER -> db

(* ActionApplier::apply, on the beacon and the timers.  A cancel aborts    *)
(* the task of the id, whichever layer waits for it, and misses a timer    *)
(* that the loop has not taken yet.                                        *)
cancel(registry, id) == registry \ {id}
schedule_event(registry, id) == cancel(registry, id) \cup {id}

(* A write may fail: the orchestrator logs it and dispatches the next      *)
(* action.  The beacon adopts a certificate that was stored; the sequence  *)
(* number of evidence moves on in either case.                             *)
Writes(a) == a.kind \in {"PersistMacroCheckpoint", "PersistMacroQc",
                         "EmitSlashEvidence", "UpdateBlobStatus"}

Apply(a) ==
    /\ \E done \in IF Writes(a) THEN BOOLEAN ELSE {TRUE} :
          /\ db' = IF done THEN Stored(a) ELSE db
          /\ beacon' = IF a.kind = "PersistMacroQc" /\ done
                       THEN Append(beacon, a.body) ELSE beacon
          /\ unstored' = IF a.kind # "PersistMacroCheckpoint" THEN unstored
                         ELSE IF done THEN unstored \ {a.body} ELSE unstored \cup {a.body}
    /\ seq' = IF a.kind = "EmitSlashEvidence" THEN seq + 1 ELSE seq
    /\ scheduleQ' = IF a.kind = "ScheduleTimer"
                    THEN Offer(scheduleQ, ScheduleCap, a.body) ELSE scheduleQ
    /\ tasks' = IF a.kind = "CancelTimer" THEN cancel(tasks, a.body) ELSE tasks

(* The timers of other layers that go with the action.                     *)
TimersLost(a) ==
    CASE a.kind = "ScheduleTimer" /\ Len(scheduleQ) = ScheduleCap -> {<<a.by, a.body>>}
      [] a.kind = "CancelTimer" ->
            {<<l, a.body>> : l \in {k \in Layer \ {a.by} : a.body \in Awaited(sm, k)}}
      [] OTHER -> {}

\* Mutant: the validator's own certificate is gossiped and not looped back.
DispatchWithoutLoopback ==
    /\ Up /\ actions # <<>>
    /\ actions' = Tail(actions)
    /\ LET a == Head(actions)
       IN  /\ lost' = [lost EXCEPT !.timers = @ \cup TimersLost(a)]
           /\ Apply(a)
    /\ UNCHANGED <<phase, cfg, inbound, crashes, events, sm, dag>>

Dispatch ==
    /\ Up /\ actions # <<>>
    /\ actions' = Tail(actions)
    /\ LET a == Head(actions)
           own == a.kind = "BroadcastCertifiedVertex"
       IN  /\ events' = IF own
                        THEN Offer(events, EventCap, Act("CertifiedVertexReceived", a.body))
                        ELSE events
           /\ lost' = [certs |-> lost.certs \cup
                           (IF own /\ Len(events) = EventCap THEN {a.body.vertex.round} ELSE {}),
                       timers |-> lost.timers \cup TimersLost(a)]
           /\ Apply(a)
    /\ UNCHANGED <<phase, cfg, inbound, crashes, sm, dag>>

(* The timer loop: schedule_event aborts the task of the id, if any, and   *)
(* spawns another.                                                         *)
ScheduleEvent ==
    /\ Up /\ scheduleQ # <<>>
    /\ scheduleQ' = Tail(scheduleQ)
    /\ tasks' = schedule_event(tasks, Head(scheduleQ))
    /\ UNCHANGED <<phase, cfg, inbound, crashes, db, events, actions,
                   sm, dag, beacon, seq, lost, unstored>>

\* Mutant: the task drops its event when the channel is full.
FireOrDrop(id) ==
    /\ Up /\ id \in tasks
    /\ tasks' = tasks \ {id}
    /\ events' = Offer(events, EventCap, Act("TimerFired", id))
    /\ UNCHANGED <<phase, cfg, inbound, crashes, db, actions, scheduleQ,
                   sm, dag, beacon, seq, lost, unstored>>

(* The task has slept its delay and sends; it waits for room.              *)
Fire(id) ==
    /\ Up /\ id \in tasks /\ Len(events) < EventCap
    /\ tasks' = tasks \ {id}
    /\ events' = Append(events, Act("TimerFired", id))
    /\ UNCHANGED <<phase, cfg, inbound, crashes, db, actions, scheduleQ,
                   sm, dag, beacon, seq, lost, unstored>>

Crash ==
    /\ Up /\ crashes < MaxCrash
    /\ phase' = "down" /\ crashes' = crashes + 1
    /\ events' = <<>> /\ actions' = <<>> /\ scheduleQ' = <<>>
    /\ tasks' = {} /\ sm' = FreshBooks /\ dag' = <<>> /\ beacon' = <<>> /\ seq' = 0
    /\ lost' = NothingLost
    /\ UNCHANGED <<cfg, inbound, db, unstored>>

Next ==
    \/ Boot
    \/ \E m \in PeerMessages : Inbound(m)
    \/ Process
    \/ Dispatch
    \/ ScheduleEvent
    \/ \E id \in TimerId : Fire(id)
    \/ Crash

(* The orchestrator is a task of a running runtime and never awaits with   *)
(* work at hand.                                                           *)
Spec == Init /\ [][Next]_vars /\ WF_vars(Process) /\ WF_vars(Dispatch)

(******************************** Properties *******************************)
(* The channels hold at most what they were made for, and the books stay   *)
(* in their domains.                                                       *)
TypeOK ==
    /\ phase \in {"down", "refused", "running"} /\ cfg \in Configs
    /\ Len(events) <= EventCap /\ Len(scheduleQ) <= ScheduleCap
    /\ tasks \subseteq TimerId
    /\ \A l \in Layer : Awaited(sm, l) \subseteq 0 .. sm.next[l] - 1

(* Whatever certificates peers gossip, with padding bits set or signers    *)
(* counted twice, and however often the node restarts, the causal-set      *)
(* query answers with one vertex per round and author, and the vertex      *)
(* column returns that one.                                                *)
NoForkedVertex ==
    \A cv \in causal_set(0, MaxRound) :
        \E stored \in get_vertex(db, cv.vertex) : stored.vertex = cv.vertex

(* A macro certificate that has reached the disk is visible to the query,  *)
(* which looks it up through the checkpoint of its height: no crash        *)
(* between two dispatched actions hides it.  Two things only can: a write  *)
(* of its checkpoint that failed, and another checkpoint that a restarted  *)
(* node has adopted and stored at the same height.                         *)
FinalizedVisible ==
    \A c \in Checkpoints : macro_qc_for(db, hash(c)) =>
        \/ latest_finalized(db) >= c.height
        \/ c \in unstored
        \/ \E d \in macro_checkpoint_at(db, c.height) : d # c

(* A timer a layer waits for is on its way: in an action still to be       *)
(* dispatched, in the schedule channel, in a task or in the events.  Two   *)
(* things only can cost it: a full schedule channel, and the cancel of     *)
(* another layer, whose scheduler hands out the same ids.                  *)
TimersSurvive ==
    \A l \in Layer : \A id \in Awaited(sm, l) :
        \/ \E i \in DOMAIN actions :
              actions[i].kind = "ScheduleTimer" /\ actions[i].body = id
        \/ id \in ToSet(scheduleQ) \cup tasks
        \/ Act("TimerFired", id) \in ToSet(events)
        \/ <<l, id>> \in lost.timers

(* What this node sends decodes to the event of that action, and a node of *)
(* the same configuration subscribes to its topic, subnet topics included. *)
(* The one exception: the partials of a subnet beyond a configured count,  *)
(* which no node of the configuration hears.                               *)
Unheard(a) ==
    a.kind = "BroadcastBlsPartial" /\ a.body >= subnet_count(load(cfg).macro_subnet_count)

PeersUnderstand ==
    \A i \in DOMAIN actions : LET a == actions[i] IN
        is_broadcast(a) =>
            /\ inbound_message(outbound_broadcast(a)) = Act(EventOf[TopicOf[a.kind]], a.body)
            /\ outbound_broadcast(a).topic \in Subscribed[cfg] <=> ~Unheard(a)

(* The status of a blob never falls, across restarts that make the layers  *)
(* vote for an old height once more.                                       *)
StatusNeverFalls ==
    [][\A c \in Checkpoints : blob_status(db', hash(c)) >= blob_status(db, hash(c))]_vars

(* The node's own certificate comes back to it: gossip never delivers it,  *)
(* so the loopback must, unless the events channel is full, the DAG cannot *)
(* store it or the node crashes.                                           *)
OwnCertReturns ==
    \A r \in 0 .. MaxRound :
        (\E i \in DOMAIN actions : actions[i] = Act("BroadcastCertifiedVertex", OwnCert[r]))
            ~> (OwnCert[r] \in ToSet(dag) \/ r \in lost.certs \/ ~Up)
=============================================================================
