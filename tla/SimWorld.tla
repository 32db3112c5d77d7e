------------------------------ MODULE SimWorld ------------------------------
(***************************************************************************)
(* The deterministic simulator, running L3 in Mode A: a World of N machines*)
(* with one message bus, one timer queue, one clock and one DAG.           *)
(*                                                                         *)
(* A tick delivers the messages that are due, produces and delivers the    *)
(* vertices of the round, fires the timers that are due and advances the   *)
(* clock.  The code does so in nested calls: delivering an event steps a   *)
(* machine, whose actions are applied at once, and applying an action may  *)
(* step the machine again.  `agenda' is that call stack, what is to be done*)
(* next first; one step of the model does the first thing on it.           *)
(*                                                                         *)
(* The random generator is the environment: it drops, duplicates or delays *)
(* at most MaxFaults messages.  The machines' L1 and L2 are reduced to the *)
(* moment they fill the macro window (FillsWindow).                        *)
(***************************************************************************)
EXTENDS ModeA, SequencesExt

CONSTANTS RoundLength,           \* round_duration_ms
          BaseDelay, MaxDelay,   \* base_delay_ns and max_delay_ns of NetworkConditions
          Left, Right,           \* the sides of the partition
          HealAt,                \* the tick at which the scenario heals it
          Anchor,                \* select_anchor of the wave
          MaxTicks, MaxFaults    \* bounds

ASSUME WorldAssumption ==
    /\ {RoundLength, BaseDelay, MaxDelay, HealAt, MaxTicks, MaxFaults} \subseteq Nat
    /\ RoundLength > 0
    /\ Left \subseteq Validator /\ Right \subseteq Validator /\ Left \cap Right = {}
    /\ Anchor \in Validator

VARIABLES books,          \* World.machines: their L3 books
          pending,        \* VirtualNet.pending
          partitioned,    \* Partition.active
          anchor_withhold,
          suppress_macro_proposer,  \* whose proposals the adversary drops: one validator or none
          timers,         \* VirtualTimer.pending: set of <<deliver_at, id>>
          dag,            \* VirtualDag: set of <<round, author>>
          stored,         \* VirtualPersistence.macro_qcs: signers of the MacroQc, {}: none
          now, virtual_round,
          phase,          \* where tick_round is
          agenda,         \* what the calls in progress still have to do
          faults,         \* bound: messages the network has not treated perfectly
          imperfect       \* history: a message was dropped, delayed, or blocked by the partition

adversary == <<anchor_withhold, suppress_macro_proposer>>
vars == <<books, pending, partitioned, adversary, timers, dag, stored, now, virtual_round,
          phase, agenda, faults, imperfect>>

Step(v, e) == [do |-> "step", v |-> v, e |-> e]
Apply(v, a) == [do |-> "apply", v |-> v, e |-> a]
Send(v, r, m) == [do |-> "send", v |-> v, r |-> r, e |-> m]

Vertex(round, author) == [type |-> "CertifiedVertex", round |-> round, author |-> author]
TimerFired(id) == [type |-> "TimerFired", id |-> id]

\* Everybody but v, in order.
Others(v) == [i \in 1 .. N - 1 |-> IF i <= v THEN i - 1 ELSE i]

\* The i-th author of a round, i from 0 (build_quorum_vertices_for_round).
Author(round, i) == (round + i) % N
Batch(round) == [i \in 1 .. need(N) |-> Vertex(round, Author(round, i - 1))]

Init == /\ books = [v \in Validator |-> NewBook]
        /\ pending = <<>>
        /\ partitioned \in BOOLEAN
        /\ anchor_withhold \in BOOLEAN
        /\ suppress_macro_proposer \in {{}, {Primary}}
        /\ timers = {}
        /\ dag = {}
        /\ stored = [v \in Validator |-> {}]
        /\ now = 0
        /\ virtual_round = 0
        /\ phase = "net"
        /\ agenda = <<>>
        /\ faults = 0
        /\ imperfect = FALSE

-----------------------------------------------------------------------------
(***************************************************************************)
(* VirtualNet.                                                             *)
(***************************************************************************)

\* Partition::allows.
allows(v, r) == partitioned => {v, r} \subseteq Left \/ {v, r} \subseteq Right

\* Mutant: the newest message goes to the end of the queue.
append(queue, m) == queue \o <<m>>

\* Mutant: before the messages that are due at the same time.
enqueue_before(queue, m) ==
    LET p == Cardinality({i \in DOMAIN queue : queue[i].deliver_at < m.deliver_at})
    IN  SubSeq(queue, 1, p) \o <<m>> \o SubSeq(queue, p + 1, Len(queue))

\* VirtualNet::enqueue: behind every message that is due no later.
enqueue(queue, m) ==
    LET p == Cardinality({i \in DOMAIN queue : queue[i].deliver_at <= m.deliver_at})
    IN  SubSeq(queue, 1, p) \o <<m>> \o SubSeq(queue, p + 1, Len(queue))

\* VirtualNet::drain_due pops from the front and stops at the first message that
\* is not due.
drain_due(queue) == CHOOSE n \in 0 .. Len(queue) :
                        /\ \A i \in 1 .. n : queue[i].deliver_at <= now
                        /\ n < Len(queue) => queue[n + 1].deliver_at > now
Due(queue) == SubSeq(queue, 1, drain_due(queue))
NotDue(queue) == SubSeq(queue, drain_due(queue) + 1, Len(queue))

InFlight(w, delay) == [recipient |-> w.r, event |-> w.e, deliver_at |-> now + BaseDelay + delay]

\* One recipient of enqueue_from_action: jitter and perturb draw the delay, the
\* loss and the duplicate.  max_delay_ns bounds each of two delays.
Deliver(w) ==
    LET Msg(delay) == InFlight(w, delay)
    IN  \/ /\ ~ allows(w.v, w.r)
           /\ imperfect' = TRUE
           /\ UNCHANGED <<pending, faults>>
        \/ /\ allows(w.v, w.r)
           /\ \/ pending' = enqueue(pending, Msg(0)) /\ UNCHANGED <<faults, imperfect>>
              \/ /\ faults < MaxFaults
                 /\ faults' = faults + 1
                 /\ \/ /\ \E delay \in 1 .. 2 * MaxDelay : pending' = enqueue(pending, Msg(delay))
                       /\ imperfect' = TRUE
                    \/ pending' = enqueue(enqueue(pending, Msg(0)), Msg(0)) /\ UNCHANGED imperfect
                    \/ imperfect' = TRUE /\ UNCHANGED pending

-----------------------------------------------------------------------------
(***************************************************************************)
(* World: one thing on the agenda.                                         *)
(***************************************************************************)

\* The window is full: the anchor of the wave is in the DAG when a vertex of the
\* next round comes.
FillsWindow(b, e) == ~ b.candidate /\ e.round = 1 /\ <<0, Anchor>> \in dag

\* StateMachine::step on the book of validator v.
Stepped(v, e) ==
    LET b == books[v]
    IN  CASE e.type = "MacroProposal"   -> IF e.from \in suppress_macro_proposer THEN Result(b, <<>>)
                                           ELSE on_macro_proposal(b, v, e)
          [] e.type = "BlsPartial"      -> on_bls_partial(b, v, e)
          [] e.type = "SubnetAggregate" -> on_subnet_aggregate(b, v, e)
          [] e.type = "MacroQc"         -> on_macro_qc_received(b, e)
          [] e.type = "TimerFired"      -> on_timer_fired(b, v)
          [] OTHER -> IF FillsWindow(b, e) THEN on_local_micro_qcs(b, v) ELSE Result(b, <<>>)

Applies(v, as) == [i \in DOMAIN as |-> Apply(v, as[i])]

\* step_validator: the actions are applied before anything else goes on.
StepValidator ==
    LET w == Head(agenda)
        r == Stepped(w.v, w.e)
    IN  /\ w.do = "step"
        /\ books' = [books EXCEPT ![w.v] = r.book]
        /\ agenda' = Applies(w.v, r.actions) \o Tail(agenda)
        /\ UNCHANGED <<pending, stored, partitioned, adversary, timers, dag, now, virtual_round, phase,
                       faults, imperfect>>

Sends(v, a) == [i \in 1 .. N - 1 |-> Send(v, Others(v)[i], a)]

\* apply_actions, a macro proposal: nobody hears of one that is suppressed; a
\* proposer hands its own to itself first.
ApplyProposal ==
    LET w == Head(agenda)
    IN  /\ w.do = "apply"
        /\ w.e.type = "MacroProposal"
        /\ agenda' = IF w.v \in suppress_macro_proposer THEN Tail(agenda)
                     ELSE <<Step(w.v, w.e)>> \o Sends(w.v, w.e) \o Tail(agenda)
        /\ UNCHANGED <<books, pending, partitioned, adversary, timers, dag, stored, now,
                       virtual_round, phase, faults, imperfect>>

\* Partials and subnet aggregates.
ApplyBroadcast ==
    LET w == Head(agenda)
    IN  /\ w.do = "apply"
        /\ w.e.type \in {"BlsPartial", "SubnetAggregate"}
        /\ agenda' = Sends(w.v, w.e) \o Tail(agenda)
        /\ UNCHANGED <<books, pending, partitioned, adversary, timers, dag, stored, now,
                       virtual_round, phase, faults, imperfect>>

store_macro_qc(v, qc) == [stored EXCEPT ![v] = qc.signers]

\* A MacroQc is stored when it is broadcast and when it is persisted.
ApplyMacroQc ==
    LET w == Head(agenda)
    IN  /\ w.do = "apply"
        /\ w.e.type \in {"MacroQc", "PersistMacroQc"}
        /\ stored' = store_macro_qc(w.v, w.e)
        /\ agenda' = IF w.e.type = "MacroQc" THEN Sends(w.v, w.e) \o Tail(agenda) ELSE Tail(agenda)
        /\ UNCHANGED <<books, pending, partitioned, adversary, timers, dag, now, virtual_round,
                       phase, faults, imperfect>>

ApplySchedule ==
    LET w == Head(agenda)
    IN  /\ w.do = "apply"
        /\ w.e.type = "ScheduleTimer"
        /\ timers' = timers \cup {<<now + w.e.delay, w.e.id>>}
        /\ agenda' = Tail(agenda)
        /\ UNCHANGED <<books, pending, partitioned, adversary, dag, stored, now, virtual_round,
                       phase, faults, imperfect>>

SendMessage ==
    LET w == Head(agenda)
    IN  /\ w.do = "send"
        /\ Deliver(w)
        /\ agenda' = Tail(agenda)
        /\ UNCHANGED <<books, partitioned, adversary, timers, dag, stored, now, virtual_round,
                       phase>>

Work == agenda # <<>> /\ (StepValidator \/ ApplyProposal \/ ApplyBroadcast \/ ApplyMacroQc
                            \/ ApplySchedule \/ SendMessage)

-----------------------------------------------------------------------------
(***************************************************************************)
(* World::tick_round, and the scenario that calls it.                      *)
(***************************************************************************)

\* The network_partition scenario heals the partition before the tick HealAt.
heal_partition == partitioned' = (partitioned /\ virtual_round < HealAt)

drain_net_and_apply ==
    /\ phase = "net"
    /\ virtual_round < MaxTicks
    /\ heal_partition
    /\ pending' = NotDue(pending)
    /\ agenda' = LET due == Due(pending)
                 IN  [i \in DOMAIN due |-> Step(due[i].recipient, due[i].event)]
    /\ phase' = "vertices"
    /\ UNCHANGED <<books, adversary, timers, dag, stored, now, virtual_round, faults, imperfect>>

\* The wave of round 0 is the only one; its anchor is a vertex of that round.
withheld_author == IF anchor_withhold /\ virtual_round = 0 THEN {Anchor} ELSE {}

Withheld(batch) == {i \in DOMAIN batch : batch[i].author \in withheld_author}

insert(batch) == dag \cup {<<batch[i].round, batch[i].author>> : i \in DOMAIN batch}

\* The vertices of the batch one after the other, each to everybody.
ToEveryone(batch) ==
    [k \in 1 .. Len(batch) * N |-> Step((k - 1) % N, batch[(k - 1) \div N + 1])]

\* produce_vertex_tick: the anchor's vertex may be withheld; the others are in
\* the DAG before the first of them is delivered.
produce_vertex_tick ==
    LET all == Batch(virtual_round)
        batch == IF Withheld(all) = {} THEN all
                 ELSE RemoveAt(all, CHOOSE i \in Withheld(all) : TRUE)
    IN  /\ phase = "vertices"
        /\ dag' = insert(batch)
        /\ agenda' = ToEveryone(batch)
        /\ phase' = "timers"
        /\ UNCHANGED <<books, pending, partitioned, adversary, timers, stored, now, virtual_round,
                       faults, imperfect>>

DueTimers == {t \in timers : t[1] <= now}

\* drain_timers_and_apply: one queue for all, so that every machine hears every timer.
drain_timers_and_apply ==
    /\ phase = "timers"
    /\ timers' = timers \ DueTimers
    /\ agenda' = IF DueTimers = {} THEN <<>> ELSE [i \in 1 .. N |-> Step(i - 1, TimerFired(0))]
    /\ phase' = "clock"
    /\ UNCHANGED <<books, pending, partitioned, adversary, dag, stored, now, virtual_round,
                   faults, imperfect>>

Advance ==
    /\ phase = "clock"
    /\ now' = now + RoundLength
    /\ virtual_round' = virtual_round + 1
    /\ phase' = "net"
    /\ UNCHANGED <<books, pending, partitioned, adversary, timers, dag, stored, agenda, faults,
                   imperfect>>

tick_round ==
    /\ agenda = <<>>
    /\ drain_net_and_apply \/ produce_vertex_tick \/ drain_timers_and_apply \/ Advance

Next == Work \/ tick_round

\* World::run calls tick_round in a loop: the simulator never stops by itself.
Spec == Init /\ [][Next]_vars /\ WF_vars(Next)

-----------------------------------------------------------------------------
(***************************************************************************)
(* Properties.                                                             *)
(***************************************************************************)

\* A MacroQc made of subnet aggregates names a quorum of all the validators,
\* although a subnet is content with a quorum of its own (one of two members),
\* and everybody it names has signed.
QcHasQuorum ==
    \A v \in Validator : stored[v] # {} =>
        /\ Cardinality(stored[v]) >= need(N)
        /\ \A w \in stored[v] : books[w].locked

\* What checker::lock_macro looks for: two stored MacroQcs that differ.
conflicting(v, w) == stored[v] # {} /\ stored[w] # {} /\ stored[v] # stored[w]

\* checker::safety and checker::lock_macro: any two validators have stored the
\* same MacroQc for the checkpoint, however the aggregates were reordered.
OneQcPerCheckpoint ==
    \A v, w \in Validator : ~ conflicting(v, w)

\* A message that an earlier tick should have delivered.  Without a base delay a
\* message is due at the instant it is sent, and waits for the next tick.
Overdue(m) == m.deliver_at < now - RoundLength
                \/ (m.deliver_at = now - RoundLength /\ BaseDelay > 0)

\* The bus is in the order of delivery, so that drain_due, which stops at the
\* first message that is not due, never leaves a message behind: between the
\* deliveries of a tick and the next, only messages sent meanwhile are due.
NothingOverdue ==
    /\ \A i, j \in DOMAIN pending : i < j => pending[i].deliver_at <= pending[j].deliver_at
    /\ \A i \in DOMAIN pending : ~ Overdue(pending[i])

Adopted == \A v \in Validator : stored[v] # {}

\* On the perfect network of the mode_a_subnet scenario every validator adopts a
\* MacroQc, duplicates or not.  No Mode B deadline helps out here, and a subnet
\* aggregate that overtakes one of its partials is refused for good: that every
\* aggregate arrives behind its partials depends on messages of one instant being
\* delivered in the order they were sent.
EveryoneAdopts == <>(anchor_withhold \/ imperfect \/ Adopted)
=============================================================================
