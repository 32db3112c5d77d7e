------------------------------- MODULE Bullshark -------------------------------
(***************************************************************************)
(* L2, micro-ordering: the `bullshark` handlers of the consensus crate.    *)
(*                                                                         *)
(* Rounds of the certified DAG are grouped into waves of four.  The vertex *)
(* of the wave's anchor author in its first round commits when 2f+1        *)
(* authors have a path to it within the shortcut window, or, after a timer *)
(* has fired, within the wider slow-path window.  The causal history of a  *)
(* committed anchor is put in order and its hash is the micro checkpoint,  *)
(* for which a MicroQc is emitted and, on one of the two paths, handed to  *)
(* L3.                                                                     *)
(*                                                                         *)
(* Abstractions.  L1 certifies one vertex at most per author and round     *)
(* (VertexCert!CertUnique), so a vertex is named by the two, and the hash  *)
(* of a linearization is the linearization.  The anchor is drawn from the  *)
(* beacon of the host, which is counted: it moves with every MacroQc that  *)
(* the host persists.  The order of hashes is a parameter.  Timers may     *)
(* fire at any moment.                                                     *)
(***************************************************************************)
EXTENDS Integers, Sequences, FiniteSets, SequencesExt

CONSTANTS Validator,            \* the validator set of epoch 0
          Correct,              \* the validators that run this code, as authors
          Honest,               \* those of them whose state is followed
          Vertex,               \* the vertices that are certified, [round, author]
          Dags,                 \* the maps from vertices to their parents that L1 may certify
          Late,                 \* vertices that their descendants may overtake on their way
          AnchorAuthor(_, _),   \* select_anchor: of a wave and a beacon
          HashBefore(_, _),     \* the order of vertex hashes
          Shortcut, SlowPath,   \* shortcut_round_count and slow_path_round_count
          MaxBeacon             \* bound: how often the beacon of a host moves

first_round(w) == 4 * w
of_round(r) == r \div 4
Wave == {of_round(v.round) : v \in Vertex}

\* Mutant: the threshold misses the "+ 1".
need_two_thirds == 2 * ((Cardinality(Validator) - 1) \div 3)

need == 2 * ((Cardinality(Validator) - 1) \div 3) + 1

\* What L1 guarantees of the DAG (VertexCertProofs!DagDelivered): parents, all of
\* the round below, and 2f+1 of them where the author runs this code.  Voters count
\* the entries of a list of parents, so another author may have a single one.
ASSUME DagAssumption ==
    /\ Vertex \subseteq [round : Nat, author : Validator] /\ IsFiniteSet(Vertex)
    /\ Late \subseteq Vertex
    /\ Dags \subseteq [Vertex -> SUBSET Vertex]
    /\ \A ps \in Dags, v \in Vertex :
          /\ \A p \in ps[v] : p.round = v.round - 1
          /\ v.round > 0 => ps[v] # {}
          /\ v.round > 0 /\ v.author \in Correct =>
                Cardinality(ps[v]) >= 2 * ((Cardinality(Validator) - 1) \div 3) + 1

ASSUME ParameterAssumption ==
    /\ IsFiniteSet(Validator)
    /\ Correct \subseteq Validator
    /\ Honest \subseteq Correct
    /\ Shortcut \in Nat \ {0}
    /\ SlowPath \in Nat
    /\ MaxBeacon \in Nat

\* The hashes of a round are totally ordered.
ASSUME HashAssumption ==
    \A u, v, w \in Vertex :
        u.round = v.round /\ v.round = w.round =>
            /\ ~HashBefore(u, u)
            /\ HashBefore(u, v) /\ HashBefore(v, w) => HashBefore(u, w)
            /\ u = v \/ HashBefore(u, v) \/ HashBefore(v, u)

VARIABLES parents,     \* the DAG: the parents of every vertex
          dag,         \* dag[n]: the certified vertices in the LiveDag of n
          beacon,      \* beacon[n]: how often the beacon of n has moved
          decisions,   \* decisions[n]: the CommitDecisions of n; their waves are committed_waves
          slow_timer,  \* slow_timer[n]: the waves with an entry in slow_timer_by_wave
          emitted      \* emitted[n]: the checkpoints of the MicroQcs n broadcast, in order

vars == <<parents, dag, beacon, decisions, slow_timer, emitted>>

CommitDecision == [wave : Wave, path : {"Shortcut", "SlowPath"}, anchor : Vertex]

Init == /\ parents \in Dags
        /\ dag = [n \in Honest |-> {}]
        /\ beacon = [n \in Honest |-> 0]
        /\ decisions = [n \in Honest |-> {}]
        /\ slow_timer = [n \in Honest |-> {}]
        /\ emitted = [n \in Honest |-> << >>]

committed_waves(n) == {d.wave : d \in decisions[n]}

-----------------------------------------------------------------------------
\* The vertex that n takes for the anchor of wave w, if D holds it.
Anchor(n, D, w) ==
    {v \in D : v.round = first_round(w) /\ v.author = AnchorAuthor(w, beacon[n])}

\* The vertices at the end of paths from v, of which only those in D can be
\* followed; the k-th layer is k + 1 rounds below v.
Layers(v, D) ==
    LET layer[k \in Nat] == IF k = 0 THEN parents[v]
                            ELSE UNION {parents[u] : u \in layer[k - 1] \cap D}
    IN  layer

\* The vertices that v has a path to.
Past(v, D) == UNION {Layers(v, D)[k] : k \in 0 .. v.round}

vertex_reaches(v, a, D) == v = a \/ a \in Past(v, D)

\* The authors with a vertex in the window after anchor a that has a path to a.
count_supporters(a, window, D) ==
    {v.author : v \in {u \in D : /\ u.round \in a.round + 1 .. a.round + window
                                 /\ vertex_reaches(u, a, D)}}

Supported(a, window, D) == Cardinality(count_supporters(a, window, D)) >= need

\* The decision on wave w, if there is one.
try_commit_wave(n, D, w, timed_out) ==
    {[wave |-> w, path |-> "Shortcut", anchor |-> a] :
        a \in {x \in Anchor(n, D, w) : Supported(x, Shortcut, D)}}
    \cup
    {[wave |-> w, path |-> "SlowPath", anchor |-> a] :
        a \in {x \in Anchor(n, D, w) : /\ timed_out
                                       /\ ~Supported(x, Shortcut, D)
                                       /\ Supported(x, SlowPath, D)}}

\* The vertices of S, which are of one round, in the order of their hashes.
InHashOrder(S) ==
    LET I == 1 .. Cardinality(S)
    IN  CHOOSE s \in [I -> S] : \A i, j \in I : i < j => HashBefore(s[i], s[j])

\* Mutant: vertices that were visited are visited again.
ExpandAgain(queue, k, D) ==
    IF k > Len(queue) \/ queue[k] \notin D THEN queue
    ELSE queue \o InHashOrder(parents[queue[k]])

\* The queue after its k-th vertex has been taken; one that is not in D is listed
\* and not expanded.
Expand(queue, k, D) ==
    IF k > Len(queue) \/ queue[k] \notin D THEN queue
    ELSE queue \o InHashOrder(parents[queue[k]] \ ToSet(queue))

\* Breadth first from the anchor: the set of the one queue there is after k vertices.
Queues(a, D) ==
    LET queues[k \in Nat] == IF k = 0 THEN {<<a>>}
                             ELSE {Expand(queue, k, D) : queue \in queues[k - 1]}
    IN  queues

\* Nothing leaves the queue, so in the end it is the order.
closure_of_anchor(a, D) == CHOOSE queue \in Queues(a, D)[Cardinality(Vertex)] : TRUE

\* A MicroQc needs 2f+1 authors among the vertices of the linearization that are known.
try_finalize(c, D) == Cardinality({v.author : v \in ToSet(c) \cap D}) >= need

-----------------------------------------------------------------------------
\* The EmittedSet of n.
contains(n, c) == c \in ToSet(emitted[n])

\* Checkpoints of different waves, in the order of these.
InWaveOrder(S) ==
    LET I == 1 .. Cardinality(S)
    IN  CHOOSE s \in [I -> S] : \A i, j \in I : i < j => s[i][1].round < s[j][1].round

\* What is emitted for decisions ds, by wave.
NewMicroQcs(n, ds, D) ==
    InWaveOrder({c \in {closure_of_anchor(d.anchor, D) : d \in ds} :
                     ~contains(n, c) /\ try_finalize(c, D)})

\* Mutant: a wave is evaluated again after it has been committed.
UndecidedOrNot(n, ws) == ws

\* The waves among ws that are still to be decided.
Undecided(n, ws) == ws \ committed_waves(n)

\* Mutant: the timer is armed when the anchor arrives, and never again.
WaitingOnce(n, ws, ds, D) ==
    {w \in Undecided(n, ws) \ {d.wave : d \in ds} :
        Anchor(n, D, w) # {} /\ Anchor(n, dag[n], w) = {}}

\* The waves with an anchor that are left without a decision and wait for the slow path.
Waiting(n, ws, ds, D) ==
    {w \in Undecided(n, ws) \ {d.wave : d \in ds} : Anchor(n, D, w) # {}}

\* Mutant: the timer of a wave that commits is not cancelled.
TimersNotCancelled(n, ws, ds, D) == slow_timer[n] \cup Waiting(n, ws, ds, D)

\* Timers are armed for waves that wait and cancelled for waves that commit.
Timers(n, ws, ds, D) == (slow_timer[n] \cup Waiting(n, ws, ds, D)) \ {d.wave : d \in ds}

\* A certified vertex has been ingested: every wave up to its own is tried.
on_certified_vertex(n, v) ==
    LET D  == dag[n] \cup {v}
        ws == 0 .. of_round(v.round)
        ds == UNION {try_commit_wave(n, D, w, FALSE) : w \in Undecided(n, ws)}
    IN  /\ dag' = [dag EXCEPT ![n] = D]
        /\ decisions' = [decisions EXCEPT ![n] = @ \cup ds]
        /\ slow_timer' = [slow_timer EXCEPT ![n] = Timers(n, ws, ds, D)]
        /\ emitted' = [emitted EXCEPT ![n] = @ \o NewMicroQcs(n, ds, D)]
        /\ UNCHANGED <<parents, beacon>>

\* The slow-path timer of wave w fires.  StateMachine::step does not call
\* on_local_micro_qcs for this event: L3 does not get the MicroQc (module Node).
on_timer_fired(n, w) ==
    LET ds == UNION {try_commit_wave(n, dag[n], x, TRUE) : x \in Undecided(n, {w})}
    IN  /\ w \in slow_timer[n]
        /\ slow_timer' = [slow_timer EXCEPT ![n] = @ \ {w}]
        /\ decisions' = [decisions EXCEPT ![n] = @ \cup ds]
        /\ emitted' = [emitted EXCEPT ![n] = @ \o NewMicroQcs(n, ds, dag[n])]
        /\ UNCHANGED <<parents, dag, beacon>>

\* The host persists a MacroQc.
adopt_macro_qc(n) ==
    /\ beacon[n] < MaxBeacon
    /\ beacon' = [beacon EXCEPT ![n] = @ + 1]
    /\ UNCHANGED <<parents, dag, decisions, slow_timer, emitted>>

\* A certificate arrives, for the first time or again.
Deliver(n, v) == /\ parents[v] \ Late \subseteq dag[n]
                 /\ on_certified_vertex(n, v)

Next == \E n \in Honest : \/ \E v \in Vertex : Deliver(n, v)
                          \/ \E w \in slow_timer[n] : on_timer_fired(n, w)
                          \/ adopt_macro_qc(n)

Spec == Init /\ [][Next]_vars

\* A certificate that has not arrived: the one n gets next.
DeliverNew(n) == \E v \in Vertex \ dag[n] : Deliver(n, v)

\* Certificates go on arriving until all of them have, and a timer that was armed
\* fires.
FairSpec ==
    /\ Spec
    /\ \A n \in Honest : /\ WF_vars(DeliverNew(n))
                         /\ \A w \in Wave : WF_vars(on_timer_fired(n, w))

-----------------------------------------------------------------------------
TypeOK ==
    /\ parents \in Dags
    /\ dag \in [Honest -> SUBSET Vertex]
    /\ beacon \in [Honest -> 0 .. MaxBeacon]
    /\ decisions \in [Honest -> SUBSET CommitDecision]
    /\ slow_timer \in [Honest -> SUBSET Wave]
    /\ emitted \in [Honest -> Seq(Seq(Vertex))]
    /\ \A n \in Honest : slow_timer[n] \cap committed_waves(n) = {}

\* One decision per wave, however the beacon, and with it the anchor, moves between
\* the evaluations of a wave: a wave yields one micro checkpoint at most.
OneDecisionPerWave ==
    \A n \in Honest : \A d, e \in decisions[n] : d.wave = e.wave => d = e

\* When certificates arrive in causal order, a micro checkpoint is the linearization
\* of the anchor's whole history, every vertex once, whatever else had arrived by then:
\* validators that commit an anchor emit the same checkpoint for it.
EmitsWholeHistory ==
    \A n \in Honest : \A c \in ToSet(emitted[n]) :
        /\ ToSet(c) = {c[1]} \cup Past(c[1], Vertex)
        /\ IsInjective(c)
        /\ c = closure_of_anchor(c[1], Vertex)

\* A wave that the shortcut commits is in the history of every vertex above its
\* window whose author runs this code, so that no later anchor of such an author can
\* leave it out: 2f+1 authors in a window of at most two rounds are f+1 in one of
\* them, and 2f+1 parents meet those.  A vertex with a single parent need not.
ShortcutStaysInHistory ==
    \A n \in Honest : \A d \in decisions[n], v \in Vertex :
        (d.path = "Shortcut" /\ v.author \in Correct /\ v.round > d.anchor.round + Shortcut)
            => vertex_reaches(v, d.anchor, Vertex)

\* The slow path is always open: a wave whose anchor has its 2f+1 supporters in the
\* slow window commits, even if its timer fired before they came.
Committable(w) ==
    \A b \in 0 .. MaxBeacon : LET a == [round |-> first_round(w), author |-> AnchorAuthor(w, b)]
                              IN  a \in Vertex /\ Supported(a, SlowPath, Vertex)
EveryWaveCommits ==
    \A n \in Honest, w \in Wave : Committable(w) ~> (w \in committed_waves(n))

=============================================================================
