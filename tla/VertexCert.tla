------------------------------ MODULE VertexCert ------------------------------
(***************************************************************************)
(* L1, distributed vertex certification: the `vertex_cert` handlers of the *)
(* consensus crate, run by every honest validator over a network that may  *)
(* delay, reorder, duplicate and lose messages.                            *)
(*                                                                         *)
(* A validator proposes one vertex per round, its peers sign it (a         *)
(* "partial"), the author aggregates 2f+1 partials into a certificate, and *)
(* a round is left when 2f+1 of its vertices are certified.                *)
(*                                                                         *)
(* Abstractions.  A vertex is named by its round, its author and a tag for *)
(* the blobs it carries; the tag stands for everything else the content    *)
(* hash covers, and the hash is collision free.  Signatures cannot be      *)
(* forged.  The network is the set of everything ever sent, from which any *)
(* message may be delivered any number of times, in any order, or never.   *)
(* Timer delays are abstracted: an armed timer may fire at any moment.     *)
(***************************************************************************)
EXTENDS Integers, FiniteSets

CONSTANTS Validator,   \* the validator set of epoch 0; numbers, so that they have the order of their ids
          Honest,      \* the validators that run this code
          Faulty,      \* validators that sign anything; the others are down
          Blobs,       \* tags for what a vertex carries
          Pending,     \* Pending[n]: the tags that pending_blobs.drain() may give n
          MaxRound,    \* bound: the last round that is proposed
          FaultyProposal \* bound: what faulty validators may propose

ASSUME ValidatorAssumption ==
    /\ Validator \subseteq Nat
    /\ IsFiniteSet(Validator)
    /\ Honest \subseteq Validator
    /\ Faulty \subseteq Validator
    /\ Honest \cap Faulty = {}

ASSUME PendingAssumption == Pending \in [Honest -> SUBSET Blobs]

ASSUME MaxRoundAssumption == MaxRound \in Nat

Round  == 0 .. MaxRound
Vertex == [round : Round, author : Validator, blobs : Blobs]

\* A proposal lists hashes of parents, and the list may name a parent twice:
\* `parents` are the vertices it names, and `repeats` of its entries name one that
\* another entry names already.
Proposal == [vertex : Vertex, parents : SUBSET Vertex, repeats : Nat]
ListLength(p) == Cardinality(p.parents) + p.repeats
Distinct(v, S) == [vertex |-> v, parents |-> S, repeats |-> 0]

ASSUME FaultyProposalAssumption ==
    /\ FaultyProposal \subseteq Proposal
    /\ \A p \in FaultyProposal : /\ p.vertex.author \in Faulty
                                 /\ p.parents = {} => p.repeats = 0

(***************************************************************************)
(* F is how many faulty validators the code's arithmetic allows for, and   *)
(* quorum_threshold how many signers or certificates make a quorum.        *)
(***************************************************************************)
F == (Cardinality(Validator) - 1) \div 3
\* Mutant: the threshold misses the "+ 1".
QuorumOfTwoThirds == 2 * F

quorum_threshold == 2 * F + 1

\* With one to three validators a vertex is certified by its author alone and
\* genesis_propose never returns (README, "Not modelled").
ASSUME QuorumAssumption == Cardinality(Validator) >= 4

VARIABLES book,        \* book[n]: the VertexBook of honest validator n
          proposals,   \* every VertexProposal ever broadcast
          partials,    \* every VERTEX_CERT signature of an honest validator
          certs,       \* every vertex for which a CertifiedVertex was broadcast
          evidence     \* every VertexEquivocation emitted

vars == <<book, proposals, partials, certs, evidence>>

SameSlot(v, w) == v.round = w.round /\ v.author = w.author
Slot(v) == <<v.round, v.author>>

Partial  == [vertex : Vertex, voter : Honest]
Evidence == [offender : Validator, first : Vertex, second : Vertex]

VertexBook == [current_round      : Round,
               started            : BOOLEAN,
               certified_by_round : SUBSET Vertex,
               my_proposals       : SUBSET Vertex,
               collecting         : SUBSET (Vertex \X Validator),
               emitted_certs      : SUBSET Vertex,
               proposals_seen     : SUBSET Vertex,
               voted              : SUBSET (Round \X Validator),
               round_timer        : BOOLEAN]

NewBook == [current_round      |-> 0,
            started            |-> FALSE,
            certified_by_round |-> {},
            my_proposals       |-> {},
            collecting         |-> {},
            emitted_certs      |-> {},
            proposals_seen     |-> {},
            voted              |-> {},
            round_timer        |-> FALSE]

Init == /\ book = [n \in Honest |-> NewBook]
        /\ proposals = {}
        /\ partials = {}
        /\ certs = {}
        /\ evidence = {}

-----------------------------------------------------------------------------
(***************************************************************************)
(* What a VertexBook answers.                                              *)
(***************************************************************************)

CertifiedAt(b, r) == {v \in b.certified_by_round : v.round = r}

HasQuorum(b, r) == Cardinality(CertifiedAt(b, r)) >= quorum_threshold

\* The first quorum_threshold certificates of round r in author order.
ParentsFor(b, r) ==
    {v \in CertifiedAt(b, r) :
        Cardinality({w \in CertifiedAt(b, r) : w.author < v.author}) < quorum_threshold}

round_in_window(b, r) == r + 1 >= b.current_round /\ r <= b.current_round + 1

\* Mutant: the parents are counted but not looked up.
ParentsCounted(b, p) ==
    p.vertex.round > 0 => ListLength(p) >= quorum_threshold

\* What voting requires of a proposal's parents: a list that is long enough, each
\* entry certified.  That the entries differ is not asked.
ParentsCertified(b, p) ==
    IF p.vertex.round > 0
    THEN /\ ListLength(p) >= quorum_threshold
         /\ p.parents \subseteq CertifiedAt(b, p.vertex.round - 1)
    ELSE p.parents = {}

\* Whose partial for v may arrive: a faulty validator signs whatever helps it.
Signers(v) == {m \in Honest : [vertex |-> v, voter |-> m] \in partials} \cup Faulty

-----------------------------------------------------------------------------
(***************************************************************************)
(* What the handlers do to a VertexBook.                                   *)
(***************************************************************************)

record_cert(b, v) ==
    [b EXCEPT !.certified_by_round = {w \in @ : ~SameSlot(w, v)} \cup {v}]

\* Mutant: the round counter runs ahead of the proposal.
ProposeAhead(b, n, own, r) ==
    [b EXCEPT !.current_round  = r + 1,
              !.my_proposals   = @ \cup own,
              !.collecting     = @ \cup {<<v, n>> : v \in own},
              !.voted          = @ \cup {Slot(v) : v \in own},
              !.proposals_seen = @ \cup own,
              !.round_timer    = @ \/ own # {}]

\* The effect of propose_round on the book, for all the vertices `own`.  The
\* self-vote is seeded directly and the fallback timer is armed.
Propose(b, n, own, r) ==
    [b EXCEPT !.current_round  = r,
              !.my_proposals   = @ \cup own,
              !.collecting     = @ \cup {<<v, n>> : v \in own},
              !.voted          = @ \cup {Slot(v) : v \in own},
              !.proposals_seen = @ \cup own,
              !.round_timer    = @ \/ own # {}]

\* Mutant: votes of the round below, still in the window, are forgotten too.
PruneVotesTooSoon(b) ==
    LET keep(r) == r >= b.current_round
    IN  [b EXCEPT !.proposals_seen = {v \in @ : keep(v.round)},
                  !.voted          = {s \in @ : keep(s[1])}]

\* Everything below current_round - 1 is forgotten.
Prune(b) ==
    LET keep(r) == r + 1 >= b.current_round
    IN  [b EXCEPT !.certified_by_round = {v \in @ : keep(v.round)},
                  !.my_proposals       = {v \in @ : keep(v.round)},
                  !.collecting         = {c \in @ : keep(c[1].round)},
                  !.emitted_certs      = {v \in @ : keep(v.round)},
                  !.proposals_seen     = {v \in @ : keep(v.round)},
                  !.voted              = {s \in @ : keep(s[1])}]

\* Mutant: an "if" where the code loops.
AdvancesOneRound(b, r) ==
    r = IF HasQuorum(b, b.current_round) THEN b.current_round + 1 ELSE b.current_round

\* The book after maybe_advance proposed `own` up to round r.
Advanced(b, n, own, r) == Prune(Propose(b, n, own, r))

\* The loop of maybe_advance, run on book b, stops in round r.
AdvancesTo(b, r) == /\ r >= b.current_round
                    /\ \A q \in b.current_round .. (r - 1) : HasQuorum(b, q)
                    /\ ~HasQuorum(b, r)

\* maybe_advance: propose every round that a quorum opens, then prune.  b is
\* the book of n with what the calling handler has already put into it.
maybe_advance(n, b) ==
    \E r \in Round :
    \E blobs \in [(b.current_round + 1) .. r -> Pending[n]] :
        LET vertex(q) == [round |-> q, author |-> n, blobs |-> blobs[q]]
            own == {vertex(q) : q \in (b.current_round + 1) .. r}
        IN  /\ AdvancesTo(b, r)
            /\ book' = [book EXCEPT ![n] = Advanced(b, n, own, r)]
            /\ proposals' = proposals \cup
                   {Distinct(v, ParentsFor(b, v.round - 1)) : v \in own}
            /\ partials' = partials \cup {[vertex |-> v, voter |-> n] : v \in own}

-----------------------------------------------------------------------------
(***************************************************************************)
(* The handlers.  The host calls genesis_propose before its event loop, so *)
(* every other handler runs on a started book.                             *)
(***************************************************************************)

\* The book after genesis_propose proposed v.
Started(b, n, v) == Propose([b EXCEPT !.started = TRUE], n, {v}, 0)

\* Mutant: the `started` guard is missing.
GenesisAgain(n) ==
    /\ \E blobs \in Pending[n] :
         LET v == [round |-> 0, author |-> n, blobs |-> blobs]
         IN  /\ book' = [book EXCEPT ![n] = Started(@, n, v)]
             /\ proposals' = proposals \cup {Distinct(v, {})}
             /\ partials' = partials \cup {[vertex |-> v, voter |-> n]}
    /\ UNCHANGED <<certs, evidence>>

genesis_propose(n) ==
    /\ ~book[n].started
    /\ \E blobs \in Pending[n] :
         LET v == [round |-> 0, author |-> n, blobs |-> blobs]
         IN  /\ book' = [book EXCEPT ![n] = Started(@, n, v)]
             /\ proposals' = proposals \cup {Distinct(v, {})}
             /\ partials' = partials \cup {[vertex |-> v, voter |-> n]}
    /\ UNCHANGED <<certs, evidence>>

\* The checks that every proposal passes before it is looked at.
Admissible(n, p) == /\ book[n].started
                    /\ p.vertex.author # n
                    /\ round_in_window(book[n], p.vertex.round)

\* Mutant: a re-broadcast counts as a second vertex.
ReportRebroadcast(n, p) ==
    /\ Admissible(n, p)
    /\ \E s \in book[n].proposals_seen :
         /\ SameSlot(s, p.vertex)
         /\ evidence' = evidence \cup
                {[offender |-> p.vertex.author, first |-> s, second |-> p.vertex]}
    /\ UNCHANGED <<book, proposals, partials, certs>>

\* A second vertex of the same author in the same round.
ReportEquivocation(n, p) ==
    /\ Admissible(n, p)
    /\ \E s \in book[n].proposals_seen :
         /\ SameSlot(s, p.vertex)
         /\ s # p.vertex
         /\ evidence' = evidence \cup
                {[offender |-> p.vertex.author, first |-> s, second |-> p.vertex]}
    /\ UNCHANGED <<book, proposals, partials, certs>>

NoOtherSeen(n, p) ==
    \A s \in book[n].proposals_seen : SameSlot(s, p.vertex) => s = p.vertex

MayVote(n, p) == /\ ParentsCertified(book[n], p)
                 /\ Slot(p.vertex) \notin book[n].voted

\* The proposal is remembered but its parents are not certified yet, or the
\* vote was given already.
HoldProposal(n, p) ==
    /\ Admissible(n, p)
    /\ NoOtherSeen(n, p)
    /\ ~MayVote(n, p)
    /\ book' = [book EXCEPT ![n].proposals_seen = @ \cup {p.vertex}]
    /\ UNCHANGED <<proposals, partials, certs, evidence>>

VoteForProposal(n, p) ==
    /\ Admissible(n, p)
    /\ NoOtherSeen(n, p)
    /\ MayVote(n, p)
    /\ book' = [book EXCEPT ![n].proposals_seen = @ \cup {p.vertex},
                            ![n].voted = @ \cup {Slot(p.vertex)}]
    /\ partials' = partials \cup {[vertex |-> p.vertex, voter |-> n]}
    /\ UNCHANGED <<proposals, certs, evidence>>

on_vertex_proposal(n, p) == \/ ReportEquivocation(n, p)
                            \/ HoldProposal(n, p)
                            \/ VoteForProposal(n, p)

\* The author's book with the partial of m for v put into it.
Collected(n, v, m) == [book[n] EXCEPT !.collecting = @ \cup {<<v, m>>}]

\* try_finalize emits a certificate for v from book b.
Finalizes(b, v) ==
    /\ v \notin b.emitted_certs
    /\ Cardinality({m \in Validator : <<v, m>> \in b.collecting}) >= quorum_threshold

NewPartial(n, v, m) == /\ book[n].started
                       /\ v \in book[n].my_proposals
                       /\ m \in Signers(v) \ {n}
                       /\ <<v, m>> \notin book[n].collecting

CollectPartial(n, v, m) ==
    /\ NewPartial(n, v, m)
    /\ ~Finalizes(Collected(n, v, m), v)
    /\ book' = [book EXCEPT ![n] = Collected(n, v, m)]
    /\ UNCHANGED <<proposals, partials, certs, evidence>>

\* The partial completes a quorum: the certificate is broadcast, recorded, and
\* may open the next round.
CertifyVertex(n, v, m) ==
    /\ NewPartial(n, v, m)
    /\ Finalizes(Collected(n, v, m), v)
    /\ certs' = certs \cup {v}
    /\ maybe_advance(n, record_cert([Collected(n, v, m) EXCEPT !.emitted_certs = @ \cup {v}], v))
    /\ UNCHANGED evidence

on_vertex_partial(n, v, m) == CollectPartial(n, v, m) \/ CertifyVertex(n, v, m)

on_certified_vertex(n, v) ==
    /\ book[n].started
    /\ maybe_advance(n, record_cert(book[n], v))
    /\ UNCHANGED <<certs, evidence>>

\* The fallback timer.  Rebroadcasting puts nothing new into the set of
\* everything sent (module VertexLoss is about what it recovers).
on_timer_fired(n) ==
    /\ book[n].round_timer
    /\ book' = [book EXCEPT ![n].round_timer = ~HasQuorum(book[n], book[n].current_round)]
    /\ UNCHANGED <<proposals, partials, certs, evidence>>

-----------------------------------------------------------------------------
(***************************************************************************)
(* What a faulty validator can do beyond signing: propose what it likes,   *)
(* several vertices in one round included (the hash binds a vertex to its  *)
(* parents), and aggregate whatever signatures there are.                  *)
(***************************************************************************)

FaultyPropose(p) ==
    /\ \A q \in proposals : q.vertex # p.vertex
    /\ proposals' = proposals \cup {p}
    /\ UNCHANGED <<book, partials, certs, evidence>>

FaultyCertify(p) ==
    /\ p.vertex.author \in Faulty
    /\ Cardinality(Signers(p.vertex)) >= quorum_threshold
    /\ certs' = certs \cup {p.vertex}
    /\ UNCHANGED <<book, proposals, partials, evidence>>

-----------------------------------------------------------------------------
HonestNext ==
    \E n \in Honest :
       \/ genesis_propose(n)
       \/ \E p \in proposals : on_vertex_proposal(n, p)
       \/ \E p \in proposals, m \in Validator : on_vertex_partial(n, p.vertex, m)
       \/ \E v \in certs : on_certified_vertex(n, v)
       \/ on_timer_fired(n)

FaultyNext ==
    \/ \E p \in FaultyProposal : FaultyPropose(p)
    \/ \E p \in proposals : FaultyCertify(p)

Next == HonestNext \/ FaultyNext

Spec == Init /\ [][Next]_vars

-----------------------------------------------------------------------------
(***************************************************************************)
(* Properties.                                                             *)
(***************************************************************************)

\* Every piece of state has the shape the code gives it.
TypeOK == /\ book \in [Honest -> VertexBook]
          /\ proposals \subseteq Proposal
          /\ partials \subseteq Partial
          /\ certs \subseteq Vertex
          /\ evidence \subseteq Evidence

\* "One vote per (round, author)": an honest validator never signs two vertices
\* of one author in one round, although maybe_advance forgets `voted` and
\* `proposals_seen` below current_round - 1.
OneVotePerSlot ==
    \A x, y \in partials :
        x.voter = y.voter /\ SameSlot(x.vertex, y.vertex) => x.vertex = y.vertex

\* At most one vertex of an author is ever certified in a round, so that
\* record_cert, which keeps one hash per (round, author), never overwrites.
CertUnique == \A v, w \in certs : SameSlot(v, w) => v = w

\* "Parents are always certified": a certified vertex above round 0 has parents,
\* all of the round below and all certified, and a quorum of them when its author
\* runs this code.  Of another author the voters only count the list's entries.
CausalHistory ==
    \A p \in proposals :
        p.vertex \in certs /\ p.vertex.round > 0 =>
            /\ p.parents # {}
            /\ p.parents \subseteq certs
            /\ \A v \in p.parents : v.round = p.vertex.round - 1
            /\ p.vertex.author \in Honest => Cardinality(p.parents) >= quorum_threshold

\* vertex_equivocation::verify.  The signature of an honest author is on what it
\* has proposed, that of a faulty one on anything.
ProposerSigned(v) == v.author \in Faulty \/ \E p \in proposals : p.vertex = v
verify_evidence(e) ==
    /\ e.first.author = e.offender /\ e.second.author = e.offender
    /\ e.first.round = e.second.round /\ e.first # e.second
    /\ ProposerSigned(e.first) /\ ProposerSigned(e.second)

\* Equivocation evidence passes the verifier that slashes with it, and never names
\* a validator that runs this code.
NoHonestAccused == \A e \in evidence : verify_evidence(e) /\ e.offender \in Faulty

\* "Never a round jump": a started validator has proposed exactly one vertex in
\* every round up to its current one and none above it.
ProposesEveryRoundOnce ==
    \A n \in Honest : book[n].started =>
        \A r \in Round :
            LET mine == {p \in proposals : p.vertex.author = n /\ p.vertex.round = r}
            IN  IF r <= book[n].current_round THEN Cardinality(mine) = 1 ELSE mine = {}

\* A started validator always has its fallback timer armed, and the proposal of
\* its current round to re-broadcast: no event leaves it in a round that already
\* has a quorum, where on_timer_fired would not re-arm.
FallbackTimerArmed ==
    \A n \in Honest : book[n].started =>
        /\ book[n].round_timer
        /\ ~HasQuorum(book[n], book[n].current_round)
        /\ \E v \in book[n].my_proposals : v.round = book[n].current_round

=============================================================================
