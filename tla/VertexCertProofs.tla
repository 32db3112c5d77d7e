--------------------------- MODULE VertexCertProofs ---------------------------
(***************************************************************************)
(* Theorems about VertexCert, for every validator set, every set of faulty *)
(* validators and every number of rounds: certificates are unique, and the *)
(* DAG that they make up is what L2 builds on.  Certified vertices stand   *)
(* on certified parents (a quorum of them where the author runs this       *)
(* code), honest validators propose one vertex in every round and are      *)
(* never accused of more, and no handler leaves a validator in a round     *)
(* without its fallback timer.                                             *)
(***************************************************************************)
EXTENDS VertexCert, FiniteSetTheorems, WellFoundedInduction, TLAPS

USE DEF Distinct

-----------------------------------------------------------------------------
(***************************************************************************)
(* What the book handlers do, field by field.                              *)
(***************************************************************************)

\* What Prune leaves of vertices, of partials and of votes in round r, the ones
\* that were just added for `own` included.
Kept(S, own, r) == {v \in S \cup own : v.round + 1 >= r}
KeptPartials(S, n, own, r) == {x \in S \cup {<<v, n>> : v \in own} : x[1].round + 1 >= r}
KeptVotes(S, own, r) == {s \in S \cup {Slot(v) : v \in own} : s[1] + 1 >= r}

\* maybe_advance on book b: the fields of the new book.
LEMMA AdvancedFields ==
    ASSUME NEW b \in VertexBook, NEW n \in Honest, NEW own \in SUBSET Vertex, NEW r \in Round
    PROVE  LET c == Advanced(b, n, own, r) IN
           /\ c \in VertexBook
           /\ c.current_round = r
           /\ c.started <=> b.started
           /\ c.certified_by_round = Kept(b.certified_by_round, {}, r)
           /\ c.my_proposals = Kept(b.my_proposals, own, r)
           /\ c.collecting = KeptPartials(b.collecting, n, own, r)
           /\ c.emitted_certs = Kept(b.emitted_certs, {}, r)
           /\ c.proposals_seen = Kept(b.proposals_seen, own, r)
           /\ c.voted = KeptVotes(b.voted, own, r)
           /\ c.round_timer <=> (b.round_timer \/ own # {})
  <1> DEFINE p == Propose(b, n, own, r)
             c == Advanced(b, n, own, r)
  <1>c. c = Prune(p)
    BY DEF Advanced
  <1>n. n \in Validator
    BY ValidatorAssumption
  <1>1. /\ p \in VertexBook
        /\ p.current_round = r
        /\ p.started = b.started
        /\ p.certified_by_round = b.certified_by_round
        /\ p.my_proposals = b.my_proposals \cup own
        /\ p.collecting = b.collecting \cup {<<v, n>> : v \in own}
        /\ p.emitted_certs = b.emitted_certs
        /\ p.proposals_seen = b.proposals_seen \cup own
        /\ p.voted = b.voted \cup {Slot(v) : v \in own}
        /\ p.round_timer = (b.round_timer \/ own # {})
    <2>1. /\ {<<v, n>> : v \in own} \subseteq Vertex \X Validator
          /\ {Slot(v) : v \in own} \subseteq Round \X Validator
      BY <1>n DEF Slot, Vertex
    <2>2. (b.round_timer \/ own # {}) \in BOOLEAN
      OBVIOUS
    <2> QED BY <2>1, <2>2 DEF Propose, VertexBook
  <1>2. QED
    <2> HIDE DEF p, c
    <2>1. c = [p EXCEPT !.certified_by_round = {v \in p.certified_by_round : v.round + 1 >= r},
                        !.my_proposals       = {v \in p.my_proposals : v.round + 1 >= r},
                        !.collecting         = {x \in p.collecting : x[1].round + 1 >= r},
                        !.emitted_certs      = {v \in p.emitted_certs : v.round + 1 >= r},
                        !.proposals_seen     = {v \in p.proposals_seen : v.round + 1 >= r},
                        !.voted              = {s \in p.voted : s[1] + 1 >= r}]
      BY <1>1, <1>c DEF Prune
    <2> DEFINE cert == {v \in p.certified_by_round : v.round + 1 >= r}
               mine == {v \in p.my_proposals : v.round + 1 >= r}
               coll == {x \in p.collecting : x[1].round + 1 >= r}
               emit == {v \in p.emitted_certs : v.round + 1 >= r}
               seen == {v \in p.proposals_seen : v.round + 1 >= r}
               vote == {s \in p.voted : s[1] + 1 >= r}
    <2>2. /\ cert \in SUBSET Vertex
          /\ mine \in SUBSET Vertex
          /\ coll \in SUBSET (Vertex \X Validator)
          /\ emit \in SUBSET Vertex
          /\ seen \in SUBSET Vertex
          /\ vote \in SUBSET (Round \X Validator)
      BY <1>1 DEF VertexBook
    <2>3. c = [p EXCEPT !.certified_by_round = cert, !.my_proposals = mine,
                        !.collecting = coll, !.emitted_certs = emit,
                        !.proposals_seen = seen, !.voted = vote]
      BY <2>1
    <2> HIDE DEF cert, mine, coll, emit, seen, vote
    <2>4. /\ c \in VertexBook
          /\ c.current_round = p.current_round
          /\ c.started = p.started
          /\ c.certified_by_round = cert
          /\ c.my_proposals = mine
          /\ c.collecting = coll
          /\ c.emitted_certs = emit
          /\ c.proposals_seen = seen
          /\ c.voted = vote
          /\ c.round_timer = p.round_timer
      BY <2>2, <2>3, <1>1 DEF VertexBook
    <2> QED BY <2>4, <1>1 DEF c, p, cert, mine, coll, emit, seen, vote,
                            Kept, KeptPartials, KeptVotes

\* propose_round after genesis: the fields of the new book.
LEMMA GenesisFields ==
    ASSUME NEW b \in VertexBook, NEW n \in Honest, NEW v \in Vertex
    PROVE  LET c == Started(b, n, v) IN
           /\ c \in VertexBook
           /\ c.current_round = 0
           /\ c.started
           /\ c.certified_by_round = b.certified_by_round
           /\ c.my_proposals = b.my_proposals \cup {v}
           /\ c.collecting = b.collecting \cup {<<v, n>>}
           /\ c.proposals_seen = b.proposals_seen \cup {v}
           /\ c.voted = b.voted \cup {Slot(v)}
           /\ c.round_timer
  <1>1. /\ {<<w, n>> : w \in {v}} = {<<v, n>>}
        /\ {Slot(w) : w \in {v}} = {Slot(v)}
        /\ (b.round_timer \/ {v} # {}) = TRUE
    OBVIOUS
  <1>2. /\ <<v, n>> \in Vertex \X Validator
        /\ Slot(v) \in Round \X Validator
        /\ 0 \in Round
    BY ValidatorAssumption, MaxRoundAssumption DEF Slot, Vertex, Round
  <1> QED BY <1>1, <1>2 DEF Started, Propose, VertexBook

\* record_cert: only the certificates change.
LEMMA RecordFields ==
    ASSUME NEW b \in VertexBook, NEW v \in Vertex
    PROVE  LET c == record_cert(b, v) IN
           /\ c \in VertexBook
           /\ c.current_round = b.current_round
           /\ c.started = b.started
           /\ c.certified_by_round = {w \in b.certified_by_round : ~SameSlot(w, v)} \cup {v}
           /\ c.my_proposals = b.my_proposals
           /\ c.collecting = b.collecting
           /\ c.emitted_certs = b.emitted_certs
           /\ c.proposals_seen = b.proposals_seen
           /\ c.voted = b.voted
           /\ c.round_timer = b.round_timer
  <1> DEFINE known == {w \in b.certified_by_round : ~SameSlot(w, v)} \cup {v}
  <1>1. known \in SUBSET Vertex
    BY DEF VertexBook
  <1>2. record_cert(b, v) = [b EXCEPT !.certified_by_round = known]
    BY DEF record_cert
  <1> HIDE DEF known
  <1>3. LET c == record_cert(b, v) IN
           /\ c \in VertexBook
           /\ c.current_round = b.current_round
           /\ c.started = b.started
           /\ c.certified_by_round = known
           /\ c.my_proposals = b.my_proposals
           /\ c.collecting = b.collecting
           /\ c.emitted_certs = b.emitted_certs
           /\ c.proposals_seen = b.proposals_seen
           /\ c.voted = b.voted
           /\ c.round_timer = b.round_timer
    BY <1>1, <1>2 DEF VertexBook
  <1> QED BY <1>3 DEF known

\* What a step of maybe_advance amounts to: the vertices `own` of consecutive
\* rounds are proposed and voted for, and the book is that of AdvancedFields.
LEMMA AdvanceStep ==
    ASSUME TypeOK, NEW n \in Honest, NEW b \in VertexBook, maybe_advance(n, b)
    PROVE  \E r \in Round, own \in SUBSET Vertex :
             /\ AdvancesTo(b, r)
             /\ \A v \in own : v.author = n /\ b.current_round < v.round /\ v.round <= r
             /\ \A q \in (b.current_round + 1) .. r : \E v \in own : v.round = q
             /\ \A v, w \in own : v.round = w.round => v = w
             /\ book' = [book EXCEPT ![n] = Advanced(b, n, own, r)]
             /\ proposals' = proposals \cup
                   {Distinct(v, ParentsFor(b, v.round - 1)) : v \in own}
             /\ partials' = partials \cup {[vertex |-> v, voter |-> n] : v \in own}
  <1>0. PICK r \in Round :
          \E blobs \in [(b.current_round + 1) .. r -> Pending[n]] :
          LET vertex(q) == [round |-> q, author |-> n, blobs |-> blobs[q]]
              own == {vertex(q) : q \in (b.current_round + 1) .. r}
          IN  /\ AdvancesTo(b, r)
              /\ book' = [book EXCEPT ![n] = Advanced(b, n, own, r)]
              /\ proposals' = proposals \cup
                     {Distinct(v, ParentsFor(b, v.round - 1)) : v \in own}
              /\ partials' = partials \cup {[vertex |-> v, voter |-> n] : v \in own}
    BY DEF maybe_advance
  <1>1. PICK blobs \in [(b.current_round + 1) .. r -> Pending[n]] :
          LET vertex(q) == [round |-> q, author |-> n, blobs |-> blobs[q]]
              own == {vertex(q) : q \in (b.current_round + 1) .. r}
          IN  /\ AdvancesTo(b, r)
              /\ book' = [book EXCEPT ![n] = Advanced(b, n, own, r)]
              /\ proposals' = proposals \cup
                     {Distinct(v, ParentsFor(b, v.round - 1)) : v \in own}
              /\ partials' = partials \cup {[vertex |-> v, voter |-> n] : v \in own}
    BY <1>0
  <1> DEFINE own == {[round |-> q, author |-> n, blobs |-> blobs[q]] :
                        q \in (b.current_round + 1) .. r}
  <1>2. b.current_round \in Nat /\ r \in Nat /\ MaxRound \in Nat /\ r <= MaxRound
    BY MaxRoundAssumption DEF VertexBook, Round
  <1>3. n \in Validator /\ Pending[n] \subseteq Blobs
    BY ValidatorAssumption, PendingAssumption
  <1>4. \A q \in (b.current_round + 1) .. r : q \in Round /\ blobs[q] \in Blobs
    BY <1>2, <1>3 DEF Round
  <1>5. own \in SUBSET Vertex
    BY <1>3, <1>4 DEF Vertex
  <1>6. \A v \in own : v.author = n /\ b.current_round < v.round /\ v.round <= r
    BY <1>2
  <1>7. \A v, w \in own : v.round = w.round => v = w
    OBVIOUS
  <1>8. \A q \in (b.current_round + 1) .. r : \E v \in own : v.round = q
    <2> TAKE q \in (b.current_round + 1) .. r
    <2> DEFINE v == [round |-> q, author |-> n, blobs |-> blobs[q]]
    <2>1. v \in own /\ v.round = q
      OBVIOUS
    <2> QED BY <2>1
  <1> QED BY <1>1, <1>5, <1>6, <1>7, <1>8

-----------------------------------------------------------------------------
(***************************************************************************)
(* Type correctness.                                                       *)
(***************************************************************************)

LEMMA CollectedFields ==
    ASSUME TypeOK, NEW n \in Honest, NEW v \in Vertex, NEW m \in Validator
    PROVE  LET c == Collected(n, v, m)
               e == [c EXCEPT !.emitted_certs = @ \cup {v}] IN
           /\ c \in VertexBook
           /\ c.current_round = book[n].current_round
           /\ c.started = book[n].started
           /\ c.certified_by_round = book[n].certified_by_round
           /\ c.my_proposals = book[n].my_proposals
           /\ c.collecting = book[n].collecting \cup {<<v, m>>}
           /\ c.proposals_seen = book[n].proposals_seen
           /\ c.voted = book[n].voted
           /\ c.round_timer = book[n].round_timer
           /\ e \in VertexBook
           /\ e.current_round = book[n].current_round
           /\ e.started = book[n].started
           /\ e.certified_by_round = book[n].certified_by_round
           /\ e.my_proposals = book[n].my_proposals
           /\ e.collecting = book[n].collecting \cup {<<v, m>>}
           /\ e.proposals_seen = book[n].proposals_seen
           /\ e.voted = book[n].voted
           /\ e.round_timer = book[n].round_timer
  <1> DEFINE b == book[n]
             coll == b.collecting \cup {<<v, m>>}
             emit == b.emitted_certs \cup {v}
             c == [b EXCEPT !.collecting = coll]
             e == [c EXCEPT !.emitted_certs = emit]
  <1>1. b \in VertexBook
    BY DEF TypeOK
  <1>2. coll \in SUBSET (Vertex \X Validator) /\ emit \in SUBSET Vertex
    BY <1>1 DEF VertexBook
  <1>3. c = Collected(n, v, m)
    BY DEF Collected
  <1> HIDE DEF b, coll, emit
  <1>4. /\ c \in VertexBook
        /\ c.current_round = b.current_round
        /\ c.started = b.started
        /\ c.certified_by_round = b.certified_by_round
        /\ c.my_proposals = b.my_proposals
        /\ c.collecting = coll
        /\ c.emitted_certs = b.emitted_certs
        /\ c.proposals_seen = b.proposals_seen
        /\ c.voted = b.voted
        /\ c.round_timer = b.round_timer
    BY <1>1, <1>2 DEF VertexBook
  <1> HIDE DEF c
  <1>5. /\ e \in VertexBook
        /\ e.current_round = c.current_round
        /\ e.started = c.started
        /\ e.certified_by_round = c.certified_by_round
        /\ e.my_proposals = c.my_proposals
        /\ e.collecting = c.collecting
        /\ e.proposals_seen = c.proposals_seen
        /\ e.voted = c.voted
        /\ e.round_timer = c.round_timer
    BY <1>2, <1>4 DEF VertexBook
  <1>6. e = [c EXCEPT !.emitted_certs = @ \cup {v}]
    BY <1>4 DEF emit
  <1> HIDE DEF e
  <1>7. e = [Collected(n, v, m) EXCEPT !.emitted_certs = @ \cup {v}]
    BY <1>3, <1>6
  <1> QED BY <1>3, <1>4, <1>5, <1>7 DEF b, coll

\* Seeing a proposal, and voting for it.
LEMMA SeenFields ==
    ASSUME NEW b \in VertexBook, NEW v \in Vertex
    PROVE  LET s == [b EXCEPT !.proposals_seen = @ \cup {v}]
               c == [b EXCEPT !.proposals_seen = @ \cup {v}, !.voted = @ \cup {Slot(v)}] IN
           /\ s \in VertexBook
           /\ c \in VertexBook
  <1> DEFINE seen == b.proposals_seen \cup {v}
             vote == b.voted \cup {Slot(v)}
  <1>1. seen \in SUBSET Vertex /\ vote \in SUBSET (Round \X Validator)
    BY DEF VertexBook, Slot, Vertex
  <1> HIDE DEF seen, vote
  <1>2. /\ [b EXCEPT !.proposals_seen = seen] \in VertexBook
        /\ [b EXCEPT !.proposals_seen = seen, !.voted = vote] \in VertexBook
    BY <1>1 DEF VertexBook
  <1> QED BY <1>2 DEF seen, vote

LEMMA TimerFields ==
    ASSUME NEW b \in VertexBook, NEW t \in BOOLEAN
    PROVE  [b EXCEPT !.round_timer = t] \in VertexBook
  BY DEF VertexBook

\* The book that maybe_advance is called with in CertifyVertex.
CertifiedBook(n, v, m) ==
    record_cert([Collected(n, v, m) EXCEPT !.emitted_certs = @ \cup {v}], v)

LEMMA TypeInit == Init => TypeOK
  <1>1. NewBook \in VertexBook
    BY MaxRoundAssumption DEF NewBook, VertexBook, Round
  <1> QED BY <1>1 DEF Init, TypeOK

\* What maybe_advance does to the types.
LEMMA AdvanceTypes ==
    ASSUME TypeOK, NEW n \in Honest, NEW b \in VertexBook, maybe_advance(n, b)
    PROVE  /\ book' \in [Honest -> VertexBook]
           /\ proposals' \subseteq Proposal
           /\ partials' \subseteq Partial
  <1>1. PICK r \in Round, own \in SUBSET Vertex :
             /\ book' = [book EXCEPT ![n] = Advanced(b, n, own, r)]
             /\ proposals' = proposals \cup
                   {Distinct(v, ParentsFor(b, v.round - 1)) : v \in own}
             /\ partials' = partials \cup {[vertex |-> v, voter |-> n] : v \in own}
    BY AdvanceStep
  <1>2. Advanced(b, n, own, r) \in VertexBook
    BY AdvancedFields
  <1>3. \A q : ParentsFor(b, q) \subseteq Vertex
    BY DEF ParentsFor, CertifiedAt, VertexBook
  <1>4. book' \in [Honest -> VertexBook]
    BY <1>1, <1>2 DEF TypeOK
  <1>5. proposals' \subseteq Proposal
    BY <1>1, <1>3 DEF TypeOK, Proposal
  <1>6. partials' \subseteq Partial
    BY <1>1 DEF TypeOK, Partial
  <1> QED BY <1>4, <1>5, <1>6

LEMMA TypeNext == TypeOK /\ [Next]_vars => TypeOK'
  <1> SUFFICES ASSUME TypeOK, [Next]_vars PROVE TypeOK'
    OBVIOUS
  <1>1. ASSUME NEW n \in Honest, genesis_propose(n) PROVE TypeOK'
    <2>1. PICK blobs \in Pending[n] :
            LET v == [round |-> 0, author |-> n, blobs |-> blobs]
            IN  /\ book' = [book EXCEPT ![n] = Started(book[n], n, v)]
                /\ proposals' = proposals \cup {Distinct(v, {})}
                /\ partials' = partials \cup {[vertex |-> v, voter |-> n]}
      BY <1>1 DEF genesis_propose, TypeOK
    <2> DEFINE v == [round |-> 0, author |-> n, blobs |-> blobs]
    <2>2. v \in Vertex
      BY ValidatorAssumption, PendingAssumption, MaxRoundAssumption DEF Vertex, Round
    <2>3. Started(book[n], n, v) \in VertexBook
      BY <2>2, GenesisFields DEF TypeOK
    <2>4. book' \in [Honest -> VertexBook]
      BY <2>1, <2>3 DEF TypeOK
    <2> QED BY <2>1, <2>2, <2>4, <1>1 DEF TypeOK, genesis_propose, Proposal, Partial
  <1>2. ASSUME NEW n \in Honest, NEW p \in proposals, on_vertex_proposal(n, p) PROVE TypeOK'
    <2>1. p.vertex \in Vertex /\ Slot(p.vertex) \in Round \X Validator /\ p.vertex.author \in Validator
      BY DEF TypeOK, Proposal, Vertex, Slot
    <2>2. CASE ReportEquivocation(n, p)
      BY <2>1, <2>2 DEF ReportEquivocation, TypeOK, VertexBook, Evidence
    <2>3. CASE HoldProposal(n, p)
      BY <2>1, <2>3, SeenFields DEF HoldProposal, TypeOK
    <2>4. CASE VoteForProposal(n, p)
      <3>1. book' = [book EXCEPT ![n] = [book[n] EXCEPT !.proposals_seen = @ \cup {p.vertex},
                                                        !.voted = @ \cup {Slot(p.vertex)}]]
        BY <2>4 DEF VoteForProposal, TypeOK
      <3>2. book' \in [Honest -> VertexBook]
        BY <2>1, <3>1, SeenFields DEF TypeOK
      <3> QED BY <2>1, <2>4, <3>2 DEF VoteForProposal, TypeOK, Partial
    <2> QED BY <1>2, <2>2, <2>3, <2>4 DEF on_vertex_proposal
  <1>3. ASSUME NEW n \in Honest, NEW v \in Vertex, NEW m \in Validator, on_vertex_partial(n, v, m)
        PROVE  TypeOK'
    <2>1. CASE CollectPartial(n, v, m)
      BY <2>1, CollectedFields DEF CollectPartial, TypeOK
    <2>2. CASE CertifyVertex(n, v, m)
      <3>1. CertifiedBook(n, v, m) \in VertexBook
        BY CollectedFields, RecordFields DEF CertifiedBook
      <3>2. maybe_advance(n, CertifiedBook(n, v, m))
        BY <2>2 DEF CertifyVertex, CertifiedBook
      <3> QED BY <3>1, <3>2, <2>2, AdvanceTypes DEF CertifyVertex, TypeOK
    <2> QED BY <1>3, <2>1, <2>2 DEF on_vertex_partial
  <1>4. ASSUME NEW n \in Honest, NEW v \in certs, on_certified_vertex(n, v) PROVE TypeOK'
    <2>1. v \in Vertex /\ book[n] \in VertexBook
      BY DEF TypeOK
    <2>2. record_cert(book[n], v) \in VertexBook
      BY <2>1, RecordFields
    <2> QED BY <2>2, <1>4, AdvanceTypes DEF on_certified_vertex, TypeOK
  <1>5. ASSUME NEW n \in Honest, on_timer_fired(n) PROVE TypeOK'
    <2> DEFINE t == ~HasQuorum(book[n], book[n].current_round)
    <2>1. t \in BOOLEAN
      OBVIOUS
    <2>2. book' = [book EXCEPT ![n] = [book[n] EXCEPT !.round_timer = t]]
      BY <1>5 DEF on_timer_fired, TypeOK
    <2> HIDE DEF t
    <2>3. book' \in [Honest -> VertexBook]
      BY <2>1, <2>2, TimerFields DEF TypeOK
    <2> QED BY <2>3, <1>5 DEF on_timer_fired, TypeOK
  <1>6. CASE FaultyNext
    BY <1>6, FaultyProposalAssumption DEF FaultyNext, FaultyPropose, FaultyCertify, TypeOK, Proposal
  <1>7. CASE UNCHANGED vars
    BY <1>7 DEF vars, TypeOK
  <1>8. \A p \in proposals : p.vertex \in Vertex
    BY DEF TypeOK, Proposal
  <1> QED BY <1>1, <1>2, <1>3, <1>4, <1>5, <1>6, <1>7, <1>8 DEF Next, HonestNext

\* Every reachable state of the handlers has the shape of the code's state.
THEOREM TypeCorrect == Spec => []TypeOK
  BY TypeInit, TypeNext, PTL DEF Spec

-----------------------------------------------------------------------------
(***************************************************************************)
(* One vote per slot.  OneVotePerSlot alone is not inductive: a book has   *)
(* to remember the votes that are still in the window, for whatever was    *)
(* pruned is too old to be voted for again.                                *)
(***************************************************************************)

\* A vote that could be asked for again is remembered.
VotesRemembered ==
    \A x \in partials :
        x.vertex.round + 1 >= book[x.voter].current_round => Slot(x.vertex) \in book[x.voter].voted

\* A validator has not proposed beyond its current round, nor before it started.
ProposalsBehind ==
    \A p \in proposals :
        p.vertex.author \in Honest =>
            /\ book[p.vertex.author].started
            /\ p.vertex.round <= book[p.vertex.author].current_round

VotesProposed == \A x \in partials : \E p \in proposals : p.vertex = x.vertex

\* Before genesis_propose the book is untouched.
Unstarted == \A n \in Honest : ~book[n].started => book[n] = NewBook

VoteInv == /\ TypeOK
           /\ Unstarted
           /\ VotesRemembered
           /\ ProposalsBehind
           /\ VotesProposed
           /\ OneVotePerSlot

\* Rounds are natural numbers, and a vertex of the state has a round.
LEMMA RoundsAreNat ==
    ASSUME TypeOK
    PROVE  /\ Round \subseteq Nat
           /\ \A n \in Honest : book[n] \in VertexBook /\ book[n].current_round \in Round
           /\ \A p \in proposals : p.vertex \in Vertex /\ p.vertex.round \in Round
           /\ \A x \in partials : x.vertex \in Vertex /\ x.vertex.round \in Round /\ x.voter \in Honest
           /\ \A v \in Vertex : v.round \in Round /\ v.author \in Validator
  BY MaxRoundAssumption DEF TypeOK, VertexBook, Proposal, Partial, Vertex, Round

\* maybe_advance keeps VoteInv, whatever else the calling handler put into b.
LEMMA AdvanceVotes ==
    ASSUME VoteInv, NEW n \in Honest, NEW b \in VertexBook, maybe_advance(n, b), TypeOK',
           b.started, b.current_round = book[n].current_round, b.voted = book[n].voted
    PROVE  VoteInv'
  <1> USE DEF VoteInv
  <1>1. PICK r \in Round, own \in SUBSET Vertex :
             /\ AdvancesTo(b, r)
             /\ \A v \in own : v.author = n /\ b.current_round < v.round /\ v.round <= r
             /\ \A v, w \in own : v.round = w.round => v = w
             /\ book' = [book EXCEPT ![n] = Advanced(b, n, own, r)]
             /\ proposals' = proposals \cup
                   {Distinct(v, ParentsFor(b, v.round - 1)) : v \in own}
             /\ partials' = partials \cup {[vertex |-> v, voter |-> n] : v \in own}
    BY AdvanceStep
  <1>2. /\ book'[n].current_round = r
        /\ book'[n].started
        /\ book'[n].voted = KeptVotes(b.voted, own, r)
        /\ \A m \in Honest : m # n => book'[m] = book[m]
    <2> DEFINE c == Advanced(b, n, own, r)
    <2>1. /\ c.current_round = r
          /\ c.started <=> b.started
          /\ c.voted = KeptVotes(b.voted, own, r)
      BY AdvancedFields
    <2>2. book' = [book EXCEPT ![n] = c]
      BY <1>1
    <2> HIDE DEF c
    <2> QED BY <2>1, <2>2 DEF TypeOK
  <1>3. b.current_round <= r
    BY <1>1 DEF AdvancesTo, VertexBook, Round
  <1>4. VotesRemembered'
    <2> SUFFICES ASSUME NEW x \in partials',
                        x.vertex.round + 1 >= book'[x.voter].current_round
                 PROVE  Slot(x.vertex) \in book'[x.voter].voted
      BY DEF VotesRemembered
    <2>1. CASE x \in partials /\ x.voter # n
      BY <2>1, <1>2, RoundsAreNat DEF VotesRemembered
    <2>2. CASE x \in partials /\ x.voter = n
      <3>1. x.vertex.round + 1 >= b.current_round
        BY <2>2, <1>2, <1>3, RoundsAreNat
      <3>2. Slot(x.vertex) \in b.voted
        BY <3>1, <2>2 DEF VotesRemembered
      <3> QED BY <3>2, <2>2, <1>2 DEF Slot, KeptVotes
    <2>3. CASE x \in {[vertex |-> v, voter |-> n] : v \in own}
      <3>1. x.vertex \in own /\ x.voter = n
        BY <2>3
      <3> QED BY <3>1, <1>2 DEF Slot, KeptVotes
    <2> QED BY <1>1, <2>1, <2>2, <2>3
  <1>5. ProposalsBehind'
    <2> SUFFICES ASSUME NEW p \in proposals', p.vertex.author \in Honest
                 PROVE  /\ book'[p.vertex.author].started
                        /\ p.vertex.round <= book'[p.vertex.author].current_round
      BY DEF ProposalsBehind
    <2>1. CASE p \in proposals
      BY <2>1, <1>2, <1>3, RoundsAreNat DEF ProposalsBehind
    <2>2. CASE p \in {Distinct(v, ParentsFor(b, v.round - 1)) : v \in own}
      BY <2>2, <1>1, <1>2
    <2> QED BY <1>1, <2>1, <2>2
  <1>6. VotesProposed'
    <2> DEFINE prop(v) == Distinct(v, ParentsFor(b, v.round - 1))
    <2>1. \A v \in own : prop(v) \in proposals' /\ prop(v).vertex = v
      BY <1>1
    <2>2. proposals \subseteq proposals'
      BY <1>1
    <2>3. \A x \in partials' : x \in partials \/ x.vertex \in own
      BY <1>1
    <2> HIDE DEF prop
    <2> QED BY <2>1, <2>2, <2>3 DEF VotesProposed
  <1>7. OneVotePerSlot'
    <2>1. \A x \in partials : x.voter = n /\ x.vertex.author = n => x.vertex.round <= b.current_round
      BY DEF VotesProposed, ProposalsBehind
    <2>2. \A x \in partials, v \in own : x.voter = n => ~SameSlot(x.vertex, v)
      BY <2>1, <1>1, RoundsAreNat DEF SameSlot
    <2> QED BY <1>1, <2>2, RoundsAreNat DEF OneVotePerSlot, SameSlot
  <1>8. Unstarted'
    BY <1>2 DEF Unstarted
  <1> QED BY <1>4, <1>5, <1>6, <1>7, <1>8

LEMMA VoteInvNext == VoteInv /\ [Next]_vars => VoteInv'
  <1> SUFFICES ASSUME VoteInv, [Next]_vars PROVE VoteInv'
    OBVIOUS
  <1> USE DEF VoteInv
  <1>0. TypeOK'
    BY TypeNext
  <1>1. ASSUME NEW n \in Honest, genesis_propose(n) PROVE VoteInv'
    <2>1. PICK blobs \in Pending[n] :
            LET v == [round |-> 0, author |-> n, blobs |-> blobs]
            IN  /\ book' = [book EXCEPT ![n] = Started(book[n], n, v)]
                /\ proposals' = proposals \cup {Distinct(v, {})}
                /\ partials' = partials \cup {[vertex |-> v, voter |-> n]}
      BY <1>1 DEF genesis_propose, TypeOK
    <2> DEFINE v == [round |-> 0, author |-> n, blobs |-> blobs]
    <2>2. v \in Vertex /\ v.author = n /\ v.round = 0
      BY ValidatorAssumption, PendingAssumption, MaxRoundAssumption DEF Vertex, Round
    <2> HIDE DEF v
    <2>3. /\ book'[n].current_round = 0
          /\ book'[n].started
          /\ book'[n].voted = book[n].voted \cup {Slot(v)}
          /\ \A m \in Honest : m # n => book'[m] = book[m]
      <3> DEFINE c == Started(book[n], n, v)
      <3>1. /\ c.current_round = 0
            /\ c.started
            /\ c.voted = book[n].voted \cup {Slot(v)}
        BY <2>2, GenesisFields DEF TypeOK
      <3>2. book' = [book EXCEPT ![n] = c]
        BY <2>1 DEF v
      <3> HIDE DEF c
      <3> QED BY <3>1, <3>2 DEF TypeOK
    <2>4. /\ proposals' = proposals \cup {Distinct(v, {})}
          /\ partials' = partials \cup {[vertex |-> v, voter |-> n]}
      BY <2>1 DEF v
    <2>5. ~book[n].started
      BY <1>1 DEF genesis_propose
    <2>6. \A p \in proposals : p.vertex.author # n
      BY <2>5 DEF ProposalsBehind
    <2>7. book[n].voted = {} /\ book[n].current_round = 0
      BY <2>5 DEF Unstarted, NewBook
    <2>8. \A x \in partials : x.voter # n
      BY <2>7, RoundsAreNat DEF VotesRemembered
    <2>9. VotesRemembered'
      BY <2>3, <2>4, <2>8, RoundsAreNat DEF VotesRemembered
    <2>10. ProposalsBehind'
      BY <2>2, <2>3, <2>4, <2>6 DEF ProposalsBehind
    <2>11. VotesProposed'
      <3>1. /\ Distinct(v, {}) \in proposals'
            /\ Distinct(v, {}).vertex = v
            /\ proposals \subseteq proposals'
            /\ \A x \in partials' : x \in partials \/ x.vertex = v
        BY <2>4
      <3> QED BY <3>1 DEF VotesProposed
    <2>12. OneVotePerSlot'
      BY <2>4, <2>8 DEF OneVotePerSlot
    <2>13. Unstarted'
      BY <2>3 DEF Unstarted
    <2> QED BY <1>0, <2>9, <2>10, <2>11, <2>12, <2>13
  <1>2. ASSUME NEW n \in Honest, NEW p \in proposals, on_vertex_proposal(n, p) PROVE VoteInv'
    <2>1. CASE ReportEquivocation(n, p)
      BY <1>0, <2>1 DEF ReportEquivocation, Unstarted, VotesRemembered, ProposalsBehind,
                        VotesProposed, OneVotePerSlot
    <2>2. CASE HoldProposal(n, p)
      <3>1. /\ book'[n].current_round = book[n].current_round
            /\ book'[n].started = book[n].started
            /\ book'[n].voted = book[n].voted
            /\ book[n].started
            /\ \A m \in Honest : m # n => book'[m] = book[m]
        BY <2>2 DEF HoldProposal, Admissible, TypeOK, VertexBook
      <3>2. UNCHANGED <<proposals, partials>>
        BY <2>2 DEF HoldProposal
      <3> QED BY <1>0, <3>1, <3>2, RoundsAreNat
              DEF Unstarted, VotesRemembered, ProposalsBehind, VotesProposed, OneVotePerSlot
    <2>3. CASE VoteForProposal(n, p)
      <3>1. /\ book'[n].current_round = book[n].current_round
            /\ book'[n].started = book[n].started
            /\ book'[n].voted = book[n].voted \cup {Slot(p.vertex)}
            /\ book[n].started
            /\ \A m \in Honest : m # n => book'[m] = book[m]
        BY <2>3 DEF VoteForProposal, Admissible, TypeOK, VertexBook
      <3>2. /\ UNCHANGED proposals
            /\ partials' = partials \cup {[vertex |-> p.vertex, voter |-> n]}
        BY <2>3 DEF VoteForProposal
      <3>3. VotesRemembered'
        BY <3>1, <3>2, RoundsAreNat DEF VotesRemembered
      <3>4. OneVotePerSlot'
        <4>1. Slot(p.vertex) \notin book[n].voted /\ p.vertex.round + 1 >= book[n].current_round
          BY <2>3 DEF VoteForProposal, MayVote, Admissible, round_in_window
        <4>2. \A x \in partials : x.voter = n => ~SameSlot(x.vertex, p.vertex)
          BY <4>1, RoundsAreNat DEF VotesRemembered, SameSlot, Slot
        <4> QED BY <4>2, <3>2 DEF OneVotePerSlot, SameSlot
      <3>5. ProposalsBehind' /\ Unstarted'
        BY <3>1, <3>2 DEF ProposalsBehind, Unstarted
      <3>6. VotesProposed'
        <4>1. \A x \in partials' : x \in partials \/ x.vertex = p.vertex
          BY <3>2
        <4> QED BY <4>1, <3>2 DEF VotesProposed
      <3> QED BY <1>0, <3>3, <3>4, <3>5, <3>6
    <2> QED BY <1>2, <2>1, <2>2, <2>3 DEF on_vertex_proposal
  <1>3. ASSUME NEW n \in Honest, NEW v \in Vertex, NEW m \in Validator, on_vertex_partial(n, v, m)
        PROVE  VoteInv'
    <2>1. CASE CollectPartial(n, v, m)
      <3>1. /\ book'[n].current_round = book[n].current_round
            /\ book'[n].started = book[n].started
            /\ book'[n].voted = book[n].voted
            /\ book[n].started
            /\ \A k \in Honest : k # n => book'[k] = book[k]
        <4> DEFINE c == Collected(n, v, m)
        <4>1. /\ c.current_round = book[n].current_round
              /\ c.started = book[n].started
              /\ c.voted = book[n].voted
          BY CollectedFields
        <4>2. book[n].started /\ book' = [book EXCEPT ![n] = c]
          BY <2>1 DEF CollectPartial, NewPartial
        <4> HIDE DEF c
        <4> QED BY <4>1, <4>2 DEF TypeOK
      <3>2. UNCHANGED <<proposals, partials>>
        BY <2>1 DEF CollectPartial
      <3> QED BY <1>0, <3>1, <3>2, RoundsAreNat
              DEF Unstarted, VotesRemembered, ProposalsBehind, VotesProposed, OneVotePerSlot
    <2>2. CASE CertifyVertex(n, v, m)
      <3> DEFINE b == CertifiedBook(n, v, m)
      <3>1. /\ b \in VertexBook
            /\ b.started = book[n].started
            /\ b.current_round = book[n].current_round
            /\ b.voted = book[n].voted
        <4> DEFINE e == [Collected(n, v, m) EXCEPT !.emitted_certs = @ \cup {v}]
        <4>1. /\ e \in VertexBook
              /\ e.started = book[n].started
              /\ e.current_round = book[n].current_round
              /\ e.voted = book[n].voted
          BY CollectedFields
        <4>2. b = record_cert(e, v)
          BY DEF CertifiedBook
        <4> HIDE DEF b, e
        <4> QED BY <4>1, <4>2, RecordFields
      <3>2. maybe_advance(n, b) /\ book[n].started
        BY <2>2 DEF CertifyVertex, CertifiedBook, NewPartial
      <3> HIDE DEF b
      <3> QED BY <1>0, <3>1, <3>2, AdvanceVotes
    <2> QED BY <1>3, <2>1, <2>2 DEF on_vertex_partial
  <1>4. ASSUME NEW n \in Honest, NEW v \in certs, on_certified_vertex(n, v) PROVE VoteInv'
    <2> DEFINE b == record_cert(book[n], v)
    <2>1. v \in Vertex /\ book[n] \in VertexBook
      BY DEF TypeOK
    <2>2. /\ b \in VertexBook
          /\ b.started = book[n].started
          /\ b.current_round = book[n].current_round
          /\ b.voted = book[n].voted
      BY <2>1, RecordFields
    <2>3. maybe_advance(n, b) /\ book[n].started
      BY <1>4 DEF on_certified_vertex
    <2> HIDE DEF b
    <2> QED BY <1>0, <2>2, <2>3, AdvanceVotes
  <1>5. ASSUME NEW n \in Honest, on_timer_fired(n) PROVE VoteInv'
    <2> DEFINE t == ~HasQuorum(book[n], book[n].current_round)
    <2>1. book' = [book EXCEPT ![n] = [book[n] EXCEPT !.round_timer = t]]
      BY <1>5 DEF on_timer_fired, TypeOK
    <2>2. book[n].started
      <3> SUFFICES ASSUME ~book[n].started PROVE FALSE
        OBVIOUS
      <3>1. book[n].round_timer = FALSE
        BY DEF Unstarted, NewBook
      <3> QED BY <3>1, <1>5 DEF on_timer_fired
    <2> HIDE DEF t
    <2>3. /\ book'[n].current_round = book[n].current_round
          /\ book'[n].started = book[n].started
          /\ book'[n].voted = book[n].voted
          /\ \A k \in Honest : k # n => book'[k] = book[k]
      BY <2>1 DEF TypeOK, VertexBook
    <2>4. UNCHANGED <<proposals, partials>>
      BY <1>5 DEF on_timer_fired
    <2> QED BY <1>0, <2>2, <2>3, <2>4, RoundsAreNat
            DEF Unstarted, VotesRemembered, ProposalsBehind, VotesProposed, OneVotePerSlot
  <1>6. CASE FaultyNext
    <2>1. /\ UNCHANGED <<book, partials>>
          /\ proposals \subseteq proposals'
          /\ \A p \in proposals' : p \in proposals \/ p.vertex.author \in Faulty
      BY <1>6, FaultyProposalAssumption DEF FaultyNext, FaultyPropose, FaultyCertify
    <2> QED BY <1>0, <2>1, ValidatorAssumption
            DEF Unstarted, VotesRemembered, ProposalsBehind, VotesProposed, OneVotePerSlot
  <1>7. CASE UNCHANGED vars
    BY <1>0, <1>7 DEF vars, Unstarted, VotesRemembered, ProposalsBehind, VotesProposed, OneVotePerSlot
  <1>8. \A p \in proposals : p.vertex \in Vertex
    BY DEF TypeOK, Proposal
  <1> QED BY <1>1, <1>2, <1>3, <1>4, <1>5, <1>6, <1>7, <1>8 DEF Next, HonestNext

LEMMA VoteInvariant == Spec => []VoteInv
  <1>1. Init => VoteInv
    BY TypeInit DEF Init, VoteInv, Unstarted, VotesRemembered, ProposalsBehind, VotesProposed,
                    OneVotePerSlot
  <1> QED BY <1>1, VoteInvNext, PTL DEF Spec

\* An honest validator never signs two vertices of one slot, however many rounds
\* its book has pruned and whatever the others do.
THEOREM OneVote == Spec => []OneVotePerSlot
  <1>1. VoteInv => OneVotePerSlot
    BY DEF VoteInv
  <1> QED BY <1>1, VoteInvariant, PTL

-----------------------------------------------------------------------------
(***************************************************************************)
(* Certificates are unique.  What an author collects was really signed, so *)
(* two certificates of one slot have 4F + 2 signers between them; of the   *)
(* 3F + 1 validators at least F + 1 signed both, one of them honest, and   *)
(* that one voted twice.                                                   *)
(***************************************************************************)

\* try_finalize counts signatures that were given.
CollectedSigned ==
    \A n \in Honest : \A c \in book[n].collecting : c[2] \in Signers(c[1])

\* A certificate has a quorum of signers.
CertsSigned == \A v \in certs : Cardinality(Signers(v)) >= quorum_threshold

CertInv == /\ VoteInv
           /\ CollectedSigned
           /\ CertsSigned

\* F is a natural number and every set of validators has a size.
LEMMA Sizes ==
    /\ F \in Nat
    /\ quorum_threshold \in Nat
    /\ \A S : S \subseteq Validator => IsFiniteSet(S) /\ Cardinality(S) \in Nat
    /\ \A S, T : S \subseteq T /\ T \subseteq Validator => Cardinality(S) <= Cardinality(T)
  <1>1. Cardinality(Validator) \in Nat
    BY ValidatorAssumption, FS_CardinalityType
  <1>2. F \in Nat
    BY <1>1, QuorumAssumption DEF F
  <1>3. \A S : S \subseteq Validator => IsFiniteSet(S) /\ Cardinality(S) \in Nat
    BY ValidatorAssumption, FS_Subset, FS_CardinalityType
  <1>4. \A S, T : S \subseteq T /\ T \subseteq Validator => Cardinality(S) <= Cardinality(T)
    BY <1>3, FS_Subset
  <1> QED BY <1>2, <1>3, <1>4 DEF quorum_threshold

\* Signatures are never withdrawn.
LEMMA SignersGrow ==
    ASSUME partials \subseteq partials'
    PROVE  \A v : /\ Signers(v) \subseteq Signers(v)'
                 /\ Signers(v)' \subseteq Validator
                 /\ Cardinality(Signers(v)) <= Cardinality(Signers(v)')
  <1> TAKE v
  <1>1. Signers(v) \subseteq Signers(v)'
    BY DEF Signers
  <1>2. Signers(v)' \subseteq Validator
    BY ValidatorAssumption DEF Signers
  <1> QED BY <1>1, <1>2, Sizes

LEMMA AdvanceCerts ==
    ASSUME CertInv, NEW n \in Honest, NEW b \in VertexBook, maybe_advance(n, b),
           \A c \in b.collecting : c[2] \in Signers(c[1])
    PROVE  CollectedSigned' /\ partials \subseteq partials'
  <1>1. PICK r \in Round, own \in SUBSET Vertex :
             /\ book' = [book EXCEPT ![n] = Advanced(b, n, own, r)]
             /\ partials' = partials \cup {[vertex |-> v, voter |-> n] : v \in own}
    BY AdvanceStep DEF CertInv, VoteInv
  <1>2. Advanced(b, n, own, r).collecting = KeptPartials(b.collecting, n, own, r)
    BY AdvancedFields
  <1>3. book'[n].collecting = KeptPartials(b.collecting, n, own, r)
    BY <1>1, <1>2 DEF CertInv, VoteInv, TypeOK
  <1>4. \A m \in Honest : m # n => book'[m] = book[m]
    BY <1>1 DEF CertInv, VoteInv, TypeOK
  <1>5. partials \subseteq partials'
    BY <1>1
  <1>6. \A v \in own : n \in Signers(v)'
    BY <1>1 DEF Signers
  <1>7. \A c \in KeptPartials(b.collecting, n, own, r) :
          c \in b.collecting \/ \E v \in own : c = <<v, n>>
    BY DEF KeptPartials
  <1>8. \A c \in book'[n].collecting : c[2] \in Signers(c[1])'
    BY <1>3, <1>5, <1>6, <1>7, SignersGrow
  <1>9. \A m \in Honest : m # n => \A c \in book'[m].collecting : c[2] \in Signers(c[1])'
    BY <1>4, <1>5, SignersGrow DEF CertInv, CollectedSigned
  <1> QED BY <1>5, <1>8, <1>9 DEF CollectedSigned

LEMMA CertInvNext == CertInv /\ [Next]_vars => CertInv'
  <1> SUFFICES ASSUME CertInv, [Next]_vars PROVE CertInv'
    OBVIOUS
  <1>0. VoteInv' /\ TypeOK /\ VoteInv /\ CollectedSigned
    BY VoteInvNext DEF CertInv, VoteInv
  \* What is left to show when no certificate is new.
  <1>a. ASSUME partials \subseteq partials', UNCHANGED certs, CollectedSigned' PROVE CertInv'
    <2>1. CertsSigned'
      <3> SUFFICES ASSUME NEW v \in certs PROVE Cardinality(Signers(v)') >= quorum_threshold
        BY <1>a DEF CertsSigned
      <3>1. Cardinality(Signers(v)) >= quorum_threshold
        BY DEF CertInv, CertsSigned
      <3>2. Cardinality(Signers(v)) <= Cardinality(Signers(v)')
        BY <1>a, SignersGrow
      <3>3. Cardinality(Signers(v)) \in Nat /\ Cardinality(Signers(v)') \in Nat
        BY Sizes, ValidatorAssumption DEF Signers
      <3> QED BY <3>1, <3>2, <3>3, Sizes
    <2> QED BY <1>0, <1>a, <2>1 DEF CertInv
  <1>1. ASSUME NEW n \in Honest, genesis_propose(n) PROVE CertInv'
    <2>1. PICK v \in Vertex :
            /\ book' = [book EXCEPT ![n] = Started(book[n], n, v)]
            /\ partials' = partials \cup {[vertex |-> v, voter |-> n]}
      <3>1. PICK blobs \in Pending[n] :
              LET v == [round |-> 0, author |-> n, blobs |-> blobs]
              IN  /\ book' = [book EXCEPT ![n] = Started(book[n], n, v)]
                  /\ partials' = partials \cup {[vertex |-> v, voter |-> n]}
        BY <1>0, <1>1 DEF genesis_propose, TypeOK
      <3>2. [round |-> 0, author |-> n, blobs |-> blobs] \in Vertex
        BY ValidatorAssumption, PendingAssumption, MaxRoundAssumption DEF Vertex, Round
      <3> QED BY <3>1, <3>2
    <2>2. Started(book[n], n, v).collecting = book[n].collecting \cup {<<v, n>>}
      BY <1>0, GenesisFields DEF TypeOK
    <2>3. /\ book'[n].collecting = book[n].collecting \cup {<<v, n>>}
          /\ \A m \in Honest : m # n => book'[m] = book[m]
      BY <1>0, <2>1, <2>2 DEF TypeOK
    <2>4. partials \subseteq partials' /\ n \in Signers(v)'
      BY <2>1 DEF Signers
    <2>5. CollectedSigned'
      BY <1>0, <2>3, <2>4, SignersGrow DEF CollectedSigned
    <2> QED BY <1>a, <1>1, <2>4, <2>5 DEF genesis_propose
  <1>2. ASSUME NEW n \in Honest, NEW p \in proposals, on_vertex_proposal(n, p) PROVE CertInv'
    <2>1. /\ partials \subseteq partials'
          /\ UNCHANGED certs
          /\ \A m \in Honest : book'[m].collecting = book[m].collecting
      BY <1>0, <1>2 DEF on_vertex_proposal, ReportEquivocation, HoldProposal, VoteForProposal,
                        TypeOK, VertexBook
    <2>2. CollectedSigned'
      BY <1>0, <2>1, SignersGrow DEF CollectedSigned
    <2> QED BY <1>a, <2>1, <2>2
  <1>3. ASSUME NEW n \in Honest, NEW v \in Vertex, NEW m \in Validator, on_vertex_partial(n, v, m)
        PROVE  CertInv'
    <2> DEFINE c == Collected(n, v, m)
    <2>1. c.collecting = book[n].collecting \cup {<<v, m>>}
      BY <1>0, CollectedFields
    <2>2. m \in Signers(v)
      BY <1>3 DEF on_vertex_partial, CollectPartial, CertifyVertex, NewPartial
    <2>3. \A x \in c.collecting : x[2] \in Signers(x[1])
      BY <1>0, <2>1, <2>2 DEF CollectedSigned
    <2>4. CASE CollectPartial(n, v, m)
      <3>1. book' = [book EXCEPT ![n] = c] /\ UNCHANGED <<partials, certs>>
        BY <2>4 DEF CollectPartial
      <3> HIDE DEF c
      <3>2. CollectedSigned'
        BY <1>0, <2>3, <3>1, SignersGrow DEF CollectedSigned, TypeOK
      <3> QED BY <1>a, <3>1, <3>2
    <2>5. CASE CertifyVertex(n, v, m)
      <3> DEFINE b == CertifiedBook(n, v, m)
                 voters == {k \in Validator : <<v, k>> \in c.collecting}
      <3>1. b \in VertexBook /\ b.collecting = c.collecting
        <4> DEFINE e == [Collected(n, v, m) EXCEPT !.emitted_certs = @ \cup {v}]
        <4>1. e \in VertexBook /\ e.collecting = book[n].collecting \cup {<<v, m>>}
          BY <1>0, CollectedFields
        <4>2. b = record_cert(e, v)
          BY DEF CertifiedBook
        <4> HIDE DEF b, e
        <4> QED BY <2>1, <4>1, <4>2, RecordFields
      <3>2. maybe_advance(n, b)
        BY <2>5 DEF CertifyVertex, CertifiedBook
      <3> HIDE DEF b
      <3>3. CollectedSigned' /\ partials \subseteq partials'
        BY <2>3, <3>1, <3>2, AdvanceCerts
      <3>4. Cardinality(voters) >= quorum_threshold /\ certs' = certs \cup {v}
        BY <2>5 DEF CertifyVertex, Finalizes
      <3>5. voters \subseteq Signers(v)
        BY <2>3
      <3> HIDE DEF voters
      <3>6. ASSUME NEW w \in certs' PROVE Cardinality(Signers(w)') >= quorum_threshold
        <4>1. Cardinality(Signers(w)) >= quorum_threshold
          <5>1. CASE w \in certs
            BY <5>1 DEF CertInv, CertsSigned
          <5>2. CASE w = v
            <6>1. Signers(v) \subseteq Validator
              BY ValidatorAssumption DEF Signers
            <6>2. Cardinality(voters) <= Cardinality(Signers(v))
              BY <3>5, <6>1, Sizes
            <6>3. Cardinality(voters) \in Nat /\ Cardinality(Signers(v)) \in Nat
              BY <3>5, <6>1, Sizes
            <6> QED BY <3>4, <5>2, <6>2, <6>3, Sizes
          <5> QED BY <3>4, <5>1, <5>2
        <4>2. Cardinality(Signers(w)) <= Cardinality(Signers(w)')
          BY <3>3, SignersGrow
        <4>3. Cardinality(Signers(w)) \in Nat /\ Cardinality(Signers(w)') \in Nat
          BY Sizes, ValidatorAssumption DEF Signers
        <4> QED BY <4>1, <4>2, <4>3, Sizes
      <3>7. CertsSigned'
        BY <3>6 DEF CertsSigned
      <3> QED BY <1>0, <3>3, <3>7 DEF CertInv
    <2> QED BY <1>3, <2>4, <2>5 DEF on_vertex_partial
  <1>4. ASSUME NEW n \in Honest, NEW v \in certs, on_certified_vertex(n, v) PROVE CertInv'
    <2> DEFINE b == record_cert(book[n], v)
    <2>1. v \in Vertex /\ book[n] \in VertexBook
      BY <1>0 DEF TypeOK
    <2>2. b \in VertexBook /\ b.collecting = book[n].collecting
      BY <2>1, RecordFields
    <2>3. maybe_advance(n, b) /\ UNCHANGED certs
      BY <1>4 DEF on_certified_vertex
    <2> HIDE DEF b
    <2>4. CollectedSigned' /\ partials \subseteq partials'
      BY <1>0, <2>2, <2>3, AdvanceCerts DEF CollectedSigned
    <2> QED BY <1>a, <2>3, <2>4
  <1>5. ASSUME NEW n \in Honest, on_timer_fired(n) PROVE CertInv'
    <2> DEFINE t == ~HasQuorum(book[n], book[n].current_round)
    <2>1. book' = [book EXCEPT ![n] = [book[n] EXCEPT !.round_timer = t]]
      BY <1>0, <1>5 DEF on_timer_fired, TypeOK
    <2> HIDE DEF t
    <2>2. \A m \in Honest : book'[m].collecting = book[m].collecting
      BY <1>0, <2>1 DEF TypeOK, VertexBook
    <2>3. UNCHANGED <<partials, certs>>
      BY <1>5 DEF on_timer_fired
    <2>4. CollectedSigned'
      BY <1>0, <2>2, <2>3, SignersGrow DEF CollectedSigned
    <2> QED BY <1>a, <2>3, <2>4
  <1>6. ASSUME NEW p \in FaultyProposal, FaultyPropose(p) PROVE CertInv'
    <2>1. UNCHANGED <<book, partials, certs>>
      BY <1>6 DEF FaultyPropose
    <2> QED BY <1>0, <1>a, <2>1, SignersGrow DEF CollectedSigned
  <1>7. ASSUME NEW p \in proposals, FaultyCertify(p) PROVE CertInv'
    <2>1. /\ UNCHANGED <<book, partials>>
          /\ certs' = certs \cup {p.vertex}
          /\ Cardinality(Signers(p.vertex)) >= quorum_threshold
      BY <1>7 DEF FaultyCertify
    <2>2. \A v : Signers(v)' = Signers(v)
      BY <2>1 DEF Signers
    <2>3. CollectedSigned'
      BY <1>0, <2>1, <2>2 DEF CollectedSigned
    <2>4. CertsSigned'
      BY <2>1, <2>2 DEF CertInv, CertsSigned
    <2> QED BY <1>0, <2>3, <2>4 DEF CertInv
  <1>8. CASE UNCHANGED vars
    <2>1. UNCHANGED <<book, partials, certs>>
      BY <1>8 DEF vars
    <2> QED BY <1>0, <1>a, <2>1, SignersGrow DEF CollectedSigned
  <1>9. \A p \in proposals : p.vertex \in Vertex
    BY <1>0 DEF TypeOK, Proposal
  <1> QED BY <1>1, <1>2, <1>3, <1>4, <1>5, <1>6, <1>7, <1>8, <1>9 DEF Next, HonestNext, FaultyNext

LEMMA CertInvariant == Spec => []CertInv
  <1>1. Init => CollectedSigned /\ CertsSigned
    BY DEF Init, NewBook, CollectedSigned, CertsSigned
  <1>2. Spec => []VoteInv
    BY VoteInvariant
  <1>3. Init /\ VoteInv => CertInv
    BY <1>1 DEF CertInv
  <1> QED BY <1>2, <1>3, CertInvNext, PTL DEF Spec

\* Two quorums of 3F + 1 validators, at most F of them faulty, share an honest one.
LEMMA QuorumsIntersect ==
    ASSUME Cardinality(Validator) = 3 * F + 1, Cardinality(Faulty) <= F,
           NEW S \in SUBSET Validator, NEW T \in SUBSET Validator,
           Cardinality(S) >= quorum_threshold, Cardinality(T) >= quorum_threshold
    PROVE  \E m \in S \cap T : m \notin Faulty
  <1>1. /\ IsFiniteSet(S) /\ Cardinality(S) \in Nat
        /\ IsFiniteSet(T) /\ Cardinality(T) \in Nat
        /\ Cardinality(S \cap T) \in Nat
        /\ Cardinality(S \cup T) \in Nat
        /\ Cardinality(Faulty) \in Nat
    BY Sizes, ValidatorAssumption
  <1>2. Cardinality(S \cup T) = Cardinality(S) + Cardinality(T) - Cardinality(S \cap T)
    BY <1>1, FS_Union
  <1>3. Cardinality(S \cup T) <= Cardinality(Validator)
    BY Sizes
  <1>4. Cardinality(S \cap T) > F
    BY <1>1, <1>2, <1>3, Sizes DEF quorum_threshold
  <1>5. ~ (S \cap T \subseteq Faulty)
    <2> SUFFICES ASSUME S \cap T \subseteq Faulty PROVE FALSE
      OBVIOUS
    <2>1. Cardinality(S \cap T) <= Cardinality(Faulty)
      BY Sizes, ValidatorAssumption
    <2> QED BY <1>1, <1>4, <2>1, Sizes
  <1> QED BY <1>5

\* With 3F + 1 validators, at most F of them faulty, no two vertices of one slot
\* are ever certified.  The first hypothesis is needed: among five validators two
\* quorums of three may share only the faulty one.
THEOREM CertificatesUnique ==
    ASSUME Cardinality(Validator) = 3 * F + 1, Cardinality(Faulty) <= F
    PROVE  Spec => []CertUnique
  <1>1. CertInv => CertUnique
    <2> SUFFICES ASSUME CertInv, NEW v \in certs, NEW w \in certs, SameSlot(v, w) PROVE v = w
      BY DEF CertUnique
    <2>1. Signers(v) \in SUBSET Validator /\ Signers(w) \in SUBSET Validator
      BY ValidatorAssumption DEF Signers
    <2>2. Cardinality(Signers(v)) >= quorum_threshold /\ Cardinality(Signers(w)) >= quorum_threshold
      BY DEF CertInv, CertsSigned
    <2>3. PICK m \in Signers(v) \cap Signers(w) : m \notin Faulty
      BY <2>1, <2>2, QuorumsIntersect
    <2> DEFINE x == [vertex |-> v, voter |-> m]
               y == [vertex |-> w, voter |-> m]
    <2>4. x \in partials /\ y \in partials
      BY <2>3 DEF Signers
    <2>5. x.voter = y.voter /\ SameSlot(x.vertex, y.vertex)
      OBVIOUS
    <2>6. x.vertex = y.vertex
      BY <2>4, <2>5 DEF CertInv, VoteInv, OneVotePerSlot
    <2> QED BY <2>6
  <1> QED BY <1>1, CertInvariant, PTL

-----------------------------------------------------------------------------
(***************************************************************************)
(* The parents of a proposal.                                              *)
(***************************************************************************)

\* A set of vertices has one whose author is the smallest.
LEMMA FirstAuthor ==
    ASSUME NEW T \in SUBSET Vertex, T # {}
    PROVE  \E v \in T : \A w \in T : v.author <= w.author
  <1> DEFINE A == {v.author : v \in T}
             R == OpToRel(<, Nat)
  <1>1. \A v \in T : v.author \in Nat
    BY ValidatorAssumption DEF Vertex
  <1>2. A \subseteq Nat /\ A # {}
    BY <1>1
  <1>3. IsWellFoundedOn(R, Nat)
    BY NatLessThanWellFounded
  <1> HIDE DEF A, R
  <1>4. PICK a \in A : \A y \in A : ~ (<<y, a>> \in R)
    BY <1>2, <1>3, WFMin
  <1>5. \A y \in A : ~(y < a)
    BY <1>2, <1>4 DEF R, OpToRel
  <1>6. PICK v \in T : v.author = a
    BY DEF A
  <1>7. \A w \in T : w.author \in A
    BY DEF A
  <1> QED BY <1>1, <1>5, <1>6, <1>7

\* parents_for takes a quorum of parents from a quorum of certificates.
LEMMA ParentsQuorum ==
    ASSUME NEW b \in VertexBook, IsFiniteSet(b.certified_by_round), NEW r, HasQuorum(b, r)
    PROVE  /\ Cardinality(ParentsFor(b, r)) >= quorum_threshold
           /\ ParentsFor(b, r) \subseteq b.certified_by_round
           /\ \A v \in ParentsFor(b, r) : v.round = r
  <1> DEFINE S == CertifiedAt(b, r)
             below(v) == {w \in S : w.author < v.author}
             P == ParentsFor(b, r)
  <1>1. S \subseteq b.certified_by_round /\ \A v \in S : v.round = r
    BY DEF CertifiedAt
  <1>2. S \subseteq Vertex
    BY <1>1 DEF VertexBook
  <1>3. IsFiniteSet(S)
    BY <1>1, FS_Subset
  <1>4. P = {v \in S : Cardinality(below(v)) < quorum_threshold}
    BY DEF ParentsFor
  <1>5. Cardinality(S) >= quorum_threshold
    BY DEF HasQuorum
  <1> HIDE DEF S, P
  <1>6. P \subseteq S /\ IsFiniteSet(P) /\ Cardinality(P) \in Nat
    BY <1>3, <1>4, FS_Subset, FS_CardinalityType
  <1>7. Cardinality(P) >= quorum_threshold
    <2>1. CASE P = S
      BY <1>5, <2>1
    <2>2. CASE P # S
      <3>1. PICK v \in S \ P : \A w \in S \ P : v.author <= w.author
        <4>1. S \ P \in SUBSET Vertex /\ S \ P # {}
          BY <1>2, <1>6, <2>2
        <4> QED BY <4>1, FirstAuthor
      <3>2. \A w \in S : w.author \in Nat
        BY <1>2, ValidatorAssumption DEF Vertex
      <3>3. below(v) \subseteq P
        BY <3>1, <3>2
      <3>4. ~(Cardinality(below(v)) < quorum_threshold)
        BY <1>4, <3>1
      <3> DEFINE B == below(v)
      <3>5. B \in SUBSET P
        BY <3>3
      <3> HIDE DEF B
      <3>6. Cardinality(B) \in Nat /\ Cardinality(B) <= Cardinality(P)
        BY <1>6, <3>5, FS_Subset, FS_CardinalityType
      <3>7. ~(Cardinality(B) < quorum_threshold)
        BY <3>4 DEF B
      <3> QED BY <1>6, <3>6, <3>7, Sizes
    <2> QED BY <2>1, <2>2
  <1> QED BY <1>1, <1>6, <1>7 DEF P

-----------------------------------------------------------------------------
(***************************************************************************)
(* The inductive invariant.  A vote stands for a check of the parents, and *)
(* a vertex for the one proposal it came with (the hash covers the         *)
(* parents); a quorum then holds an honest vote.                           *)
(***************************************************************************)

\* The parents of p are among the vertices C in the round below, and a quorum of
\* them if the author runs this code; in round 0 there are none.
GoodParents(p, C) ==
    IF p.vertex.round > 0
    THEN /\ p.parents # {}
         /\ p.parents \subseteq C
         /\ \A v \in p.parents : v.round = p.vertex.round - 1
         /\ p.vertex.author \in Honest => Cardinality(p.parents) >= quorum_threshold
    ELSE p.parents = {}

\* Whoever signed has seen good parents.
VotersChecked ==
    \A x \in partials : \A p \in proposals : p.vertex = x.vertex => GoodParents(p, certs)

\* A vertex names its proposal, and so does the slot of an honest author.
VertexNames == \A p, q \in proposals : p.vertex = q.vertex => p = q
HonestOnce == \A p, q \in proposals :
                  p.vertex.author \in Honest /\ SameSlot(p.vertex, q.vertex) => p = q
AuthorsRun == \A p \in proposals : p.vertex.author \in Honest \cup Faulty

\* An honest author lists distinct parents, and nobody repeats one of none.
NoRepeats(p) == p.vertex.author \in Honest \/ p.parents = {} => p.repeats = 0
ListsDistinct == \A p \in proposals : NoRepeats(p)

\* What book b of n has seen was proposed, what it has certified is certified.
SeenIn(b, P) == \A v \in b.proposals_seen : \E p \in P : p.vertex = v
CertifiedIn(b, C) == b.certified_by_round \subseteq C /\ IsFiniteSet(b.certified_by_round)

\* n has proposed in every round up to its current one.
ProposedIn(n, b, P) ==
    b.started => \A r \in 0 .. b.current_round :
                     \E p \in P : p.vertex.author = n /\ p.vertex.round = r

\* The timer runs, in a round that has no quorum yet and has n's proposal.
ArmedIn(b) == b.started => /\ b.round_timer
                           /\ ~HasQuorum(b, b.current_round)
                           /\ \E v \in b.my_proposals : v.round = b.current_round

DagBook(n, b, P, C) == SeenIn(b, P) /\ CertifiedIn(b, C) /\ ProposedIn(n, b, P) /\ ArmedIn(b)

DagInv == /\ CertInv
          /\ VotersChecked
          /\ VertexNames
          /\ HonestOnce
          /\ AuthorsRun
          /\ ListsDistinct
          /\ \A n \in Honest : DagBook(n, book[n], proposals, certs)
          /\ NoHonestAccused

\* More proposals and more certificates do not disturb a book.
LEMMA DagBookGrows ==
    ASSUME NEW n, NEW b, NEW P, NEW Q, NEW C, NEW D, P \subseteq Q, C \subseteq D, DagBook(n, b, P, C)
    PROVE  DagBook(n, b, Q, D)
  <1>1. SeenIn(b, Q)
    BY DEF DagBook, SeenIn
  <1>2. CertifiedIn(b, D)
    BY DEF DagBook, CertifiedIn
  <1>3. ProposedIn(n, b, Q)
    BY DEF DagBook, ProposedIn
  <1> QED BY <1>1, <1>2, <1>3 DEF DagBook

\* Nor do they make good parents bad.
LEMMA ParentsStayGood ==
    ASSUME NEW p, NEW C, NEW D, C \subseteq D, GoodParents(p, C)
    PROVE  GoodParents(p, D)
  BY DEF GoodParents

\* Evidence stays valid while proposals are only added.
LEMMA EvidenceStays ==
    ASSUME NoHonestAccused, proposals \subseteq proposals', NEW e \in evidence
    PROVE  verify_evidence(e)' /\ e.offender \in Faulty
  <1>1. verify_evidence(e) /\ e.offender \in Faulty
    BY DEF NoHonestAccused
  <1> QED BY <1>1 DEF verify_evidence, ProposerSigned

LEMMA DagInit == Init => DagInv
  <1> SUFFICES ASSUME Init PROVE DagInv
    OBVIOUS
  <1>1. CertInv
    BY TypeInit DEF Init, CertInv, VoteInv, Unstarted, VotesRemembered, ProposalsBehind,
                    VotesProposed, OneVotePerSlot, NewBook, CollectedSigned, CertsSigned
  <1>2. \A n \in Honest : DagBook(n, NewBook, {}, {})
    BY FS_EmptySet DEF DagBook, SeenIn, CertifiedIn, ProposedIn, ArmedIn, NewBook
  <1> QED BY <1>1, <1>2 DEF Init, DagInv, VotersChecked, VertexNames, HonestOnce, AuthorsRun,
                            ListsDistinct, NoHonestAccused

\* The steps that propose nothing: a book changes, a vote is given or a
\* certificate appears.
LEMMA QuietDag ==
    ASSUME DagInv, CertInv', UNCHANGED proposals, certs \subseteq certs',
           \A n \in Honest : DagBook(n, book'[n], proposals, certs'),
           \A x \in partials' \ partials :
               \A p \in proposals : p.vertex = x.vertex => GoodParents(p, certs'),
           \A e \in evidence' \ evidence : verify_evidence(e)' /\ e.offender \in Faulty
    PROVE  DagInv'
  <1>1. VotersChecked'
    <2> SUFFICES ASSUME NEW x \in partials', NEW p \in proposals', p.vertex = x.vertex
                 PROVE  GoodParents(p, certs')
      BY DEF VotersChecked
    <2>1. CASE x \in partials
      BY <2>1, ParentsStayGood DEF DagInv, VotersChecked
    <2> QED BY <2>1
  <1>2. VertexNames' /\ HonestOnce' /\ AuthorsRun' /\ ListsDistinct'
    BY DEF DagInv, VertexNames, HonestOnce, AuthorsRun, ListsDistinct
  <1>3. NoHonestAccused'
    <2> SUFFICES ASSUME NEW e \in evidence' PROVE verify_evidence(e)' /\ e.offender \in Faulty
      BY DEF NoHonestAccused
    <2>1. CASE e \in evidence
      BY <2>1, EvidenceStays DEF DagInv
    <2> QED BY <2>1
  <1> QED BY <1>1, <1>2, <1>3 DEF DagInv

\* The proposals N of validator n, for rounds in which it has not proposed, keep
\* what is said about all proposals and votes.
LEMMA ProposedDag ==
    ASSUME DagInv, NEW n \in Honest, NEW N \in SUBSET Proposal, proposals' = proposals \cup N,
           certs \subseteq certs',
           \A p \in N : p.vertex.author = n /\ p.repeats = 0 /\ GoodParents(p, certs'),
           \A p, q \in N : p.vertex.round = q.vertex.round => p = q,
           \A p \in N, q \in proposals : ~SameSlot(p.vertex, q.vertex),
           \A x \in partials' : x \in partials \/ \E p \in N : x.vertex = p.vertex,
           UNCHANGED evidence
    PROVE  /\ VotersChecked' /\ VertexNames' /\ HonestOnce'
           /\ AuthorsRun' /\ ListsDistinct' /\ NoHonestAccused'
  <1>1. \A p \in N, q \in proposals : p.vertex # q.vertex
    BY DEF SameSlot
  <1>2. \A p, q \in N : SameSlot(p.vertex, q.vertex) \/ p.vertex = q.vertex => p = q
    BY DEF SameSlot
  <1>3. VertexNames'
    BY <1>1, <1>2 DEF DagInv, VertexNames
  <1>4. HonestOnce'
    <2>1. \A p \in N, q \in proposals : ~SameSlot(q.vertex, p.vertex)
      BY DEF SameSlot
    <2> QED BY <1>2, <2>1 DEF DagInv, HonestOnce
  <1>5. AuthorsRun' /\ ListsDistinct'
    BY DEF DagInv, AuthorsRun, ListsDistinct, NoRepeats
  <1>6. VotersChecked'
    <2> SUFFICES ASSUME NEW x \in partials', NEW p \in proposals', p.vertex = x.vertex
                 PROVE  GoodParents(p, certs')
      BY DEF VotersChecked
    <2>1. CASE p \in N
      BY <2>1
    <2>2. CASE p \in proposals
      <3>1. x \in partials
        BY <1>1, <2>2
      <3> QED BY <2>2, <3>1, ParentsStayGood DEF DagInv, VotersChecked
    <2> QED BY <2>1, <2>2
  <1>7. NoHonestAccused'
    BY EvidenceStays DEF DagInv, NoHonestAccused
  <1> QED BY <1>3, <1>4, <1>5, <1>6, <1>7

\* The vertices `own` are proposed up to round r.
Advancing(n, b, r, own) ==
    /\ AdvancesTo(b, r)
    /\ \A v \in own : v.author = n /\ b.current_round < v.round /\ v.round <= r
    /\ \A q \in (b.current_round + 1) .. r : \E v \in own : v.round = q
    /\ \A v, w \in own : v.round = w.round => v = w
    /\ book' = [book EXCEPT ![n] = Advanced(b, n, own, r)]
    /\ proposals' = proposals \cup
           {Distinct(v, ParentsFor(b, v.round - 1)) : v \in own}
    /\ partials' = partials \cup {[vertex |-> v, voter |-> n] : v \in own}

LEMMA AdvanceKind ==
    ASSUME TypeOK, NEW n \in Honest, NEW b \in VertexBook, maybe_advance(n, b)
    PROVE  \E r \in Round, own \in SUBSET Vertex : Advancing(n, b, r, own)
  BY AdvanceStep DEF Advancing

\* maybe_advance, called with book b of n: the loop proposes in every round that
\* it enters and stops where there is no quorum.
LEMMA AdvanceDag ==
    ASSUME DagInv, CertInv', NEW n \in Honest, NEW b \in VertexBook, maybe_advance(n, b),
           b.started, book[n].started,
           b.current_round = book[n].current_round,
           b.my_proposals = book[n].my_proposals,
           b.proposals_seen = book[n].proposals_seen,
           b.round_timer = book[n].round_timer,
           CertifiedIn(b, certs'), certs \subseteq certs', UNCHANGED evidence
    PROVE  DagInv'
  <1>0. TypeOK /\ VoteInv /\ DagBook(n, book[n], proposals, certs)
    BY DEF DagInv, CertInv, VoteInv
  <1>a. PICK r \in Round, own \in SUBSET Vertex : Advancing(n, b, r, own)
    BY <1>0, AdvanceKind
  <1>1. /\ AdvancesTo(b, r)
        /\ \A v \in own : v.author = n /\ b.current_round < v.round /\ v.round <= r
        /\ \A q \in (b.current_round + 1) .. r : \E v \in own : v.round = q
        /\ \A v, w \in own : v.round = w.round => v = w
        /\ book' = [book EXCEPT ![n] = Advanced(b, n, own, r)]
        /\ proposals' = proposals \cup
               {Distinct(v, ParentsFor(b, v.round - 1)) : v \in own}
        /\ partials' = partials \cup {[vertex |-> v, voter |-> n] : v \in own}
    BY <1>a DEF Advancing
  <1> DEFINE c == Advanced(b, n, own, r)
             prop(v) == Distinct(v, ParentsFor(b, v.round - 1))
             N == {prop(v) : v \in own}
             k == b.current_round
  <1>2. /\ c \in VertexBook
        /\ c.current_round = r
        /\ c.started
        /\ c.certified_by_round = Kept(b.certified_by_round, {}, r)
        /\ c.my_proposals = Kept(b.my_proposals, own, r)
        /\ c.proposals_seen = Kept(b.proposals_seen, own, r)
        /\ c.round_timer <=> (b.round_timer \/ own # {})
    BY AdvancedFields
  <1>3. /\ k \in Nat /\ r \in Nat /\ k <= r
        /\ \A q \in k .. (r - 1) : HasQuorum(b, q)
        /\ ~HasQuorum(b, r)
    BY <1>0, <1>1, RoundsAreNat DEF AdvancesTo, VertexBook
  <1>4. \A v \in own : v.round \in Nat /\ v.round > 0 /\ v.round - 1 \in k .. (r - 1)
    BY <1>1, <1>3, MaxRoundAssumption DEF Vertex, Round
  <1>5. /\ book'[n] = c
        /\ \A m \in Honest : m # n => book'[m] = book[m]
        /\ proposals' = proposals \cup N
    BY <1>0, <1>1 DEF TypeOK
  <1>6. /\ \A p \in N : p.vertex \in own /\ p = prop(p.vertex)
        /\ \A v \in own : prop(v) \in N /\ prop(v).vertex = v
    OBVIOUS
  <1>7. N \in SUBSET Proposal
    <2>1. \A v \in own : ParentsFor(b, v.round - 1) \subseteq Vertex
      BY DEF ParentsFor, CertifiedAt, VertexBook
    <2> QED BY <2>1 DEF Proposal
  <1>8. ASSUME NEW v \in own PROVE prop(v).repeats = 0 /\ GoodParents(prop(v), certs')
    <2> DEFINE q == v.round - 1
    <2>1. HasQuorum(b, q)
      BY <1>3, <1>4
    <2>2. /\ Cardinality(ParentsFor(b, q)) >= quorum_threshold
          /\ ParentsFor(b, q) \subseteq b.certified_by_round
          /\ \A w \in ParentsFor(b, q) : w.round = q
      <3> HIDE DEF q
      <3> QED BY <2>1, ParentsQuorum DEF CertifiedIn
    <2>3. ParentsFor(b, q) \subseteq certs'
      BY <2>2 DEF CertifiedIn
    <2>4. prop(v).vertex = v /\ prop(v).parents = ParentsFor(b, q) /\ prop(v).repeats = 0
      OBVIOUS
    <2>5. v.round > 0
      BY <1>4
    <2>6. ParentsFor(b, q) # {}
      BY <2>2, FS_EmptySet, Sizes DEF quorum_threshold
    <2> HIDE DEF prop
    <2> QED BY <2>2, <2>3, <2>4, <2>5, <2>6 DEF GoodParents
  <1> HIDE DEF c, prop, N, k
  <1>9. VotersChecked' /\ VertexNames' /\ HonestOnce' /\ AuthorsRun' /\ ListsDistinct' /\ NoHonestAccused'
    <2>1. \A p \in N : p.vertex.author = n /\ p.repeats = 0 /\ GoodParents(p, certs')
      BY <1>1, <1>6, <1>8
    <2>2. \A p, q \in N : p.vertex.round = q.vertex.round => p = q
      BY <1>1, <1>6
    <2>3. \A p \in N, q \in proposals : ~SameSlot(p.vertex, q.vertex)
      <3> SUFFICES ASSUME NEW p \in N, NEW q \in proposals, SameSlot(p.vertex, q.vertex) PROVE FALSE
        OBVIOUS
      <3>1. p.vertex.author = n /\ k < p.vertex.round
        BY <1>1, <1>6 DEF k
      <3>2. q.vertex.author = n /\ q.vertex.round = p.vertex.round
        BY <3>1 DEF SameSlot
      <3>3. q.vertex.round <= book[n].current_round
        BY <1>0, <3>2 DEF VoteInv, ProposalsBehind
      <3> QED BY <1>3, <1>4, <1>6, <3>1, <3>2, <3>3 DEF k
    <2>4. \A x \in partials' : x \in partials \/ \E p \in N : x.vertex = p.vertex
      <3>1. \A x \in partials' : x \in partials \/ x.vertex \in own
        BY <1>1
      <3> QED BY <1>6, <3>1
    <2> QED BY <1>5, <1>7, <2>1, <2>2, <2>3, <2>4, ProposedDag
  <1>10. DagBook(n, c, proposals', certs')
    <2>1. SeenIn(c, proposals')
      <3> SUFFICES ASSUME NEW v \in c.proposals_seen PROVE \E p \in proposals' : p.vertex = v
        BY DEF SeenIn
      <3>1. v \in b.proposals_seen \/ v \in own
        BY <1>2 DEF Kept
      <3>2. CASE v \in b.proposals_seen
        BY <1>0, <1>5, <3>2 DEF DagBook, SeenIn
      <3>3. CASE v \in own
        BY <1>5, <1>6, <3>3
      <3> QED BY <3>1, <3>2, <3>3
    <2>2. CertifiedIn(c, certs')
      <3>1. c.certified_by_round \in SUBSET b.certified_by_round
        BY <1>2 DEF Kept
      <3> QED BY <3>1, FS_Subset DEF CertifiedIn
    <2>3. ProposedIn(n, c, proposals')
      <3> SUFFICES ASSUME NEW q \in 0 .. r
                   PROVE  \E p \in proposals' : p.vertex.author = n /\ p.vertex.round = q
        BY <1>2 DEF ProposedIn
      <3>1. CASE q <= k
        <4>1. q \in 0 .. book[n].current_round
          BY <1>3, <3>1 DEF k
        <4> QED BY <1>0, <1>5, <4>1 DEF DagBook, ProposedIn
      <3>2. CASE q > k
        <4>1. PICK v \in own : v.round = q
          BY <1>1, <1>3, <3>2 DEF k
        <4> QED BY <1>1, <1>5, <1>6, <4>1
      <3> QED BY <1>3, <3>1, <3>2
    <2>4. ArmedIn(c)
      <3>1. c.round_timer
        BY <1>0, <1>2 DEF DagBook, ArmedIn
      <3>2. ~HasQuorum(c, r)
        <4>1. CertifiedAt(c, r) = CertifiedAt(b, r)
          BY <1>2, <1>3 DEF CertifiedAt, Kept
        <4> QED BY <1>3, <4>1 DEF HasQuorum
      <3>3. \E v \in c.my_proposals : v.round = r
        <4>1. \E v \in b.my_proposals \cup own : v.round = r
          <5>1. CASE r = k
            BY <1>0, <5>1 DEF DagBook, ArmedIn, k
          <5>2. CASE r # k
            BY <1>1, <1>3, <5>2 DEF k
          <5> QED BY <5>1, <5>2
        <4> QED BY <1>2, <1>3, <4>1 DEF Kept
      <3> QED BY <1>2, <3>1, <3>2, <3>3 DEF ArmedIn
    <2> QED BY <2>1, <2>2, <2>3, <2>4 DEF DagBook
  <1>11. \A m \in Honest : DagBook(m, book'[m], proposals', certs')
    BY <1>5, <1>10, DagBookGrows DEF DagInv
  <1> QED BY <1>9, <1>11 DEF DagInv

\* A book with the fields that DagBook looks at.
LEMMA SameDagBook ==
    ASSUME NEW n, NEW b, NEW c, NEW P, NEW C, DagBook(n, b, P, C),
           c.current_round = b.current_round, c.started = b.started,
           c.certified_by_round = b.certified_by_round, c.my_proposals = b.my_proposals,
           c.round_timer = b.round_timer,
           \A v \in c.proposals_seen : v \in b.proposals_seen \/ \E p \in P : p.vertex = v
    PROVE  DagBook(n, c, P, C)
  <1>1. SeenIn(c, P)
    BY DEF DagBook, SeenIn
  <1>2. CertifiedIn(c, C)
    BY DEF DagBook, CertifiedIn
  <1>3. ProposedIn(n, c, P)
    BY DEF DagBook, ProposedIn
  <1>4. ArmedIn(c)
    BY DEF DagBook, ArmedIn, HasQuorum, CertifiedAt
  <1> QED BY <1>1, <1>2, <1>3, <1>4 DEF DagBook

LEMMA GenesisDag ==
    ASSUME DagInv, CertInv', NEW n \in Honest, genesis_propose(n)
    PROVE  DagInv'
  <1>0. TypeOK /\ VoteInv /\ DagBook(n, book[n], proposals, certs) /\ book[n] \in VertexBook
    BY DEF DagInv, CertInv, VoteInv, TypeOK
  <1>1. PICK blobs \in Pending[n] :
          LET v == [round |-> 0, author |-> n, blobs |-> blobs]
          IN  /\ book' = [book EXCEPT ![n] = Started(book[n], n, v)]
              /\ proposals' = proposals \cup {Distinct(v, {})}
              /\ partials' = partials \cup {[vertex |-> v, voter |-> n]}
    BY <1>0 DEF genesis_propose, TypeOK
  <1> DEFINE v == [round |-> 0, author |-> n, blobs |-> blobs]
             p == Distinct(v, {})
             c == Started(book[n], n, v)
  <1>2. v \in Vertex /\ v.author = n /\ v.round = 0
    BY ValidatorAssumption, PendingAssumption, MaxRoundAssumption DEF Vertex, Round
  <1>3. /\ book' = [book EXCEPT ![n] = c]
        /\ proposals' = proposals \cup {p}
        /\ partials' = partials \cup {[vertex |-> v, voter |-> n]}
    BY <1>1
  <1> HIDE DEF v
  <1>4. p \in Proposal /\ p.vertex = v /\ [vertex |-> v, voter |-> n].vertex = v
    BY <1>2 DEF Proposal
  <1>5. /\ c.current_round = 0
        /\ c.started
        /\ c.certified_by_round = book[n].certified_by_round
        /\ c.my_proposals = book[n].my_proposals \cup {v}
        /\ c.proposals_seen = book[n].proposals_seen \cup {v}
        /\ c.round_timer
    BY <1>0, <1>2, GenesisFields
  <1> HIDE DEF c, p
  <1>6. /\ book'[n] = c
        /\ \A m \in Honest : m # n => book'[m] = book[m]
    BY <1>0, <1>3 DEF TypeOK
  <1>7. UNCHANGED <<certs, evidence>> /\ ~book[n].started
    BY DEF genesis_propose
  <1>8. book[n].certified_by_round = {}
    BY <1>0, <1>7 DEF VoteInv, Unstarted, NewBook
  <1>9. VotersChecked' /\ VertexNames' /\ HonestOnce' /\ AuthorsRun' /\ ListsDistinct' /\ NoHonestAccused'
    <2> DEFINE N == {p}
    <2>1. N \in SUBSET Proposal /\ proposals' = proposals \cup N
      BY <1>3, <1>4
    <2>2. \A q \in N : q.vertex.author = n /\ q.repeats = 0 /\ GoodParents(q, certs')
      <3>1. p.vertex.author = n /\ p.vertex.round = 0 /\ p.parents = {} /\ p.repeats = 0
        BY <1>2, <1>4 DEF p
      <3>2. GoodParents(p, certs')
        BY <3>1 DEF GoodParents
      <3> QED BY <3>1, <3>2
    <2>3. \A q, w \in N : q.vertex.round = w.vertex.round => q = w
      OBVIOUS
    <2>4. \A q \in N, w \in proposals : ~SameSlot(q.vertex, w.vertex)
      <3>1. \A w \in proposals : w.vertex.author # n
        BY <1>0, <1>7 DEF VoteInv, ProposalsBehind
      <3> QED BY <1>2, <1>4, <3>1 DEF SameSlot
    <2>5. \A x \in partials' : x \in partials \/ \E q \in N : x.vertex = q.vertex
      BY <1>3, <1>4
    <2>6. certs \subseteq certs' /\ UNCHANGED evidence
      BY <1>7
    <2> HIDE DEF N
    <2> QED BY <2>1, <2>2, <2>3, <2>4, <2>5, <2>6, ProposedDag
  <1>10. DagBook(n, c, proposals', certs')
    <2>1. SeenIn(c, proposals')
      BY <1>0, <1>3, <1>4, <1>5 DEF DagBook, SeenIn
    <2>2. CertifiedIn(c, certs')
      BY <1>5, <1>8, FS_EmptySet DEF CertifiedIn
    <2>3. ProposedIn(n, c, proposals')
      <3>1. \A r \in 0 .. 0 : r = 0
        OBVIOUS
      <3> QED BY <1>2, <1>3, <1>4, <1>5, <3>1 DEF ProposedIn
    <2>4. ArmedIn(c)
      <3>1. CertifiedAt(c, 0) = {} /\ quorum_threshold > 0
        BY <1>5, <1>8, Sizes DEF CertifiedAt, quorum_threshold
      <3>2. ~HasQuorum(c, 0)
        BY <3>1, FS_EmptySet, Sizes DEF HasQuorum
      <3> QED BY <1>2, <1>5, <3>2 DEF ArmedIn
    <2> QED BY <2>1, <2>2, <2>3, <2>4 DEF DagBook
  <1>11. \A m \in Honest : DagBook(m, book'[m], proposals', certs')
    BY <1>3, <1>6, <1>7, <1>10, DagBookGrows DEF DagInv
  <1> QED BY <1>9, <1>11 DEF DagInv

LEMMA ProposalDag ==
    ASSUME DagInv, CertInv', NEW n \in Honest, NEW p \in proposals, on_vertex_proposal(n, p)
    PROVE  DagInv'
  <1>0. TypeOK /\ \A m \in Honest : DagBook(m, book[m], proposals, certs)
    BY DEF DagInv, CertInv, VoteInv
  <1>1. UNCHANGED <<proposals, certs>>
    BY DEF on_vertex_proposal, ReportEquivocation, HoldProposal, VoteForProposal
  <1>2. CASE ReportEquivocation(n, p)
    <2>1. PICK s \in book[n].proposals_seen :
            /\ SameSlot(s, p.vertex)
            /\ s # p.vertex
            /\ evidence' = evidence \cup
                   {[offender |-> p.vertex.author, first |-> s, second |-> p.vertex]}
      BY <1>2 DEF ReportEquivocation
    <2> DEFINE e == [offender |-> p.vertex.author, first |-> s, second |-> p.vertex]
    <2>2. PICK q \in proposals : q.vertex = s
      BY <1>0 DEF DagBook, SeenIn
    <2>3. p.vertex.author \in Faulty
      <3>1. SameSlot(p.vertex, q.vertex) /\ p # q
        BY <2>1, <2>2 DEF SameSlot
      <3> QED BY <3>1 DEF DagInv, HonestOnce, AuthorsRun
    <2>4. e.offender = p.vertex.author /\ e.first = s /\ e.second = p.vertex
      OBVIOUS
    <2> HIDE DEF e
    <2>5. verify_evidence(e)'
      BY <2>1, <2>3, <2>4 DEF verify_evidence, ProposerSigned, SameSlot
    <2>6. UNCHANGED <<book, partials>>
      BY <1>2 DEF ReportEquivocation
    <2>7. \A x \in evidence' \ evidence : verify_evidence(x)' /\ x.offender \in Faulty
      BY <2>1, <2>3, <2>4, <2>5 DEF e
    <2> QED BY <1>0, <1>1, <2>6, <2>7, QuietDag
  <1>3. CASE HoldProposal(n, p) \/ VoteForProposal(n, p)
    <2>1. /\ book'[n].current_round = book[n].current_round
          /\ book'[n].started = book[n].started
          /\ book'[n].certified_by_round = book[n].certified_by_round
          /\ book'[n].my_proposals = book[n].my_proposals
          /\ book'[n].round_timer = book[n].round_timer
          /\ book'[n].proposals_seen = book[n].proposals_seen \cup {p.vertex}
          /\ \A m \in Honest : m # n => book'[m] = book[m]
      BY <1>0, <1>3 DEF HoldProposal, VoteForProposal, TypeOK, VertexBook
    <2>2. DagBook(n, book'[n], proposals, certs)
      BY <1>0, <2>1, SameDagBook
    <2>3. \A m \in Honest : DagBook(m, book'[m], proposals, certs')
      BY <1>0, <1>1, <2>1, <2>2
    <2>4. UNCHANGED evidence
      BY <1>3 DEF HoldProposal, VoteForProposal
    <2>5. ASSUME NEW x \in partials' \ partials, NEW q \in proposals, q.vertex = x.vertex
          PROVE  GoodParents(q, certs')
      <3>1. VoteForProposal(n, p) /\ x.vertex = p.vertex
        <4>1. ~HoldProposal(n, p)
          BY <2>5 DEF HoldProposal
        <4>2. VoteForProposal(n, p)
          BY <1>3, <4>1
        <4>3. partials' = partials \cup {[vertex |-> p.vertex, voter |-> n]}
          BY <4>2 DEF VoteForProposal
        <4>4. x = [vertex |-> p.vertex, voter |-> n]
          BY <2>5, <4>3
        <4> QED BY <4>2, <4>4
      <3>2. q = p
        BY <2>5, <3>1 DEF DagInv, VertexNames
      <3>3. ParentsCertified(book[n], p)
        BY <3>1 DEF VoteForProposal, MayVote
      <3>4. book[n].certified_by_round \subseteq certs
        BY <1>0 DEF DagBook, CertifiedIn
      <3>5. GoodParents(p, certs)
        <4>1. CASE p.vertex.round > 0
          <5>1. /\ ListLength(p) >= quorum_threshold
                /\ p.parents \in SUBSET book[n].certified_by_round
                /\ \A v \in p.parents : v.round = p.vertex.round - 1
            BY <3>3, <4>1 DEF ParentsCertified, CertifiedAt
          <5>2. Cardinality(p.parents) \in Nat
            BY <1>0, <5>1, FS_Subset, FS_CardinalityType DEF DagBook, CertifiedIn
          <5>3. NoRepeats(p)
            BY DEF DagInv, ListsDistinct
          <5>4. p.parents # {}
            BY <5>1, <5>3, FS_EmptySet, Sizes DEF NoRepeats, ListLength, quorum_threshold
          <5>5. p.vertex.author \in Honest => Cardinality(p.parents) >= quorum_threshold
            BY <5>1, <5>2, <5>3 DEF NoRepeats, ListLength
          <5> QED BY <3>4, <4>1, <5>1, <5>4, <5>5 DEF GoodParents
        <4>2. CASE ~(p.vertex.round > 0)
          BY <3>3, <4>2 DEF ParentsCertified, GoodParents
        <4> QED BY <4>1, <4>2
      <3> QED BY <1>1, <3>2, <3>5
    <2> QED BY <1>1, <2>3, <2>4, <2>5, QuietDag
  <1> QED BY <1>2, <1>3 DEF on_vertex_proposal

\* record_cert records what is certified.
LEMMA RecordedIn ==
    ASSUME NEW b, NEW c, NEW v, NEW C, CertifiedIn(b, C),
           c.certified_by_round = {w \in b.certified_by_round : ~SameSlot(w, v)} \cup {v}
    PROVE  CertifiedIn(c, C \cup {v})
  <1> DEFINE S == {w \in b.certified_by_round : ~SameSlot(w, v)}
  <1>1. S \in SUBSET b.certified_by_round
    OBVIOUS
  <1>2. c.certified_by_round = S \cup {v}
    OBVIOUS
  <1> HIDE DEF S
  <1>3. IsFiniteSet(S) /\ S \subseteq C
    BY <1>1, FS_Subset DEF CertifiedIn
  <1>4. IsFiniteSet(S \cup {v})
    BY <1>3, FS_AddElement
  <1> QED BY <1>2, <1>3, <1>4 DEF CertifiedIn

LEMMA PartialDag ==
    ASSUME DagInv, CertInv', NEW n \in Honest, NEW v \in Vertex, NEW m \in Validator,
           on_vertex_partial(n, v, m)
    PROVE  DagInv'
  <1>0. TypeOK /\ \A k \in Honest : DagBook(k, book[k], proposals, certs)
    BY DEF DagInv, CertInv, VoteInv
  <1>1. CASE CollectPartial(n, v, m)
    <2> DEFINE c == Collected(n, v, m)
    <2>1. /\ c.current_round = book[n].current_round
          /\ c.started = book[n].started
          /\ c.certified_by_round = book[n].certified_by_round
          /\ c.my_proposals = book[n].my_proposals
          /\ c.proposals_seen = book[n].proposals_seen
          /\ c.round_timer = book[n].round_timer
      BY <1>0, CollectedFields
    <2>2. book' = [book EXCEPT ![n] = c] /\ UNCHANGED <<proposals, partials, certs, evidence>>
      BY <1>1 DEF CollectPartial
    <2> HIDE DEF c
    <2>3. DagBook(n, c, proposals, certs)
      BY <1>0, <2>1, SameDagBook
    <2>4. \A k \in Honest : DagBook(k, book'[k], proposals, certs')
      BY <1>0, <2>2, <2>3 DEF TypeOK
    <2> QED BY <2>2, <2>4, QuietDag
  <1>2. CASE CertifyVertex(n, v, m)
    <2> DEFINE b == CertifiedBook(n, v, m)
               e == [Collected(n, v, m) EXCEPT !.emitted_certs = @ \cup {v}]
    <2>1. /\ e \in VertexBook
          /\ e.current_round = book[n].current_round
          /\ e.started = book[n].started
          /\ e.certified_by_round = book[n].certified_by_round
          /\ e.my_proposals = book[n].my_proposals
          /\ e.proposals_seen = book[n].proposals_seen
          /\ e.round_timer = book[n].round_timer
      BY <1>0, CollectedFields
    <2>2. b = record_cert(e, v)
      BY DEF CertifiedBook
    <2>3. maybe_advance(n, b) /\ book[n].started /\ certs' = certs \cup {v} /\ UNCHANGED evidence
      BY <1>2 DEF CertifyVertex, CertifiedBook, NewPartial
    <2> HIDE DEF b, e
    <2>4. /\ b \in VertexBook
          /\ b.current_round = e.current_round
          /\ b.started = e.started
          /\ b.certified_by_round = {w \in e.certified_by_round : ~SameSlot(w, v)} \cup {v}
          /\ b.my_proposals = e.my_proposals
          /\ b.proposals_seen = e.proposals_seen
          /\ b.round_timer = e.round_timer
      BY <2>1, <2>2, RecordFields
    <2>5. CertifiedIn(b, certs')
      <3>1. CertifiedIn(book[n], certs)
        BY <1>0 DEF DagBook
      <3> QED BY <2>1, <2>3, <2>4, <3>1, RecordedIn
    <2>6. /\ b.started
          /\ b.current_round = book[n].current_round
          /\ b.my_proposals = book[n].my_proposals
          /\ b.proposals_seen = book[n].proposals_seen
          /\ b.round_timer = book[n].round_timer
          /\ certs \subseteq certs'
      BY <2>1, <2>3, <2>4
    <2> QED BY <2>3, <2>4, <2>5, <2>6, AdvanceDag
  <1> QED BY <1>1, <1>2 DEF on_vertex_partial

LEMMA CertifiedDag ==
    ASSUME DagInv, CertInv', NEW n \in Honest, NEW v \in certs, on_certified_vertex(n, v)
    PROVE  DagInv'
  <1> DEFINE b == record_cert(book[n], v)
  <1>1. book[n] \in VertexBook /\ v \in Vertex /\ CertifiedIn(book[n], certs)
    BY DEF DagInv, CertInv, VoteInv, TypeOK, DagBook
  <1>2. maybe_advance(n, b) /\ book[n].started /\ certs' = certs \cup {v} /\ UNCHANGED evidence
    BY DEF on_certified_vertex
  <1>3. /\ b \in VertexBook
        /\ b.current_round = book[n].current_round
        /\ b.started = book[n].started
        /\ b.certified_by_round = {w \in book[n].certified_by_round : ~SameSlot(w, v)} \cup {v}
        /\ b.my_proposals = book[n].my_proposals
        /\ b.proposals_seen = book[n].proposals_seen
        /\ b.round_timer = book[n].round_timer
    BY <1>1, RecordFields
  <1> HIDE DEF b
  <1>4. CertifiedIn(b, certs')
    BY <1>1, <1>2, <1>3, RecordedIn
  <1>5. b.started /\ certs \subseteq certs'
    BY <1>2, <1>3
  <1> QED BY <1>2, <1>3, <1>4, <1>5, AdvanceDag

LEMMA TimerDag ==
    ASSUME DagInv, CertInv', NEW n \in Honest, on_timer_fired(n)
    PROVE  DagInv'
  <1> DEFINE b == book[n]
             t == ~HasQuorum(b, b.current_round)
             c == [b EXCEPT !.round_timer = t]
  <1>0. /\ TypeOK /\ \A k \in Honest : DagBook(k, book[k], proposals, certs)
        /\ b \in VertexBook /\ Unstarted
    BY DEF DagInv, CertInv, VoteInv, TypeOK
  <1>1. b.started
    <2> SUFFICES ASSUME ~b.started PROVE FALSE
      OBVIOUS
    <2>1. b.round_timer = FALSE
      BY <1>0 DEF Unstarted, NewBook
    <2> QED BY <2>1 DEF on_timer_fired
  <1>2. t = TRUE /\ b.round_timer = TRUE
    BY <1>0, <1>1 DEF DagBook, ArmedIn, VertexBook
  <1>3. book' = [book EXCEPT ![n] = c] /\ UNCHANGED <<proposals, partials, certs, evidence>>
    BY <1>0 DEF on_timer_fired, TypeOK
  <1>4. c = b
    <2> HIDE DEF t, b
    <2> QED BY <1>0, <1>2 DEF VertexBook
  <1>5. book' = book
    BY <1>0, <1>3, <1>4 DEF TypeOK
  <1> QED BY <1>0, <1>3, <1>5, QuietDag

LEMMA FaultyDag ==
    ASSUME DagInv, CertInv', FaultyNext
    PROVE  DagInv'
  <1>0. /\ \A k \in Honest : DagBook(k, book[k], proposals, certs)
        /\ UNCHANGED <<book, partials, evidence>>
    BY DEF DagInv, FaultyNext, FaultyPropose, FaultyCertify
  <1>1. ASSUME NEW p \in proposals, FaultyCertify(p) PROVE DagInv'
    <2>1. UNCHANGED proposals /\ certs \subseteq certs'
      BY <1>1 DEF FaultyCertify
    <2>2. \A k \in Honest : DagBook(k, book'[k], proposals, certs')
      BY <1>0, <2>1, DagBookGrows
    <2> QED BY <1>0, <2>1, <2>2, QuietDag
  <1>2. ASSUME NEW p \in FaultyProposal, FaultyPropose(p) PROVE DagInv'
    <2>1. /\ proposals' = proposals \cup {p}
          /\ UNCHANGED certs
          /\ \A q \in proposals : q.vertex # p.vertex
          /\ p.vertex.author \in Faulty
          /\ p.vertex.author \notin Honest
      BY <1>2, FaultyProposalAssumption, ValidatorAssumption DEF FaultyPropose
    <2>2. VertexNames'
      BY <2>1 DEF DagInv, VertexNames
    <2>3. HonestOnce'
      BY <2>1 DEF DagInv, HonestOnce, SameSlot
    <2>4. AuthorsRun' /\ ListsDistinct'
      BY <1>2, <2>1, FaultyProposalAssumption DEF DagInv, AuthorsRun, ListsDistinct, NoRepeats
    <2>5. VotersChecked'
      <3> SUFFICES ASSUME NEW x \in partials, NEW q \in proposals', q.vertex = x.vertex
                   PROVE  GoodParents(q, certs)
        BY <1>0, <2>1 DEF VotersChecked
      <3>1. \E w \in proposals : w.vertex = x.vertex
        BY DEF DagInv, CertInv, VoteInv, VotesProposed
      <3>2. q \in proposals
        BY <2>1, <3>1
      <3> QED BY <3>2 DEF DagInv, VotersChecked
    <2>6. NoHonestAccused'
      BY <1>0, <2>1, EvidenceStays DEF DagInv, NoHonestAccused
    <2>7. \A k \in Honest : DagBook(k, book'[k], proposals', certs')
      BY <1>0, <2>1, DagBookGrows
    <2> QED BY <2>2, <2>3, <2>4, <2>5, <2>6, <2>7 DEF DagInv
  <1> QED BY <1>1, <1>2 DEF FaultyNext

LEMMA DagNext == DagInv /\ [Next]_vars => DagInv'
  <1> SUFFICES ASSUME DagInv, [Next]_vars PROVE DagInv'
    OBVIOUS
  <1>0. CertInv' /\ TypeOK
    BY CertInvNext DEF DagInv, CertInv, VoteInv
  <1>1. ASSUME NEW n \in Honest, genesis_propose(n) PROVE DagInv'
    BY <1>0, <1>1, GenesisDag
  <1>2. ASSUME NEW n \in Honest, NEW p \in proposals, on_vertex_proposal(n, p) PROVE DagInv'
    BY <1>0, <1>2, ProposalDag
  <1>3. ASSUME NEW n \in Honest, NEW p \in proposals, NEW m \in Validator,
               on_vertex_partial(n, p.vertex, m)
        PROVE  DagInv'
    <2>1. p.vertex \in Vertex
      BY <1>0 DEF TypeOK, Proposal
    <2> QED BY <1>0, <1>3, <2>1, PartialDag
  <1>4. ASSUME NEW n \in Honest, NEW v \in certs, on_certified_vertex(n, v) PROVE DagInv'
    BY <1>0, <1>4, CertifiedDag
  <1>5. ASSUME NEW n \in Honest, on_timer_fired(n) PROVE DagInv'
    BY <1>0, <1>5, TimerDag
  <1>6. CASE FaultyNext
    BY <1>0, <1>6, FaultyDag
  <1>7. CASE UNCHANGED vars
    <2>1. UNCHANGED <<book, proposals, partials, certs, evidence>>
      BY <1>7 DEF vars
    <2>2. \A k \in Honest : DagBook(k, book'[k], proposals, certs')
      BY <2>1 DEF DagInv
    <2> QED BY <1>0, <2>1, <2>2, QuietDag
  <1> QED BY <1>1, <1>2, <1>3, <1>4, <1>5, <1>6, <1>7 DEF Next, HonestNext

LEMMA DagInvariant == Spec => []DagInv
  BY DagInit, DagNext, PTL DEF Spec

-----------------------------------------------------------------------------
\* Equivocation evidence always passes the verifier and names a faulty validator:
\* neither a re-broadcast, nor a proposal repeated after its round was pruned, nor
\* several rounds opened at once make an honest author look like an equivocator.
THEOREM EvidenceSound == Spec => []NoHonestAccused
  <1>1. DagInv => NoHonestAccused
    BY DEF DagInv
  <1> QED BY <1>1, DagInvariant, PTL

\* A started validator has proposed exactly one vertex in each round up to its
\* current one and none above, although maybe_advance may open several rounds in
\* one call.
THEOREM EveryRoundOnce == Spec => []ProposesEveryRoundOnce
  <1>1. DagInv => ProposesEveryRoundOnce
    <2> SUFFICES ASSUME DagInv, NEW n \in Honest, book[n].started, NEW r \in Round
                 PROVE  LET mine == {p \in proposals : p.vertex.author = n /\ p.vertex.round = r}
                        IN  IF r <= book[n].current_round THEN Cardinality(mine) = 1 ELSE mine = {}
      BY DEF ProposesEveryRoundOnce
    <2> DEFINE mine == {p \in proposals : p.vertex.author = n /\ p.vertex.round = r}
    <2>1. TypeOK /\ ProposalsBehind /\ ProposedIn(n, book[n], proposals)
      BY DEF DagInv, CertInv, VoteInv, DagBook
    <2>2. r \in Nat /\ book[n].current_round \in Nat
      BY <2>1, RoundsAreNat
    <2>3. CASE r <= book[n].current_round
      <3>1. PICK p \in proposals : p.vertex.author = n /\ p.vertex.round = r
        <4>1. r \in 0 .. book[n].current_round
          BY <2>2, <2>3
        <4> QED BY <2>1, <4>1 DEF ProposedIn
      <3>2. \A q \in mine : q = p
        BY <3>1 DEF DagInv, HonestOnce, SameSlot
      <3>3. mine = {p}
        BY <3>1, <3>2
      <3> HIDE DEF mine
      <3>4. Cardinality(mine) = 1
        BY <3>3, FS_Singleton
      <3> QED BY <2>3, <3>4 DEF mine
    <2>4. CASE ~(r <= book[n].current_round)
      <3>1. mine = {}
        BY <2>1, <2>2, <2>4 DEF ProposalsBehind
      <3> QED BY <2>4, <3>1
    <2> QED BY <2>3, <2>4
  <1> QED BY <1>1, DagInvariant, PTL

\* No event leaves a started validator without its fallback timer, without a
\* proposal to re-broadcast, or in a round that already has a quorum.
THEOREM AlwaysArmed == Spec => []FallbackTimerArmed
  <1>1. DagInv => FallbackTimerArmed
    BY DEF DagInv, DagBook, ArmedIn, FallbackTimerArmed
  <1> QED BY <1>1, DagInvariant, PTL

\* With at most F faulty validators an honest one has signed what is certified,
\* and so it was proposed with good parents.
LEMMA CertifiedGood ==
    ASSUME Cardinality(Faulty) <= F, DagInv, NEW v \in certs
    PROVE  \E p \in proposals : p.vertex = v /\ GoodParents(p, certs)
  <1>1. Cardinality(Signers(v)) >= quorum_threshold
    BY DEF DagInv, CertInv, CertsSigned
  <1>2. PICK m \in Honest : [vertex |-> v, voter |-> m] \in partials
    <2> SUFFICES ASSUME ~\E m \in Honest : [vertex |-> v, voter |-> m] \in partials PROVE FALSE
      OBVIOUS
    <2>1. Signers(v) = Faulty
      BY DEF Signers
    <2>2. Cardinality(Faulty) \in Nat
      BY Sizes, ValidatorAssumption
    <2> QED BY <1>1, <2>1, <2>2, Sizes DEF quorum_threshold
  <1> DEFINE x == [vertex |-> v, voter |-> m]
  <1>3. x \in partials /\ x.vertex = v
    BY <1>2
  <1>4. PICK p \in proposals : p.vertex = v
    BY <1>3 DEF DagInv, CertInv, VoteInv, VotesProposed
  <1> QED BY <1>3, <1>4 DEF DagInv, VotersChecked

\* With at most F faulty validators every certified vertex above round 0 has
\* certified parents in the round below and no others, whatever faulty authors
\* propose and whoever assembles the certificate; the vertices of authors that run
\* this code have a quorum of them.  A list of another author may be long enough
\* for the voters only because it repeats a parent.
THEOREM ParentsAlwaysCertified ==
    ASSUME Cardinality(Faulty) <= F
    PROVE  Spec => []CausalHistory
  <1>1. DagInv => CausalHistory
    <2> SUFFICES ASSUME DagInv, NEW p \in proposals, p.vertex \in certs, p.vertex.round > 0
                 PROVE  /\ p.parents # {}
                        /\ p.parents \subseteq certs
                        /\ \A v \in p.parents : v.round = p.vertex.round - 1
                        /\ p.vertex.author \in Honest => Cardinality(p.parents) >= quorum_threshold
      BY DEF CausalHistory
    <2>1. PICK q \in proposals : q.vertex = p.vertex /\ GoodParents(q, certs)
      BY CertifiedGood
    <2>2. q = p
      BY <2>1 DEF DagInv, VertexNames
    <2> QED BY <2>1, <2>2 DEF GoodParents
  <1> QED BY <1>1, DagInvariant, PTL

-----------------------------------------------------------------------------
(***************************************************************************)
(* What L2 is given.  L2 names a vertex by its round and author, module    *)
(* Bullshark takes a DAG of such names as a constant, and DagAssumption    *)
(* says what it needs of it.  The certified vertices and the parents of    *)
(* their proposals are such a DAG: naming them loses nothing, because a    *)
(* slot has one certificate.                                               *)
(***************************************************************************)

Named(v) == [round |-> v.round, author |-> v.author]

\* The proposals that are certified, the vertices of L2 and their parents.
CertifiedProposals == {p \in proposals : p.vertex \in certs}
DagVertex == {Named(v) : v \in certs}
ParentsNamed(u) == {w \in DagVertex : \E p \in CertifiedProposals :
                        Named(p.vertex) = u /\ \E x \in p.parents : w = Named(x)}
DagParents == [u \in DagVertex |-> ParentsNamed(u)]

\* DagAssumption of Bullshark, of the DAG that is certified so far, and no parent
\* of a certified vertex is missing in it.
FormsDag ==
    /\ DagVertex \subseteq [round : Nat, author : Validator] /\ IsFiniteSet(DagVertex)
    /\ DagParents \in [DagVertex -> SUBSET DagVertex]
    /\ \A u \in DagVertex :
          /\ \A w \in DagParents[u] : w.round = u.round - 1
          /\ u.round > 0 => DagParents[u] # {}
          /\ u.round > 0 /\ u.author \in Honest =>
                Cardinality(DagParents[u]) >= 2 * ((Cardinality(Validator) - 1) \div 3) + 1
    /\ \A p \in CertifiedProposals : \A x \in p.parents : Named(x) \in DagParents[Named(p.vertex)]

\* There are finitely many names.
LEMMA NamesFinite == IsFiniteSet([round : Round, author : Validator])
  <1> DEFINE S == Round \X Validator
             T == [round : Round, author : Validator]
             f == [s \in S |-> [round |-> s[1], author |-> s[2]]]
  <1>1. IsFiniteSet(Round)
    BY MaxRoundAssumption, FS_Interval DEF Round
  <1>2. IsFiniteSet(S)
    BY <1>1, ValidatorAssumption, FS_Product
  <1>3. f \in [S -> T]
    OBVIOUS
  <1>4. ASSUME NEW t \in T PROVE \E s \in S : f[s] = t
    <2>1. <<t.round, t.author>> \in S
      OBVIOUS
    <2>2. f[<<t.round, t.author>>] = t
      OBVIOUS
    <2> QED BY <2>1, <2>2
  <1>5. f \in Surjection(S, T)
    BY <1>3, <1>4 DEF Surjection
  <1> HIDE DEF f, S, T
  <1>6. IsFiniteSet(T)
    BY <1>2, <1>5, FS_Surjection
  <1> QED BY <1>6 DEF T

\* Vertices of different slots have different names, so a set of them has as many
\* names as vertices.
LEMMA NamesCount ==
    ASSUME NEW P \in SUBSET Vertex, \A v, w \in P : SameSlot(v, w) => v = w
    PROVE  Cardinality(P) = Cardinality({Named(v) : v \in P})
  <1> DEFINE T == {Named(v) : v \in P}
             f == [v \in P |-> Named(v)]
  <1>1. \A v, w \in P : f[v] = f[w] => v = w
    BY DEF Named, SameSlot
  <1>2. f \in [P -> T] /\ \A t \in T : \E v \in P : f[v] = t
    OBVIOUS
  <1>3. f \in Bijection(P, T)
    BY <1>1, <1>2 DEF Bijection, Injection, IsInjective, Surjection
  <1>4. T \in SUBSET [round : Round, author : Validator]
    BY DEF Named, Vertex
  <1>5. IsFiniteSet(T)
    BY <1>4, NamesFinite, FS_Subset
  <1> HIDE DEF f, T
  <1>6. IsFiniteSet(P)
    BY <1>3, <1>5, FS_Injection DEF Bijection
  <1>7. ExistsBijection(P, T)
    BY <1>3 DEF ExistsBijection
  <1> QED BY <1>6, <1>7, FS_Bijection DEF T

\* L1 gives L2 the DAG that L2 assumes, as long as at most F of 3F + 1 validators
\* are faulty: at every moment the certified vertices, named by round and author,
\* have certified parents, all of the round below, and a quorum of them where the
\* author runs this code.
THEOREM DagDelivered ==
    ASSUME Cardinality(Validator) = 3 * F + 1, Cardinality(Faulty) <= F
    PROVE  Spec => []FormsDag
  <1>1. DagInv /\ CertUnique => FormsDag
    <2> SUFFICES ASSUME DagInv, CertUnique PROVE FormsDag
      OBVIOUS
    <2>1. certs \subseteq Vertex /\ proposals \subseteq Proposal
      BY DEF DagInv, CertInv, VoteInv, TypeOK
    <2>2. DagVertex \in SUBSET [round : Round, author : Validator]
      BY <2>1 DEF DagVertex, Named, Vertex
    <2>3. DagVertex \subseteq [round : Nat, author : Validator] /\ IsFiniteSet(DagVertex)
      <3>1. Round \subseteq Nat
        BY MaxRoundAssumption DEF Round
      <3> QED BY <2>2, <3>1, NamesFinite, FS_Subset
    <2>4. DagParents \in [DagVertex -> SUBSET DagVertex]
      BY DEF DagParents, ParentsNamed
    <2>5. ASSUME NEW u \in DagVertex
          PROVE  /\ \A w \in DagParents[u] : w.round = u.round - 1
                 /\ u.round > 0 => DagParents[u] # {}
                 /\ u.round > 0 /\ u.author \in Honest => Cardinality(DagParents[u]) >= quorum_threshold
                 /\ \A p \in CertifiedProposals : Named(p.vertex) = u =>
                        \A x \in p.parents : Named(x) \in DagParents[u]
      <3>1. PICK v \in certs : u = Named(v)
        BY DEF DagVertex
      <3>2. PICK p \in proposals : p.vertex = v /\ GoodParents(p, certs)
        BY CertifiedGood
      <3>3. v \in Vertex /\ v.round \in Nat /\ u.round = v.round /\ u.author = v.author
        BY <2>1, <3>1, MaxRoundAssumption DEF Vertex, Round, Named
      <3>4. ASSUME NEW q \in CertifiedProposals, Named(q.vertex) = u PROVE q = p
        <4>1. q.vertex \in certs /\ q \in proposals
          BY <3>4 DEF CertifiedProposals
        <4>2. SameSlot(q.vertex, v)
          BY <3>1, <3>4 DEF Named, SameSlot
        <4>3. q.vertex = v
          BY <4>1, <4>2 DEF CertUnique
        <4> QED BY <3>2, <4>1, <4>3 DEF DagInv, VertexNames
      <3>5. p \in CertifiedProposals /\ Named(p.vertex) = u
        BY <3>1, <3>2 DEF CertifiedProposals
      <3>6. p.parents \subseteq certs /\ \A x \in p.parents : x.round = v.round - 1
        BY <3>2, <3>3 DEF GoodParents
      <3>7. DagParents[u] = {Named(x) : x \in p.parents}
        <4>1. DagParents[u] = ParentsNamed(u)
          BY DEF DagParents
        <4>2. \A w \in ParentsNamed(u) : \E x \in p.parents : w = Named(x)
          BY <3>4 DEF ParentsNamed
        <4>3. \A x \in p.parents : Named(x) \in ParentsNamed(u)
          BY <3>5, <3>6 DEF ParentsNamed, DagVertex
        <4> QED BY <4>1, <4>2, <4>3
      <3>8. ASSUME NEW w \in DagParents[u] PROVE w.round = u.round - 1
        <4>1. PICK x \in p.parents : w = Named(x)
          BY <3>7
        <4> QED BY <3>3, <3>6, <4>1 DEF Named
      <3>9. ASSUME u.round > 0, u.author \in Honest
            PROVE  Cardinality(DagParents[u]) >= quorum_threshold
        <4>1. Cardinality(p.parents) >= quorum_threshold
          BY <3>2, <3>3, <3>9 DEF GoodParents
        <4>2. p.parents \in SUBSET Vertex /\ \A x, y \in p.parents : SameSlot(x, y) => x = y
          BY <2>1, <3>6 DEF CertUnique
        <4>3. Cardinality(p.parents) = Cardinality({Named(x) : x \in p.parents})
          BY <4>2, NamesCount
        <4> QED BY <3>7, <4>1, <4>3
      <3>10. u.round > 0 => DagParents[u] # {}
        BY <3>2, <3>3, <3>7 DEF GoodParents
      <3> QED BY <3>4, <3>7, <3>8, <3>9, <3>10
    <2>6. ASSUME NEW p \in CertifiedProposals, NEW x \in p.parents
          PROVE  Named(x) \in DagParents[Named(p.vertex)]
      <3>1. Named(p.vertex) \in DagVertex
        BY DEF CertifiedProposals, DagVertex
      <3> QED BY <2>5, <3>1
    <2>7. quorum_threshold = 2 * ((Cardinality(Validator) - 1) \div 3) + 1
      BY DEF quorum_threshold, F
    <2> QED BY <2>3, <2>4, <2>5, <2>6, <2>7 DEF FormsDag
  <1>2. Spec => []CertUnique
    BY CertificatesUnique
  <1> QED BY <1>1, <1>2, DagInvariant, PTL

=============================================================================
