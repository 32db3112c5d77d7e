---------------------------- MODULE MacroFinProofs ----------------------------
(***************************************************************************)
(* Theorems about MacroFin, for every validator set, every set of validators  *)
(* that restart, every sortition and every number of heights: its types, one *)
(* vote per height, agreement on the checkpoint of a height, and that      *)
(* honest voters are never slashable.                                      *)
(***************************************************************************)
EXTENDS MacroFin, FiniteSetTheorems, SequenceTheorems, TLAPS

-----------------------------------------------------------------------------
(***************************************************************************)
(* Checkpoints.                                                            *)
(***************************************************************************)

\* A checkpoint has a height, and a parent that is shorter by one.
LEMMA CheckpointFacts ==
    ASSUME NEW c \in Hash \ {Genesis}
    PROVE  /\ Len(c) \in Nat \ {0}
           /\ HeightOf(c) \in Height
           /\ HeightOf(c) \in Nat
           /\ ParentOf(c) \in Hash
           /\ Len(ParentOf(c)) = Len(c) - 1
  <1>1. c \in Seq(Window) /\ c # << >>
    BY DEF Hash, Genesis
  <1>2. Len(c) \in Nat \ {0}
    BY <1>1, EmptySeq
  <1>3. c[Len(c)] \in Window
    BY <1>1, <1>2, ElementOfSeq
  <1>4. HeightOf(c) \in Height
    BY <1>3 DEF HeightOf, Window
  <1>5. \A i \in 1 .. Len(c) - 1 : c[i] \in Window
    BY <1>1, <1>2, ElementOfSeq
  <1>6. 1 \in Int /\ Len(c) - 1 \in Int
    BY <1>2
  <1> DEFINE k == Len(c) - 1
             p == SubSeq(c, 1, k)
  <1>7. k \in Nat /\ p \in Seq(Window) /\ Len(p) = k
    <2>1. k \in Nat /\ \A i \in 1 .. k : c[i] \in Window
      BY <1>2, <1>5
    <2> HIDE DEF k
    <2>2. /\ p \in Seq(Window)
          /\ Len(p) = IF 1 <= k THEN k - 1 + 1 ELSE 0
      BY <2>1, SubSeqProperties
    <2> HIDE DEF p
    <2> QED BY <2>1, <2>2
  <1>8. ParentOf(c) = p
    BY DEF ParentOf
  <1> HIDE DEF p
  <1>9. ParentOf(c) \in Hash /\ Len(ParentOf(c)) = Len(c) - 1
    BY <1>7, <1>8 DEF Hash
  <1> QED BY <1>2, <1>4, <1>9, BoundAssumption DEF Height

\* What build makes: one window more, at the given height.
LEMMA BuildFacts ==
    ASSUME NEW h \in Height, NEW parent \in Hash, NEW ring \in Seq(Micro)
    PROVE  LET c == build(h, parent, ring) IN
           /\ c \in Hash \ {Genesis}
           /\ Len(c) = Len(parent) + 1
           /\ HeightOf(c) = h
           /\ ParentOf(c) = parent
           /\ c[Len(c)].root = ring
           /\ \A i \in 1 .. Len(parent) : c[i] = parent[i]
  <1> DEFINE w == [height |-> h, root |-> ring]
             c == Append(parent, w)
  <1>1. w \in Window /\ w.height = h /\ w.root = ring
    BY DEF Window
  <1>2. parent \in Seq(Window) /\ Len(parent) \in Nat
    BY LenProperties DEF Hash
  <1> HIDE DEF w
  <1>3. /\ c \in Seq(Window)
        /\ c # << >>
        /\ Len(c) = Len(parent) + 1
        /\ \A i \in 1 .. Len(parent) : c[i] = parent[i]
        /\ c[Len(parent) + 1] = w
    BY <1>1, <1>2, AppendProperties
  <1> HIDE DEF c
  <1>4. c \in Hash \ {Genesis}
    BY <1>3 DEF Hash, Genesis
  <1>5. HeightOf(c) = h /\ c[Len(c)].root = ring
    BY <1>1, <1>3 DEF HeightOf
  <1>6. ParentOf(c) = parent
    <2>1. \A i \in 1 .. Len(c) - 1 : c[i] \in Window
      BY <1>2, <1>3, ElementOfSeq
    <2>2. 1 \in Int /\ Len(c) - 1 \in Int
      BY <1>2, <1>3
    <2>3. \A i \in 1 .. (Len(c) - 1) - 1 + 1 : SubSeq(c, 1, Len(c) - 1)[i] = c[1 + i - 1]
      BY <2>1, <2>2, SubSeqProperties
    <2>4. \A i \in 1 .. Len(parent) : ParentOf(c)[i] = parent[i]
      BY <2>3, <1>2, <1>3 DEF ParentOf
    <2>5. ParentOf(c) \in Seq(Window) /\ Len(ParentOf(c)) = Len(parent)
      BY <1>2, <1>3, <1>4, CheckpointFacts DEF Hash
    <2> QED BY <1>2, <2>4, <2>5, SeqEqual
  <1> QED BY <1>3, <1>4, <1>5, <1>6 DEF build, c, w

\* The maps of a book, when an entry of height h is put into them.
LEMMA MapFacts ==
    ASSUME NEW S, NEW c, IsMap(S)
    PROVE  /\ IsMap((S \ {d \in S : HeightOf(d) = HeightOf(c)}) \cup {c})
           /\ (\A d \in S : HeightOf(d) # HeightOf(c)) => IsMap(S \cup {c})
           /\ \A T \in SUBSET S : IsMap(T)
  BY DEF IsMap

-----------------------------------------------------------------------------
(***************************************************************************)
(* What the handlers do to a book, field by field.                         *)
(***************************************************************************)

\* The groups of fields a handler leaves alone together.
SameChain(b, c) == /\ c.next_height = b.next_height
                   /\ c.last_macro_hash = b.last_macro_hash
                   /\ c.emitted_macro_qc = b.emitted_macro_qc
SameVotes(b, c) == /\ c.lock = b.lock
                   /\ c.votes = b.votes
                   /\ c.partials = b.partials
SameTwoChain(b, c) == /\ c.adopted = b.adopted
                      /\ c.justified_head = b.justified_head
                      /\ c.finalized_head = b.finalized_head
                      /\ c.unfinalized_windows = b.unfinalized_windows
                      /\ c.leak_notified = b.leak_notified
                      /\ c.blob_status = b.blob_status
SameTimers(b, c) == /\ c.backup_timers = b.backup_timers
                    /\ c.mode_b_timers = b.mode_b_timers

Functional(S) == \A x, y \in S : x[1] = y[1] => x = y

\* on_local_micro_qcs, when the window is not full.
LEMMA PushedFields ==
    ASSUME NEW b \in MacroBook, NEW m \in Micro
    PROVE  LET c == [b EXCEPT !.micro_ring = Append(@, m)] IN
           /\ c \in MacroBook
           /\ c.micro_ring = Append(b.micro_ring, m)
           /\ c.candidate = b.candidate
           /\ c.candidate_beacon = b.candidate_beacon
           /\ c.proposals_seen = b.proposals_seen
           /\ SameChain(b, c) /\ SameVotes(b, c) /\ SameTwoChain(b, c) /\ SameTimers(b, c)
  <1> DEFINE ring == Append(b.micro_ring, m)
             c == [b EXCEPT !.micro_ring = ring]
  <1>1. ring \in Seq(Micro)
    BY AppendProperties DEF MacroBook
  <1> HIDE DEF ring
  <1>2. /\ c \in MacroBook
        /\ c.micro_ring = ring
        /\ c.candidate = b.candidate
        /\ c.candidate_beacon = b.candidate_beacon
        /\ c.proposals_seen = b.proposals_seen
        /\ SameChain(b, c) /\ SameVotes(b, c) /\ SameTwoChain(b, c) /\ SameTimers(b, c)
    BY <1>1 DEF MacroBook, SameChain, SameVotes, SameTwoChain, SameTimers
  <1> QED BY <1>2 DEF ring

\* on_local_micro_qcs, when the window is full: the candidate, what was proposed
\* and the timers.
CandidatesWith(b, k) == (b.candidate \ CandidateAt(b, HeightOf(k))) \cup {k}
BeaconsWith(b, k) == {x \in b.candidate_beacon : x[1] # HeightOf(k)}
                         \cup {<<HeightOf(k), b.last_macro_hash>>}
Built(b, k, seen, backup, modeb) ==
    [WithCandidate(b, k) EXCEPT !.proposal_seen = seen,
                                !.backup_timers = backup,
                                !.mode_b_timers = modeb]

LEMMA BuiltFields ==
    ASSUME NEW b \in MacroBook, NEW k \in Hash \ {Genesis},
           NEW seen \in SUBSET Height, NEW backup \in SUBSET Height, NEW modeb \in SUBSET Height
    PROVE  LET c == Built(b, k, seen, backup, modeb) IN
           /\ c \in MacroBook
           /\ c.micro_ring = << >>
           /\ c.candidate = CandidatesWith(b, k)
           /\ c.candidate_beacon = BeaconsWith(b, k)
           /\ c.proposals_seen = b.proposals_seen
           /\ c.backup_timers = backup
           /\ c.mode_b_timers = modeb
           /\ SameChain(b, c) /\ SameVotes(b, c) /\ SameTwoChain(b, c)
  <1> DEFINE cand == CandidatesWith(b, k)
             beac == BeaconsWith(b, k)
             ring == << >>
             w == [b EXCEPT !.micro_ring = ring, !.candidate = cand, !.candidate_beacon = beac]
             c == [w EXCEPT !.proposal_seen = seen, !.backup_timers = backup, !.mode_b_timers = modeb]
  <1>1. cand \in SUBSET (Hash \ {Genesis})
    BY DEF MacroBook, CandidatesWith
  <1>2. beac \in SUBSET (Height \X Hash)
    BY CheckpointFacts DEF MacroBook, BeaconsWith
  <1>3. ring \in Seq(Micro)
    BY EmptySeq
  <1>4. w = WithCandidate(b, k)
    BY DEF WithCandidate, CandidatesWith, BeaconsWith
  <1> HIDE DEF cand, beac, ring
  <1>5. /\ w \in MacroBook
        /\ w.micro_ring = ring
        /\ w.candidate = cand
        /\ w.candidate_beacon = beac
        /\ w.proposals_seen = b.proposals_seen
        /\ SameChain(b, w) /\ SameVotes(b, w) /\ SameTwoChain(b, w)
    BY <1>1, <1>2, <1>3 DEF MacroBook, SameChain, SameVotes, SameTwoChain
  <1> HIDE DEF w
  <1>6. /\ c \in MacroBook
        /\ c.micro_ring = w.micro_ring
        /\ c.candidate = w.candidate
        /\ c.candidate_beacon = w.candidate_beacon
        /\ c.proposals_seen = w.proposals_seen
        /\ c.backup_timers = backup
        /\ c.mode_b_timers = modeb
        /\ SameChain(w, c) /\ SameVotes(w, c) /\ SameTwoChain(w, c)
    BY <1>5 DEF MacroBook, SameChain, SameVotes, SameTwoChain
  <1> HIDE DEF c
  <1>7. SameChain(b, c) /\ SameVotes(b, c) /\ SameTwoChain(b, c)
    BY <1>5, <1>6 DEF SameChain, SameVotes, SameTwoChain
  <1>8. c = Built(b, k, seen, backup, modeb)
    BY <1>4 DEF c, Built
  <1> QED BY <1>5, <1>6, <1>7, <1>8 DEF cand, beac, ring

\* on_macro_proposal: the beacon is frozen, and the proposal is remembered or not.
LEMMA FrozenFields ==
    ASSUME book \in [Honest -> MacroBook], NEW n \in Honest, NEW p \in Proposal,
           Functional(book[n].candidate_beacon)
    PROVE  LET b == book[n]
               c == Frozen(n, p)
               s == [c EXCEPT !.proposals_seen = @ \cup {p}] IN
           /\ c \in MacroBook
           /\ c.micro_ring = b.micro_ring
           /\ c.candidate = b.candidate
           /\ Functional(c.candidate_beacon)
           /\ c.proposals_seen = b.proposals_seen
           /\ c.proposal_seen = b.proposal_seen
           /\ SameChain(b, c) /\ SameVotes(b, c) /\ SameTwoChain(b, c) /\ SameTimers(b, c)
           /\ s \in MacroBook
           /\ s.micro_ring = b.micro_ring
           /\ s.candidate = b.candidate
           /\ Functional(s.candidate_beacon)
           /\ s.proposals_seen = b.proposals_seen \cup {p}
           /\ SameChain(b, s) /\ SameVotes(b, s) /\ SameTwoChain(b, s) /\ SameTimers(b, s)
  <1> DEFINE b == book[n]
             h == HeightOf(p.checkpoint)
             beac == IF \E x \in b.candidate_beacon : x[1] = h THEN b.candidate_beacon
                     ELSE b.candidate_beacon \cup {<<h, b.last_macro_hash>>}
             c == [b EXCEPT !.candidate_beacon = beac]
             seen == c.proposals_seen \cup {p}
             s == [c EXCEPT !.proposals_seen = seen]
  <1>1. b \in MacroBook
    OBVIOUS
  <1>2. h \in Height
    BY CheckpointFacts DEF Proposal
  <1>3. beac \in SUBSET (Height \X Hash)
    BY <1>1, <1>2 DEF MacroBook
  <1>4. Functional(beac)
    <2>1. CASE \E x \in b.candidate_beacon : x[1] = h
      BY <2>1
    <2>2. CASE ~ \E x \in b.candidate_beacon : x[1] = h
      <3> DEFINE new == <<h, b.last_macro_hash>>
                 old == b.candidate_beacon
      <3>1. new[1] = h /\ Functional(old) /\ beac = old \cup {new} /\ \A x \in old : x[1] # h
        BY <2>2
      <3> HIDE DEF new, old, h, b
      <3> QED BY <3>1 DEF Functional
    <2> QED BY <2>1, <2>2
  <1>5. c = Frozen(n, p)
    BY DEF Frozen
  <1> HIDE DEF b, h, beac
  <1>6. /\ c \in MacroBook
        /\ c.micro_ring = b.micro_ring
        /\ c.candidate = b.candidate
        /\ c.candidate_beacon = beac
        /\ c.proposals_seen = b.proposals_seen
        /\ c.proposal_seen = b.proposal_seen
        /\ SameChain(b, c) /\ SameVotes(b, c) /\ SameTwoChain(b, c) /\ SameTimers(b, c)
    BY <1>1, <1>3 DEF MacroBook, SameChain, SameVotes, SameTwoChain, SameTimers
  <1> HIDE DEF c
  <1>7. seen \in SUBSET Proposal
    BY <1>6 DEF MacroBook
  <1> HIDE DEF seen
  <1>8. /\ s \in MacroBook
        /\ s.micro_ring = c.micro_ring
        /\ s.candidate = c.candidate
        /\ s.candidate_beacon = c.candidate_beacon
        /\ s.proposals_seen = seen
        /\ SameChain(c, s) /\ SameVotes(c, s) /\ SameTwoChain(c, s) /\ SameTimers(c, s)
    BY <1>6, <1>7 DEF MacroBook, SameChain, SameVotes, SameTwoChain, SameTimers
  <1>9. s = [Frozen(n, p) EXCEPT !.proposals_seen = @ \cup {p}]
    BY <1>5 DEF seen
  <1> HIDE DEF s
  <1>10. SameChain(b, s) /\ SameVotes(b, s) /\ SameTwoChain(b, s) /\ SameTimers(b, s)
    BY <1>6, <1>8 DEF SameChain, SameVotes, SameTwoChain, SameTimers
  <1> QED BY <1>4, <1>5, <1>6, <1>8, <1>9, <1>10 DEF b, seen

\* TwoChainRule::adopt: the adopted checkpoints and the justified head it leaves.
AdoptedWith(b, c) ==
    IF \E d \in b.adopted : HeightOf(d) = HeightOf(c) THEN b.adopted ELSE b.adopted \cup {c}
HeadWith(b, c) == IF c \in AdoptedWith(b, c) THEN {c} ELSE b.justified_head

LEMMA AdoptFields ==
    ASSUME NEW b \in MacroBook, NEW k \in Hash \ {Genesis}
    PROVE  LET c == adopt(b, k) IN
           /\ c \in MacroBook
           /\ c.adopted = AdoptedWith(b, k)
           /\ c.justified_head = HeadWith(b, k)
           /\ c.finalized_head = b.finalized_head
           /\ c.unfinalized_windows = b.unfinalized_windows
           /\ c.leak_notified = b.leak_notified
           /\ c.blob_status = b.blob_status
           /\ c.micro_ring = b.micro_ring
           /\ c.candidate = b.candidate
           /\ c.candidate_beacon = b.candidate_beacon
           /\ c.proposals_seen = b.proposals_seen
           /\ c.proposal_seen = b.proposal_seen
           /\ c.reputation = b.reputation
           /\ SameChain(b, c) /\ SameVotes(b, c) /\ SameTimers(b, c)
  <1> DEFINE ad == AdoptedWith(b, k)
             hd == HeadWith(b, k)
             c == [b EXCEPT !.adopted = ad, !.justified_head = hd]
  <1>1. ad \in SUBSET (Hash \ {Genesis})
    BY DEF MacroBook, AdoptedWith
  <1>2. hd \in SUBSET Hash
    BY DEF MacroBook, HeadWith
  <1>3. c = adopt(b, k)
    BY DEF adopt, AdoptedWith, HeadWith
  <1> HIDE DEF ad, hd
  <1>4. /\ c \in MacroBook
        /\ c.adopted = ad
        /\ c.justified_head = hd
        /\ c.finalized_head = b.finalized_head
        /\ c.unfinalized_windows = b.unfinalized_windows
        /\ c.leak_notified = b.leak_notified
        /\ c.blob_status = b.blob_status
        /\ c.micro_ring = b.micro_ring
        /\ c.candidate = b.candidate
        /\ c.candidate_beacon = b.candidate_beacon
        /\ c.proposals_seen = b.proposals_seen
        /\ c.proposal_seen = b.proposal_seen
        /\ c.reputation = b.reputation
        /\ SameChain(b, c) /\ SameVotes(b, c) /\ SameTimers(b, c)
    BY <1>1, <1>2 DEF MacroBook, SameChain, SameVotes, SameTimers
  <1> QED BY <1>3, <1>4 DEF ad, hd

\* The map keeps one checkpoint per height, and the head stays an option.
LEMMA AdoptFacts ==
    ASSUME NEW b, NEW c, IsMap(b.adopted), IsOption(b.justified_head)
    PROVE  IsMap(AdoptedWith(b, c)) /\ IsOption(HeadWith(b, c))
  BY DEF IsMap, IsOption, AdoptedWith, HeadWith

LEMMA SetTierType ==
    ASSUME NEW status \in SUBSET (Hash \X Tier), NEW cs \in SUBSET Hash, NEW tier \in Tier
    PROVE  SetTier(status, cs, tier) \in SUBSET (Hash \X Tier)
  BY DEF SetTier

\* on_macro_proposal, when the proposal is voted for.
VotedBook(n, p) ==
    [adopt(Frozen(n, p), p.checkpoint) EXCEPT
        !.proposals_seen = @ \cup {p},
        !.lock           = {p.checkpoint},
        !.proposal_seen  = @ \cup {HeightOf(p.checkpoint)},
        !.backup_timers  = @ \ {HeightOf(p.checkpoint)},
        !.partials       = @ \cup {<<p.checkpoint, n>>},
        !.votes          = record(@, p.checkpoint),
        !.blob_status    = SetTier(@, {p.checkpoint}, "SoftConfirmed")]

LEMMA VotedFields ==
    ASSUME book \in [Honest -> MacroBook], NEW n \in Honest, NEW p \in Proposal,
           Functional(book[n].candidate_beacon)
    PROVE  LET b == book[n]
               k == p.checkpoint
               c == VotedBook(n, p) IN
           /\ c \in MacroBook
           /\ c.micro_ring = b.micro_ring
           /\ c.candidate = b.candidate
           /\ Functional(c.candidate_beacon)
           /\ c.proposals_seen = b.proposals_seen \cup {p}
           /\ c.lock = {k}
           /\ c.votes = b.votes \cup {k}
           /\ c.partials = b.partials \cup {<<k, n>>}
           /\ c.backup_timers = b.backup_timers \ {HeightOf(k)}
           /\ c.mode_b_timers = b.mode_b_timers
           /\ c.adopted = AdoptedWith(b, k)
           /\ c.justified_head = HeadWith(b, k)
           /\ c.finalized_head = b.finalized_head
           /\ c.unfinalized_windows = b.unfinalized_windows
           /\ c.leak_notified = b.leak_notified
           /\ c.blob_status = SetTier(b.blob_status, {k}, "SoftConfirmed")
           /\ SameChain(b, c)
  <1> DEFINE b == book[n]
             k == p.checkpoint
             h == HeightOf(k)
             f == Frozen(n, p)
             a == adopt(f, k)
             seen == a.proposals_seen \cup {p}
             lock == {k}
             heights == a.proposal_seen \cup {h}
             backup == a.backup_timers \ {h}
             parts == a.partials \cup {<<k, n>>}
             vts == record(a.votes, k)
             stat == SetTier(a.blob_status, {k}, "SoftConfirmed")
             c == [a EXCEPT !.proposals_seen = seen, !.lock = lock, !.proposal_seen = heights,
                            !.backup_timers = backup, !.partials = parts, !.votes = vts,
                            !.blob_status = stat]
  <1>1. k \in Hash \ {Genesis} /\ h \in Height /\ n \in Validator
    BY CheckpointFacts, ValidatorAssumption DEF Proposal
  <1>2. /\ f \in MacroBook
        /\ f.micro_ring = b.micro_ring
        /\ f.candidate = b.candidate
        /\ Functional(f.candidate_beacon)
        /\ f.proposals_seen = b.proposals_seen
        /\ f.proposal_seen = b.proposal_seen
        /\ SameChain(b, f) /\ SameVotes(b, f) /\ SameTwoChain(b, f) /\ SameTimers(b, f)
    BY FrozenFields
  <1>c. c = VotedBook(n, p)
    BY DEF VotedBook
  <1> HIDE DEF b, k, h, f
  <1>3. /\ a \in MacroBook
        /\ a.adopted = AdoptedWith(f, k)
        /\ a.justified_head = HeadWith(f, k)
        /\ a.finalized_head = f.finalized_head
        /\ a.unfinalized_windows = f.unfinalized_windows
        /\ a.leak_notified = f.leak_notified
        /\ a.blob_status = f.blob_status
        /\ a.micro_ring = f.micro_ring
        /\ a.candidate = f.candidate
        /\ a.candidate_beacon = f.candidate_beacon
        /\ a.proposals_seen = f.proposals_seen
        /\ a.proposal_seen = f.proposal_seen
        /\ SameChain(f, a) /\ SameVotes(f, a) /\ SameTimers(f, a)
    BY <1>1, <1>2, AdoptFields
  <1> HIDE DEF a
  <1>4. /\ seen \in SUBSET Proposal
        /\ lock \in SUBSET (Hash \ {Genesis})
        /\ heights \in SUBSET Height
        /\ backup \in SUBSET Height
        /\ parts \in SUBSET (Hash \X Validator)
        /\ vts \in SUBSET (Hash \ {Genesis})
    BY <1>1, <1>3 DEF MacroBook, record
  <1>5. stat \in SUBSET (Hash \X Tier)
    <2>1. a.blob_status \in SUBSET (Hash \X Tier)
      BY <1>3 DEF MacroBook
    <2>2. {k} \in SUBSET Hash /\ "SoftConfirmed" \in Tier
      BY <1>1 DEF Tier
    <2> QED BY <2>1, <2>2, SetTierType
  <1> HIDE DEF seen, lock, heights, backup, parts, vts, stat
  <1>6. /\ c \in MacroBook
        /\ c.micro_ring = a.micro_ring
        /\ c.candidate = a.candidate
        /\ c.candidate_beacon = a.candidate_beacon
        /\ c.proposals_seen = seen
        /\ c.lock = lock
        /\ c.votes = vts
        /\ c.partials = parts
        /\ c.backup_timers = backup
        /\ c.mode_b_timers = a.mode_b_timers
        /\ c.adopted = a.adopted
        /\ c.justified_head = a.justified_head
        /\ c.finalized_head = a.finalized_head
        /\ c.unfinalized_windows = a.unfinalized_windows
        /\ c.leak_notified = a.leak_notified
        /\ c.blob_status = stat
        /\ SameChain(a, c)
    BY <1>3, <1>4, <1>5 DEF MacroBook, SameChain
  <1> HIDE DEF c
  <1>7. AdoptedWith(f, k) = AdoptedWith(b, k) /\ HeadWith(f, k) = HeadWith(b, k)
    BY <1>2 DEF AdoptedWith, HeadWith, SameTwoChain
  <1>8. SameChain(b, c)
    BY <1>2, <1>3, <1>6 DEF SameChain
  <1>9. /\ seen = b.proposals_seen \cup {p}
        /\ backup = b.backup_timers \ {h}
        /\ c.mode_b_timers = b.mode_b_timers
    BY <1>2, <1>3, <1>6 DEF SameTimers, seen, backup
  <1>10. vts = b.votes \cup {k} /\ parts = b.partials \cup {<<k, n>>}
    BY <1>2, <1>3 DEF SameVotes, vts, parts, record
  <1>11. /\ c.finalized_head = b.finalized_head
         /\ c.unfinalized_windows = b.unfinalized_windows
         /\ c.leak_notified = b.leak_notified
         /\ stat = SetTier(b.blob_status, {k}, "SoftConfirmed")
    BY <1>2, <1>3, <1>6 DEF SameTwoChain, stat
  <1>12. /\ c.micro_ring = b.micro_ring
         /\ c.candidate = b.candidate
         /\ Functional(c.candidate_beacon)
         /\ c.adopted = AdoptedWith(b, k)
         /\ c.justified_head = HeadWith(b, k)
    BY <1>2, <1>3, <1>6, <1>7
  <1> QED BY <1>6, <1>8, <1>9, <1>10, <1>11, <1>12, <1>c DEF b, k, h, lock

\* on_bls_partial: the partial is kept.
LEMMA CollectedFields ==
    ASSUME book \in [Honest -> MacroBook], NEW n \in Honest, NEW k \in Hash, NEW m \in Validator
    PROVE  LET b == book[n]
               c == Collected(n, k, m) IN
           /\ c \in MacroBook
           /\ c.micro_ring = b.micro_ring
           /\ c.candidate = b.candidate
           /\ c.candidate_beacon = b.candidate_beacon
           /\ c.proposals_seen = b.proposals_seen
           /\ c.lock = b.lock
           /\ c.votes = b.votes
           /\ c.partials = b.partials \cup {<<k, m>>}
           /\ SameChain(b, c) /\ SameTwoChain(b, c) /\ SameTimers(b, c)
  <1> DEFINE b == book[n]
             parts == b.partials \cup {<<k, m>>}
             c == [b EXCEPT !.partials = parts]
  <1>1. b \in MacroBook
    OBVIOUS
  <1>2. parts \in SUBSET (Hash \X Validator)
    BY <1>1 DEF MacroBook
  <1>3. c = Collected(n, k, m)
    BY DEF Collected
  <1> HIDE DEF b, parts
  <1>4. /\ c \in MacroBook
        /\ c.micro_ring = b.micro_ring
        /\ c.candidate = b.candidate
        /\ c.candidate_beacon = b.candidate_beacon
        /\ c.proposals_seen = b.proposals_seen
        /\ c.lock = b.lock
        /\ c.votes = b.votes
        /\ c.partials = parts
        /\ SameChain(b, c) /\ SameTwoChain(b, c) /\ SameTimers(b, c)
    BY <1>1, <1>2 DEF MacroBook, SameChain, SameTwoChain, SameTimers
  <1> QED BY <1>3, <1>4 DEF b, parts

\* The checkpoints that the adoption of c makes final.
FinalizedBy(b, c) ==
    {d \in AdoptedWith(b, c) : \E head \in HeadWith(b, c) :
        HeightOf(d) + 1 = HeightOf(head) /\ ParentOf(head) = d /\ d \notin b.finalized_head}

\* The tiers of the checkpoints after the adoption of c.
TiersWith(b, c) ==
    SetTier(SetTier(b.blob_status, {c}, "Justified"),
            UNION {CandidateAt(b, HeightOf(d)) : d \in FinalizedBy(b, c)}, "Finalized")

LEMMA LeakFields ==
    ASSUME NEW b \in MacroBook, NEW t \in BOOLEAN
    PROVE  [b EXCEPT !.leak_notified = t] \in MacroBook
  BY DEF MacroBook

\* finish_macro_qc_adoption.
LEMMA AdoptedFields ==
    ASSUME NEW b \in MacroBook, NEW k \in Hash \ {Genesis}, NEW signers
    PROVE  LET c == Adopted(b, k, signers)
               fin == FinalizedBy(b, k) IN
           /\ c \in MacroBook
           /\ c.micro_ring = b.micro_ring
           /\ c.candidate = b.candidate
           /\ c.candidate_beacon = b.candidate_beacon
           /\ c.proposals_seen = b.proposals_seen
           /\ SameVotes(b, c)
           /\ c.next_height = HeightOf(k) + 1
           /\ c.last_macro_hash = k
           /\ c.emitted_macro_qc = b.emitted_macro_qc \cup {k}
           /\ c.backup_timers = b.backup_timers \ {HeightOf(k)}
           /\ c.mode_b_timers = b.mode_b_timers \ {HeightOf(k)}
           /\ c.adopted = AdoptedWith(b, k)
           /\ c.justified_head = HeadWith(b, k)
           /\ c.finalized_head = IF fin # {} THEN fin ELSE b.finalized_head
           /\ c.unfinalized_windows = IF fin # {} THEN 0 ELSE b.unfinalized_windows + 1
           /\ c.leak_notified <=> /\ fin = {}
                                  /\ b.leak_notified \/ c.unfinalized_windows >= LeakTrigger
           /\ c.blob_status = TiersWith(b, k)
  <1> DEFINE a == adopt(b, k)
             h == HeightOf(k)
             fin == NewlyFinalized(a)
             windows == Lag(b, fin)
             justified == SetTier(b.blob_status, {k}, "Justified")
             below == UNION {CandidateAt(b, HeightOf(d)) : d \in fin}
             emit == a.emitted_macro_qc \cup {k}
             next == h + 1
             heights == a.proposal_seen \cup {h}
             backup == a.backup_timers \ {h}
             modeb == a.mode_b_timers \ {h}
             rep == Rewarded(a.reputation, signers)
             leak == fin = {} /\ (a.leak_notified \/ leak_applies(windows))
             final == IF fin # {} THEN fin ELSE a.finalized_head
             stat == SetTier(justified, below, "Finalized")
             c == [a EXCEPT !.emitted_macro_qc = emit,
                            !.last_macro_hash = k,
                            !.next_height = next,
                            !.proposal_seen = heights,
                            !.backup_timers = backup,
                            !.mode_b_timers = modeb,
                            !.reputation = rep,
                            !.unfinalized_windows = windows,
                            !.leak_notified = leak,
                            !.finalized_head = final,
                            !.blob_status = stat]
  <1>c. c = Adopted(b, k, signers)
    BY DEF Adopted
  <1>1. k \in Hash /\ h \in Height /\ h \in Nat
    BY CheckpointFacts
  <1>2. /\ a \in MacroBook
        /\ a.adopted = AdoptedWith(b, k)
        /\ a.justified_head = HeadWith(b, k)
        /\ a.finalized_head = b.finalized_head
        /\ a.unfinalized_windows = b.unfinalized_windows
        /\ a.leak_notified = b.leak_notified
        /\ a.blob_status = b.blob_status
        /\ a.micro_ring = b.micro_ring
        /\ a.candidate = b.candidate
        /\ a.candidate_beacon = b.candidate_beacon
        /\ a.proposals_seen = b.proposals_seen
        /\ a.proposal_seen = b.proposal_seen
        /\ a.reputation = b.reputation
        /\ SameChain(b, a) /\ SameVotes(b, a) /\ SameTimers(b, a)
    BY AdoptFields
  <1> HIDE DEF a, h
  <1>3. fin = FinalizedBy(b, k)
    BY <1>2 DEF NewlyFinalized, FinalizedBy
  <1>4. fin \in SUBSET Hash
    BY <1>2 DEF NewlyFinalized, MacroBook
  <1> HIDE DEF fin
  <1>5. windows \in Nat /\ windows = IF fin # {} THEN 0 ELSE b.unfinalized_windows + 1
    BY DEF Lag, MacroBook
  <1> HIDE DEF windows
  <1>6. stat \in SUBSET (Hash \X Tier)
    <2>1. justified \in SUBSET (Hash \X Tier)
      <3>1. b.blob_status \in SUBSET (Hash \X Tier) /\ {k} \in SUBSET Hash /\ "Justified" \in Tier
        BY <1>1 DEF MacroBook, Tier
      <3> QED BY <3>1, SetTierType
    <2>2. below \in SUBSET Hash /\ "Finalized" \in Tier
      BY DEF CandidateAt, MacroBook, Tier
    <2> HIDE DEF justified, below
    <2> QED BY <2>1, <2>2, SetTierType
  <1>7. stat = TiersWith(b, k)
    BY <1>3 DEF TiersWith
  <1>8. rep \in [Validator -> Nat]
    BY <1>2 DEF Rewarded, MacroBook
  <1>9. /\ emit \in SUBSET Hash
        /\ next \in Nat
        /\ heights \in SUBSET Height
        /\ backup \in SUBSET Height
        /\ modeb \in SUBSET Height
        /\ final \in SUBSET Hash
    BY <1>1, <1>2, <1>4 DEF MacroBook
  <1>10. leak \in BOOLEAN
    OBVIOUS
  <1>11. leak <=> fin = {} /\ (b.leak_notified \/ windows >= LeakTrigger)
    BY <1>2 DEF leak_applies
  <1>12. /\ emit = b.emitted_macro_qc \cup {k}
         /\ backup = b.backup_timers \ {h}
         /\ modeb = b.mode_b_timers \ {h}
         /\ final = IF fin # {} THEN fin ELSE b.finalized_head
    BY <1>2 DEF SameChain, SameTimers
  <1> HIDE DEF stat, rep, emit, next, heights, backup, modeb, final, leak
  <1>13. /\ c \in MacroBook
         /\ c.micro_ring = a.micro_ring
         /\ c.candidate = a.candidate
         /\ c.candidate_beacon = a.candidate_beacon
         /\ c.proposals_seen = a.proposals_seen
         /\ SameVotes(a, c)
         /\ c.next_height = next
         /\ c.last_macro_hash = k
         /\ c.emitted_macro_qc = emit
         /\ c.backup_timers = backup
         /\ c.mode_b_timers = modeb
         /\ c.adopted = a.adopted
         /\ c.justified_head = a.justified_head
         /\ c.finalized_head = final
         /\ c.unfinalized_windows = windows
         /\ c.leak_notified = leak
         /\ c.blob_status = stat
    <2>1. a \in MacroBook /\ k \in Hash /\ windows \in Nat
      BY <1>1, <1>2, <1>5
    <2> DEFINE r == [a EXCEPT !.emitted_macro_qc = emit,
                              !.last_macro_hash = k,
                              !.next_height = next,
                              !.proposal_seen = heights,
                              !.backup_timers = backup,
                              !.mode_b_timers = modeb,
                              !.reputation = rep,
                              !.unfinalized_windows = windows,
                              !.finalized_head = final,
                              !.blob_status = stat]
    <2>2. c \in MacroBook
      <3>1. c = [r EXCEPT !.leak_notified = leak]
        BY <2>1 DEF MacroBook
      <3>2. r \in MacroBook
        BY <2>1, <1>6, <1>8, <1>9 DEF MacroBook
      <3> HIDE DEF c, r
      <3> QED BY <3>1, <3>2, <1>10, LeakFields
    <2> QED BY <2>1, <2>2 DEF MacroBook, SameVotes
  <1> HIDE DEF c
  <1>14. SameVotes(b, c)
    BY <1>2, <1>13 DEF SameVotes
  <1>15. c.leak_notified <=> fin = {} /\ (b.leak_notified \/ c.unfinalized_windows >= LeakTrigger)
    BY <1>11, <1>13
  <1> QED BY <1>c, <1>2, <1>3, <1>5, <1>7, <1>12, <1>13, <1>14, <1>15 DEF h, next

\* on_timer_fired with the backup timer: whether the candidate is proposed or not.
LEMMA BackedUpFields ==
    ASSUME NEW b \in MacroBook, NEW h \in Height
    PROVE  LET s == [b EXCEPT !.backup_timers = @ \ {h}]
               c == [s EXCEPT !.proposal_seen = @ \cup {h}] IN
           /\ s \in MacroBook
           /\ s.micro_ring = b.micro_ring
           /\ s.candidate = b.candidate
           /\ s.candidate_beacon = b.candidate_beacon
           /\ s.proposals_seen = b.proposals_seen
           /\ s.backup_timers = b.backup_timers \ {h}
           /\ s.mode_b_timers = b.mode_b_timers
           /\ SameChain(b, s) /\ SameVotes(b, s) /\ SameTwoChain(b, s)
           /\ c \in MacroBook
           /\ c.micro_ring = b.micro_ring
           /\ c.candidate = b.candidate
           /\ c.candidate_beacon = b.candidate_beacon
           /\ c.proposals_seen = b.proposals_seen
           /\ c.backup_timers = b.backup_timers \ {h}
           /\ c.mode_b_timers = b.mode_b_timers
           /\ SameChain(b, c) /\ SameVotes(b, c) /\ SameTwoChain(b, c)
  <1> DEFINE backup == b.backup_timers \ {h}
             s == [b EXCEPT !.backup_timers = backup]
             heights == s.proposal_seen \cup {h}
             c == [s EXCEPT !.proposal_seen = heights]
  <1>1. backup \in SUBSET Height
    BY DEF MacroBook
  <1>e. s = [b EXCEPT !.backup_timers = @ \ {h}] /\ c = [s EXCEPT !.proposal_seen = @ \cup {h}]
    OBVIOUS
  <1> HIDE DEF backup
  <1>2. /\ s \in MacroBook
        /\ s.micro_ring = b.micro_ring
        /\ s.candidate = b.candidate
        /\ s.candidate_beacon = b.candidate_beacon
        /\ s.proposals_seen = b.proposals_seen
        /\ s.backup_timers = backup
        /\ s.mode_b_timers = b.mode_b_timers
        /\ SameChain(b, s) /\ SameVotes(b, s) /\ SameTwoChain(b, s)
    BY <1>1 DEF MacroBook, SameChain, SameVotes, SameTwoChain
  <1> HIDE DEF s
  <1>3. heights \in SUBSET Height
    BY <1>2 DEF MacroBook
  <1> HIDE DEF heights
  <1>4. /\ c \in MacroBook
        /\ c.micro_ring = s.micro_ring
        /\ c.candidate = s.candidate
        /\ c.candidate_beacon = s.candidate_beacon
        /\ c.proposals_seen = s.proposals_seen
        /\ c.backup_timers = s.backup_timers
        /\ c.mode_b_timers = s.mode_b_timers
        /\ SameChain(s, c) /\ SameVotes(s, c) /\ SameTwoChain(s, c)
    BY <1>2, <1>3 DEF MacroBook, SameChain, SameVotes, SameTwoChain
  <1> HIDE DEF c
  <1>5. SameChain(b, c) /\ SameVotes(b, c) /\ SameTwoChain(b, c)
    BY <1>2, <1>4 DEF SameChain, SameVotes, SameTwoChain
  <1> QED BY <1>e, <1>2, <1>4, <1>5 DEF backup

\* on_timer_fired with the Mode B deadline.
ModeBBook(n, h) ==
    [Leaderless(n, h) EXCEPT
        !.lock     = IF ModeBSigns(n, h) # {} THEN ModeBSigns(n, h) ELSE @,
        !.partials = @ \cup (ModeBSigns(n, h) \X {n})]

LEMMA ModeBFields ==
    ASSUME book \in [Honest -> MacroBook], NEW n \in Honest, NEW h \in Height
    PROVE  LET b == book[n]
               signs == ModeBSigns(n, h)
               c == ModeBBook(n, h) IN
           /\ c \in MacroBook
           /\ c.micro_ring = b.micro_ring
           /\ c.candidate = b.candidate
           /\ c.candidate_beacon = b.candidate_beacon
           /\ c.proposals_seen = b.proposals_seen
           /\ c.lock = IF signs # {} THEN signs ELSE b.lock
           /\ c.votes = b.votes
           /\ c.partials = b.partials \cup (signs \X {n})
           /\ c.backup_timers = b.backup_timers
           /\ c.mode_b_timers = b.mode_b_timers \ {h}
           /\ SameChain(b, c) /\ SameTwoChain(b, c)
  <1> DEFINE b == book[n]
             signs == ModeBSigns(n, h)
             modeb == b.mode_b_timers \ {h}
             active == IF CandidateAt(b, h) \cap b.emitted_macro_qc = {}
                       THEN b.mode_b_active \cup {h} ELSE b.mode_b_active
             l == [b EXCEPT !.mode_b_timers = modeb, !.mode_b_active = active]
             lock == IF signs # {} THEN signs ELSE l.lock
             parts == l.partials \cup (signs \X {n})
             c == [l EXCEPT !.lock = lock, !.partials = parts]
  <1>1. b \in MacroBook /\ n \in Validator
    BY ValidatorAssumption
  <1>2. modeb \in SUBSET Height /\ active \in SUBSET Height
    BY <1>1 DEF MacroBook
  <1>3. signs \in SUBSET (Hash \ {Genesis})
    BY <1>1 DEF ModeBSigns, CandidateAt, MacroBook
  <1>l. l = Leaderless(n, h)
    BY DEF Leaderless
  <1> HIDE DEF b, signs, modeb, active
  <1>4. /\ l \in MacroBook
        /\ l.micro_ring = b.micro_ring
        /\ l.candidate = b.candidate
        /\ l.candidate_beacon = b.candidate_beacon
        /\ l.proposals_seen = b.proposals_seen
        /\ l.backup_timers = b.backup_timers
        /\ l.mode_b_timers = modeb
        /\ SameChain(b, l) /\ SameVotes(b, l) /\ SameTwoChain(b, l)
    BY <1>1, <1>2 DEF MacroBook, SameChain, SameVotes, SameTwoChain
  <1> HIDE DEF l
  <1>c. c = ModeBBook(n, h)
    BY <1>l DEF ModeBBook, signs
  <1>5. lock \in SUBSET (Hash \ {Genesis}) /\ parts \in SUBSET (Hash \X Validator)
    BY <1>1, <1>3, <1>4 DEF MacroBook
  <1> HIDE DEF lock, parts
  <1>6. /\ c \in MacroBook
        /\ c.micro_ring = l.micro_ring
        /\ c.candidate = l.candidate
        /\ c.candidate_beacon = l.candidate_beacon
        /\ c.proposals_seen = l.proposals_seen
        /\ c.lock = lock
        /\ c.votes = l.votes
        /\ c.partials = parts
        /\ c.backup_timers = l.backup_timers
        /\ c.mode_b_timers = l.mode_b_timers
        /\ SameChain(l, c) /\ SameTwoChain(l, c)
    BY <1>4, <1>5 DEF MacroBook, SameChain, SameTwoChain
  <1> HIDE DEF c
  <1>7. SameChain(b, c) /\ SameTwoChain(b, c)
    BY <1>4, <1>6 DEF SameChain, SameTwoChain
  <1>8. /\ lock = IF signs # {} THEN signs ELSE b.lock
        /\ parts = b.partials \cup (signs \X {n})
        /\ c.votes = b.votes
    BY <1>4, <1>6 DEF SameVotes, lock, parts
  <1> QED BY <1>c, <1>4, <1>6, <1>7, <1>8 DEF b, signs, modeb

-----------------------------------------------------------------------------
(***************************************************************************)
(* The inductive invariant.  It relates a book to the history of the       *)
(* network: what is behind next_height is settled, and what is at          *)
(* next_height stands on last_macro_hash and can only be what is locked.   *)
(***************************************************************************)

\* The book's maps and options.
MapsOf(b) == /\ IsMap(b.candidate)
             /\ IsMap(b.adopted)
             /\ Functional(b.candidate_beacon)
             /\ IsOption(b.lock)
             /\ IsOption(b.justified_head)
             /\ IsOption(b.finalized_head)

\* A candidate is either adopted or stands on the last adopted checkpoint.  That
\* one is in the set Q of checkpoints with a MacroQc, and has the height its
\* length says.  Timers run for the next height only.
CandidateOf(b, c) == /\ Len(c) = HeightOf(c) + 1
                     /\ HeightOf(c) <= b.next_height
                     /\ HeightOf(c) = b.next_height => ParentOf(c) = b.last_macro_hash
                     /\ HeightOf(c) < b.next_height => c \in b.emitted_macro_qc
ChainOf(b, Q) == /\ Len(b.last_macro_hash) = b.next_height
                 /\ b.last_macro_hash \in Q \cup {Genesis}
                 /\ b.emitted_macro_qc \subseteq Q
                 /\ \A c \in b.emitted_macro_qc : HeightOf(c) < b.next_height
                 /\ \A c \in b.candidate : CandidateOf(b, c)
                 /\ b.backup_timers \subseteq {b.next_height}
                 /\ b.mode_b_timers \subseteq {b.next_height}

\* What n has signed, in the set P of all signatures, is not ahead of its book,
\* and what it has signed for the next height is what it has locked.
VotesOf(n, b, P) == /\ \A x \in P : x.voter = n =>
                          /\ HeightOf(x.checkpoint) <= b.next_height
                          /\ HeightOf(x.checkpoint) = b.next_height => x.checkpoint \in b.lock
                    /\ \A c \in b.votes : [checkpoint |-> c, voter |-> n] \in P

\* Whoever is counted has signed.
SignersOf(P, c) == {m \in Honest : [checkpoint |-> c, voter |-> m] \in P} \cup Forgetful
SignedOf(b, P) == \A k \in Hash, v \in Validator : <<k, v>> \in b.partials => v \in SignersOf(P, k)
QcsSigned(Q, P) == \A c \in Q : Cardinality(SignersOf(P, c)) >= quorum

BookOf(n, b, Q, P, A) == /\ MapsOf(b)
                         /\ ChainOf(b, Q)
                         /\ VotesOf(n, b, P)
                         /\ SignedOf(b, P)
                         /\ b.proposals_seen \subseteq A \cup ForgetfulProposal

Types == /\ emitted \in [Honest -> SUBSET Micro]
         /\ book \in [Honest -> MacroBook]
         /\ proposals \subseteq Proposal
         /\ partials \subseteq Partial
         /\ qcs \subseteq Hash \ {Genesis}
         /\ evidence \subseteq Evidence

SafeInv == /\ Types
           /\ \A n \in Honest : BookOf(n, book[n], qcs, partials, proposals)
           /\ OneVotePerHeight
           /\ QcsSigned(qcs, partials)
           /\ VotesNeverSlashable

LEMMA SafeTypes == SafeInv => TypeOK
  <1> SUFFICES ASSUME SafeInv PROVE TypeOK
    OBVIOUS
  <1>1. ASSUME NEW n \in Honest PROVE IsMap(book[n].votes)
    <2> SUFFICES ASSUME NEW c \in book[n].votes, NEW d \in book[n].votes, HeightOf(c) = HeightOf(d)
                 PROVE  c = d
      BY DEF IsMap
    <2> DEFINE x == [checkpoint |-> c, voter |-> n]
               y == [checkpoint |-> d, voter |-> n]
    <2>1. x \in partials /\ y \in partials
      BY DEF SafeInv, BookOf, VotesOf
    <2>2. x.voter = y.voter /\ HeightOf(x.checkpoint) = HeightOf(y.checkpoint)
      OBVIOUS
    <2>3. x.checkpoint = y.checkpoint
      BY <2>1, <2>2 DEF SafeInv, OneVotePerHeight
    <2> QED BY <2>3
  <1>2. \A n \in Honest : MapsOf(book[n])
    BY DEF SafeInv, BookOf
  <1> QED BY <1>1, <1>2 DEF SafeInv, Types, TypeOK, MapsOf, Functional

LEMMA SafeInit == Init => SafeInv
  <1> SUFFICES ASSUME Init PROVE SafeInv
    OBVIOUS
  <1>1. NewBook \in MacroBook
    <2>1. << >> \in Seq(Micro) /\ Genesis \in Hash
      BY EmptySeq DEF Genesis, Hash
    <2> QED BY <2>1 DEF NewBook, MacroBook
  <1>2. Types
    BY <1>1 DEF Init, Types
  <1>3. \A n \in Honest : BookOf(n, NewBook, {}, {}, {})
    <2>1. MapsOf(NewBook)
      BY DEF MapsOf, IsMap, IsOption, Functional, NewBook
    <2>2. ChainOf(NewBook, {})
      BY EmptySeq DEF ChainOf, NewBook, Genesis
    <2> QED BY <2>1, <2>2 DEF BookOf, VotesOf, SignedOf, NewBook
  <1> QED BY <1>2, <1>3 DEF Init, SafeInv, OneVotePerHeight, QcsSigned, VotesNeverSlashable

-----------------------------------------------------------------------------
(***************************************************************************)
(* Steps that a book survives.                                             *)
(***************************************************************************)

\* More signatures never take a signer away.
LEMMA SignersGrow ==
    ASSUME NEW P, NEW R, P \subseteq R
    PROVE  /\ \A c : SignersOf(P, c) \subseteq SignersOf(R, c)
           /\ \A b : SignedOf(b, P) => SignedOf(b, R)
           /\ \A Q : QcsSigned(Q, P) => QcsSigned(Q, R)
  <1>1. \A c : SignersOf(P, c) \subseteq SignersOf(R, c)
    BY DEF SignersOf
  <1>2. \A b : SignedOf(b, P) => SignedOf(b, R)
    BY <1>1 DEF SignedOf
  <1>3. ASSUME NEW c
        PROVE  /\ Cardinality(SignersOf(P, c)) \in Nat
               /\ Cardinality(SignersOf(R, c)) \in Nat
               /\ Cardinality(SignersOf(P, c)) <= Cardinality(SignersOf(R, c))
    <2>1. SignersOf(R, c) \subseteq Validator
      BY ValidatorAssumption DEF SignersOf
    <2>2. IsFiniteSet(SignersOf(R, c))
      BY <2>1, ValidatorAssumption, FS_Subset
    <2> QED BY <1>1, <2>2, FS_Subset, FS_CardinalityType
  <1>4. quorum \in Int
    BY ValidatorAssumption, FS_CardinalityType DEF quorum, F
  <1> QED BY <1>1, <1>2, <1>3, <1>4 DEF QcsSigned

\* Nobody else's book is disturbed by what n sends.
LEMMA OthersKept ==
    ASSUME NEW n, NEW m, m # n, NEW b, NEW Q, NEW P, NEW A, BookOf(m, b, Q, P, A),
           NEW QQ, Q \subseteq QQ, NEW AA, A \subseteq AA,
           NEW New, \A x \in New : x.voter = n
    PROVE  BookOf(m, b, QQ, P \cup New, AA)
  <1>1. ChainOf(b, QQ)
    BY DEF BookOf, ChainOf
  <1>2. VotesOf(m, b, P \cup New)
    BY DEF BookOf, VotesOf
  <1>3. SignedOf(b, P \cup New)
    <2>1. P \subseteq P \cup New /\ SignedOf(b, P)
      BY DEF BookOf
    <2> QED BY <2>1, SignersGrow
  <1> QED BY <1>1, <1>2, <1>3 DEF BookOf

\* Evidence that a proposer equivocated stays valid.
LEMMA EvidenceKept ==
    ASSUME NEW e \in evidence, VotesNeverSlashable, proposals \subseteq proposals'
    PROVE  e.kind = "MacroEquivocation" /\ verify_evidence(e)'
  <1>1. e.kind = "MacroEquivocation" /\ verify_evidence(e)
    BY DEF VotesNeverSlashable
  <1>2. \A v, c : ProposerSigned(v, c) => ProposerSigned(v, c)'
    BY DEF ProposerSigned
  <1> QED BY <1>1, <1>2 DEF verify_evidence

\* A step of n that leaves its book in order preserves the invariant.
LEMMA SafeStep ==
    ASSUME SafeInv, NEW n \in Honest, NEW c \in MacroBook,
           book' = [book EXCEPT ![n] = c],
           emitted' \in [Honest -> SUBSET Micro],
           proposals \subseteq proposals', proposals' \subseteq Proposal,
           NEW New \in SUBSET Partial, \A x \in New : x.voter = n, partials' = partials \cup New,
           qcs \subseteq qcs', qcs' \subseteq Hash \ {Genesis},
           evidence' \subseteq Evidence,
           BookOf(n, c, qcs', partials', proposals'),
           \A x \in New, y \in partials \cup New :
               y.voter = n /\ HeightOf(x.checkpoint) = HeightOf(y.checkpoint)
                   => x.checkpoint = y.checkpoint,
           QcsSigned(qcs' \ qcs, partials'),
           \A e \in evidence' \ evidence : e.kind = "MacroEquivocation" /\ verify_evidence(e)'
    PROVE  SafeInv'
  <1>1. Types'
    BY DEF SafeInv, Types
  <1>2. \A m \in Honest : BookOf(m, book'[m], qcs', partials', proposals')
    <2> SUFFICES ASSUME NEW m \in Honest PROVE BookOf(m, book'[m], qcs', partials', proposals')
      OBVIOUS
    <2>1. CASE m = n
      BY <2>1 DEF SafeInv, Types
    <2>2. CASE m # n
      <3>1. BookOf(m, book[m], qcs, partials, proposals) /\ book'[m] = book[m]
        BY <2>2 DEF SafeInv, Types
      <3>2. BookOf(m, book[m], qcs', partials \cup New, proposals')
        BY <3>1, <2>2, OthersKept
      <3> QED BY <3>1, <3>2
    <2> QED BY <2>1, <2>2
  <1>3. OneVotePerHeight'
    <2> SUFFICES ASSUME NEW x \in partials', NEW y \in partials', x.voter = y.voter,
                        HeightOf(x.checkpoint) = HeightOf(y.checkpoint)
                 PROVE  x.checkpoint = y.checkpoint
      BY DEF OneVotePerHeight
    <2>1. CASE x \in partials /\ y \in partials
      BY <2>1 DEF SafeInv, OneVotePerHeight
    <2>2. CASE x \in New \/ y \in New
      BY <2>2
    <2> QED BY <2>1, <2>2
  <1>4. QcsSigned(qcs, partials')
    <2>1. QcsSigned(qcs, partials) /\ partials \subseteq partials'
      BY DEF SafeInv
    <2> QED BY <2>1, SignersGrow
  <1>5. QcsSigned(qcs', partials')
    BY <1>4 DEF QcsSigned
  <1>6. VotesNeverSlashable'
    <2>1. \A e \in evidence : e.kind = "MacroEquivocation" /\ verify_evidence(e)'
      BY EvidenceKept DEF SafeInv
    <2> QED BY <2>1 DEF VotesNeverSlashable
  <1> QED BY <1>1, <1>2, <1>3, <1>5, <1>6 DEF SafeInv

\* A book in which only the ring, the frozen beacons, the proposals seen and the
\* running of timers changed.
LEMMA QuietBook ==
    ASSUME NEW n, NEW b, NEW c, NEW Q, NEW P, NEW A, BookOf(n, b, Q, P, A),
           SameChain(b, c), SameVotes(b, c), SameTwoChain(b, c),
           c.candidate = b.candidate,
           Functional(c.candidate_beacon),
           c.proposals_seen \subseteq A \cup ForgetfulProposal,
           c.backup_timers \subseteq b.backup_timers,
           c.mode_b_timers \subseteq b.mode_b_timers
    PROVE  BookOf(n, c, Q, P, A)
  <1>1. MapsOf(c)
    BY DEF BookOf, MapsOf, SameVotes, SameTwoChain
  <1>2. ChainOf(c, Q)
    <2>1. \A k \in b.candidate : CandidateOf(c, k)
      BY DEF BookOf, ChainOf, CandidateOf, SameChain
    <2> QED BY <2>1 DEF BookOf, ChainOf, SameChain
  <1>3. VotesOf(n, c, P)
    BY DEF BookOf, VotesOf, SameChain, SameVotes
  <1>4. SignedOf(c, P)
    BY DEF BookOf, SignedOf, SameVotes
  <1> QED BY <1>1, <1>2, <1>3, <1>4 DEF BookOf

\* The candidate of a full window replaces the one of its height.
LEMMA BuiltBook ==
    ASSUME NEW n, NEW b \in MacroBook, NEW c, NEW k \in Hash \ {Genesis}, NEW Q, NEW P, NEW A,
           BookOf(n, b, Q, P, A),
           HeightOf(k) = b.next_height,
           Len(k) = HeightOf(k) + 1,
           ParentOf(k) = b.last_macro_hash,
           SameChain(b, c), SameVotes(b, c), SameTwoChain(b, c),
           c.candidate = CandidatesWith(b, k),
           c.candidate_beacon = BeaconsWith(b, k),
           c.proposals_seen = b.proposals_seen,
           c.backup_timers \subseteq b.backup_timers \cup {HeightOf(k)},
           c.mode_b_timers \subseteq b.mode_b_timers \cup {HeightOf(k)}
    PROVE  BookOf(n, c, Q, P, A)
  <1>1. MapsOf(c)
    <2>1. IsMap(c.candidate)
      BY MapFacts DEF BookOf, MapsOf, CandidateAt, CandidatesWith
    <2>2. Functional(c.candidate_beacon)
      <3> DEFINE new == <<HeightOf(k), b.last_macro_hash>>
                 old == {x \in b.candidate_beacon : x[1] # HeightOf(k)}
      <3>1. Functional(old) /\ new[1] = HeightOf(k) /\ \A x \in old : x[1] # HeightOf(k)
        BY DEF BookOf, MapsOf, Functional
      <3>2. c.candidate_beacon = old \cup {new}
        BY DEF BeaconsWith
      <3> HIDE DEF new, old
      <3> QED BY <3>1, <3>2 DEF Functional
    <2> QED BY <2>1, <2>2 DEF BookOf, MapsOf, SameVotes, SameTwoChain
  <1>2. ChainOf(c, Q)
    <2>1. \A d \in b.candidate : CandidateOf(c, d)
      BY DEF BookOf, ChainOf, CandidateOf, SameChain
    <2>2. b.next_height \in Nat
      BY DEF MacroBook
    <2>3. CandidateOf(c, k)
      BY <2>2 DEF CandidateOf, SameChain
    <2> QED BY <2>1, <2>3 DEF BookOf, ChainOf, SameChain, CandidatesWith
  <1>3. VotesOf(n, c, P)
    BY DEF BookOf, VotesOf, SameChain, SameVotes
  <1>4. SignedOf(c, P)
    BY DEF BookOf, SignedOf, SameVotes
  <1> QED BY <1>1, <1>2, <1>3, <1>4 DEF BookOf

\* A partial of somebody who has signed is added.
LEMMA CollectedBook ==
    ASSUME NEW n, NEW b \in MacroBook, NEW c, NEW k \in Hash, NEW m, NEW Q, NEW P, NEW A,
           BookOf(n, b, Q, P, A),
           m \in SignersOf(P, k),
           SameChain(b, c), SameTwoChain(b, c), SameTimers(b, c),
           c.candidate = b.candidate,
           c.candidate_beacon = b.candidate_beacon,
           c.proposals_seen = b.proposals_seen,
           c.lock = b.lock,
           c.votes = b.votes,
           c.partials = b.partials \cup {<<k, m>>}
    PROVE  BookOf(n, c, Q, P, A)
  <1>1. MapsOf(c)
    BY DEF BookOf, MapsOf, SameTwoChain
  <1>2. ChainOf(c, Q)
    <2>1. \A d \in b.candidate : CandidateOf(c, d)
      BY DEF BookOf, ChainOf, CandidateOf, SameChain
    <2> QED BY <2>1 DEF BookOf, ChainOf, SameChain, SameTimers
  <1>3. VotesOf(n, c, P)
    BY DEF BookOf, VotesOf, SameChain
  <1>4. SignedOf(c, P)
    BY DEF BookOf, SignedOf
  <1> QED BY <1>1, <1>2, <1>3, <1>4 DEF BookOf

\* A candidate that is not adopted yet is at the next height.
LEMMA OpenCandidate ==
    ASSUME NEW b \in MacroBook, NEW Q, ChainOf(b, Q), NEW k \in b.candidate,
           k \notin b.emitted_macro_qc \/ ParentOf(k) = b.last_macro_hash
    PROVE  HeightOf(k) = b.next_height /\ ParentOf(k) = b.last_macro_hash
  <1>1. k \in Hash \ {Genesis} /\ b.next_height \in Nat /\ b.last_macro_hash \in Hash
    BY DEF MacroBook
  <1>2. /\ Len(k) \in Nat \ {0}
        /\ HeightOf(k) \in Nat
        /\ Len(ParentOf(k)) = Len(k) - 1
    BY <1>1, CheckpointFacts
  <1>3. CandidateOf(b, k) /\ Len(b.last_macro_hash) = b.next_height
    BY DEF ChainOf
  <1>4. HeightOf(k) = b.next_height
    <2>1. CASE k \notin b.emitted_macro_qc
      BY <1>1, <1>2, <1>3, <2>1 DEF CandidateOf
    <2>2. CASE ParentOf(k) = b.last_macro_hash
      BY <1>1, <1>2, <1>3, <2>2 DEF CandidateOf
    <2> QED BY <2>1, <2>2
  <1> QED BY <1>3, <1>4 DEF CandidateOf

\* The next checkpoint is adopted.
LEMMA AdoptedBook ==
    ASSUME NEW n, NEW b \in MacroBook, NEW k \in b.candidate, NEW signers,
           NEW Q, NEW P, NEW A, BookOf(n, b, Q, P, A),
           k \notin b.emitted_macro_qc,
           NEW QQ, Q \subseteq QQ, k \in QQ, QQ \subseteq Hash \ {Genesis},
           \A x \in P : x \in Partial
    PROVE  /\ Adopted(b, k, signers) \in MacroBook
           /\ BookOf(n, Adopted(b, k, signers), QQ, P, A)
  <1> DEFINE c == Adopted(b, k, signers)
             fin == FinalizedBy(b, k)
  <1>1. k \in Hash \ {Genesis} /\ b.next_height \in Nat
    BY DEF MacroBook
  <1>2. /\ c \in MacroBook
        /\ c.micro_ring = b.micro_ring
        /\ c.candidate = b.candidate
        /\ c.candidate_beacon = b.candidate_beacon
        /\ c.proposals_seen = b.proposals_seen
        /\ SameVotes(b, c)
        /\ c.next_height = HeightOf(k) + 1
        /\ c.last_macro_hash = k
        /\ c.emitted_macro_qc = b.emitted_macro_qc \cup {k}
        /\ c.backup_timers = b.backup_timers \ {HeightOf(k)}
        /\ c.mode_b_timers = b.mode_b_timers \ {HeightOf(k)}
        /\ c.adopted = AdoptedWith(b, k)
        /\ c.justified_head = HeadWith(b, k)
        /\ c.finalized_head = IF fin # {} THEN fin ELSE b.finalized_head
    BY <1>1, AdoptedFields
  <1> HIDE DEF c
  <1>3. HeightOf(k) = b.next_height
    BY OpenCandidate DEF BookOf
  <1>4. Len(k) = HeightOf(k) + 1
    BY DEF BookOf, ChainOf, CandidateOf
  <1>5. MapsOf(c)
    <2>1. MapsOf(b)
      BY DEF BookOf
    <2>2. IsMap(AdoptedWith(b, k)) /\ IsOption(HeadWith(b, k))
      BY <2>1, AdoptFacts DEF MapsOf
    <2>3. AdoptedWith(b, k) \subseteq Hash \ {Genesis}
      BY <1>1 DEF AdoptedWith, MacroBook
    <2>4. IsOption(fin)
      <3> SUFFICES ASSUME NEW d \in fin, NEW e \in fin PROVE d = e
        BY DEF IsOption
      <3>1. PICK head \in HeadWith(b, k) : HeightOf(d) + 1 = HeightOf(head)
        BY DEF FinalizedBy
      <3>2. PICK top \in HeadWith(b, k) : HeightOf(e) + 1 = HeightOf(top)
        BY DEF FinalizedBy
      <3>3. head = top
        BY <2>2 DEF IsOption
      <3>4. d \in AdoptedWith(b, k) /\ e \in AdoptedWith(b, k)
        BY DEF FinalizedBy
      <3>5. HeightOf(d) \in Nat /\ HeightOf(e) \in Nat
        BY <2>3, <3>4, CheckpointFacts
      <3>6. HeightOf(d) = HeightOf(e)
        BY <3>1, <3>2, <3>3, <3>5
      <3> QED BY <3>4, <3>6, <2>2 DEF IsMap
    <2> HIDE DEF fin
    <2>5. IsOption(c.finalized_head)
      BY <1>2, <2>1, <2>4 DEF MapsOf
    <2> QED BY <1>2, <2>1, <2>2, <2>5 DEF MapsOf, SameVotes
  <1>6. ChainOf(c, QQ)
    <2>1. ASSUME NEW d \in b.candidate PROVE CandidateOf(c, d)
      <3>1. CandidateOf(b, d) /\ d \in Hash \ {Genesis}
        BY DEF BookOf, ChainOf, MacroBook
      <3>2. HeightOf(d) \in Nat
        BY <3>1, CheckpointFacts
      <3>3. HeightOf(d) = b.next_height => d = k
        BY <1>3 DEF BookOf, MapsOf, IsMap
      <3> QED BY <1>1, <1>2, <1>3, <3>1, <3>2, <3>3 DEF CandidateOf
    <2>2. \A d \in c.emitted_macro_qc : HeightOf(d) < c.next_height
      <3>1. ASSUME NEW d \in b.emitted_macro_qc PROVE HeightOf(d) < c.next_height
        <4>1. HeightOf(d) < b.next_height
          BY DEF BookOf, ChainOf
        <4>2. HeightOf(d) \in Nat
          BY CheckpointFacts DEF BookOf, ChainOf
        <4> QED BY <4>1, <4>2, <1>1, <1>2, <1>3
      <3> QED BY <3>1, <1>1, <1>2, <1>3
    <2>3. /\ c.backup_timers \subseteq {c.next_height}
          /\ c.mode_b_timers \subseteq {c.next_height}
      BY <1>2, <1>3 DEF BookOf, ChainOf
    <2>4. /\ Len(c.last_macro_hash) = c.next_height
          /\ c.last_macro_hash \in QQ \cup {Genesis}
          /\ c.emitted_macro_qc \subseteq QQ
      BY <1>2, <1>4 DEF BookOf, ChainOf
    <2> QED BY <1>2, <2>1, <2>2, <2>3, <2>4 DEF ChainOf
  <1>7. VotesOf(n, c, P)
    <2>1. ASSUME NEW x \in P, x.voter = n
          PROVE  HeightOf(x.checkpoint) < c.next_height
      <3>1. x.checkpoint \in Hash \ {Genesis}
        BY DEF Partial
      <3>2. HeightOf(x.checkpoint) \in Nat
        BY <3>1, CheckpointFacts
      <3>3. HeightOf(x.checkpoint) <= b.next_height
        BY <2>1 DEF BookOf, VotesOf
      <3> QED BY <3>2, <3>3, <1>1, <1>2, <1>3
    <2>2. ASSUME NEW x \in P, x.voter = n
          PROVE  /\ HeightOf(x.checkpoint) <= c.next_height
                 /\ HeightOf(x.checkpoint) = c.next_height => x.checkpoint \in c.lock
      <3>1. x.checkpoint \in Hash \ {Genesis}
        BY DEF Partial
      <3>2. HeightOf(x.checkpoint) \in Nat
        BY <3>1, CheckpointFacts
      <3> QED BY <2>1, <2>2, <3>2, <1>1, <1>2, <1>3
    <2> QED BY <2>2, <1>2 DEF BookOf, VotesOf, SameVotes
  <1>8. SignedOf(c, P)
    BY <1>2 DEF BookOf, SignedOf, SameVotes
  <1>9. BookOf(n, c, QQ, P, A)
    BY <1>2, <1>5, <1>6, <1>7, <1>8 DEF BookOf
  <1> QED BY <1>2, <1>9 DEF c

-----------------------------------------------------------------------------
(***************************************************************************)
(* The handlers preserve the invariant.                                    *)
(***************************************************************************)

\* A step that sends no signature, no MacroQc and no evidence.
LEMMA QuietStep ==
    ASSUME SafeInv, NEW n \in Honest, NEW c \in MacroBook,
           book' = [book EXCEPT ![n] = c],
           emitted' \in [Honest -> SUBSET Micro],
           proposals \subseteq proposals', proposals' \subseteq Proposal,
           UNCHANGED <<partials, qcs, evidence>>,
           BookOf(n, c, qcs, partials, proposals)
    PROVE  SafeInv'
  <1>1. BookOf(n, c, qcs', partials', proposals')
    BY DEF BookOf
  <1> DEFINE New == {}
  <1>2. /\ New \in SUBSET Partial
        /\ \A x \in New : x.voter = n
        /\ partials' = partials \cup New
        /\ qcs \subseteq qcs'
        /\ \A x \in New, y \in partials \cup New :
               y.voter = n /\ HeightOf(x.checkpoint) = HeightOf(y.checkpoint)
                   => x.checkpoint = y.checkpoint
        /\ \A e \in evidence' \ evidence : e.kind = "MacroEquivocation" /\ verify_evidence(e)'
    OBVIOUS
  <1>3. QcsSigned(qcs' \ qcs, partials')
    BY DEF QcsSigned
  <1>4. qcs' \subseteq Hash \ {Genesis} /\ evidence' \subseteq Evidence
    BY DEF SafeInv, Types
  <1> HIDE DEF New
  <1> QED BY <1>1, <1>2, <1>3, <1>4, SafeStep

\* BuildCandidate: the book it leaves, and the proposal it sends.
LEMMA BuildStep ==
    ASSUME SafeInv, NEW n \in Honest, NEW m \in Micro, BuildCandidate(n, m)
    PROVE  LET b == book[n]
               h == b.next_height
               k == build(h, b.last_macro_hash, Append(b.micro_ring, m)) IN
           \E seen \in SUBSET Height, backup \in SUBSET Height, modeb \in SUBSET Height :
             /\ backup \subseteq b.backup_timers \cup {h}
             /\ modeb \subseteq b.mode_b_timers \cup {h}
             /\ book' = [book EXCEPT ![n] = Built(b, k, seen, backup, modeb)]
             /\ proposals \subseteq proposals'
             /\ proposals' \subseteq Proposal
  <1> DEFINE b == book[n]
             h == b.next_height
             ring == Append(b.micro_ring, m)
             last == b.last_macro_hash
             k == build(h, last, ring)
             w == WithCandidate(b, k)
  <1>t. book \in [Honest -> MacroBook] /\ b \in MacroBook /\ proposals \subseteq Proposal
    BY DEF SafeInv, Types
  <1>r. h \in Height /\ last \in Hash /\ ring \in Seq(Micro)
    BY <1>t, BoundAssumption, AppendProperties DEF BuildCandidate, MacroBook, Height
  <1>k. k \in Hash \ {Genesis} /\ HeightOf(k) = h
    <2> HIDE DEF h, last, ring
    <2> QED BY <1>r, BuildFacts
  <1>1. /\ w \in MacroBook
        /\ w.backup_timers = b.backup_timers
        /\ w.mode_b_timers = b.mode_b_timers
    <2> DEFINE cand == CandidatesWith(b, k)
               beac == BeaconsWith(b, k)
    <2>1. cand \in SUBSET (Hash \ {Genesis})
      BY <1>t, <1>k DEF MacroBook, CandidatesWith
    <2>2. beac \in SUBSET (Height \X Hash)
      BY <1>t, <1>r, <1>k DEF MacroBook, BeaconsWith
    <2>3. << >> \in Seq(Micro)
      BY EmptySeq
    <2>4. w = [b EXCEPT !.micro_ring = << >>, !.candidate = cand, !.candidate_beacon = beac]
      BY DEF WithCandidate, CandidatesWith, BeaconsWith
    <2> HIDE DEF cand, beac, b, k, w
    <2> QED BY <1>t, <2>1, <2>2, <2>3, <2>4 DEF MacroBook
  <1> DEFINE seen == w.proposal_seen \cup {h}
             same == w.proposal_seen
             armed == IF IsBackup(w, n, h) THEN w.backup_timers \cup {h} ELSE w.backup_timers
             keep == w.backup_timers
             modeb == w.mode_b_timers \cup {h}
             p == [checkpoint |-> k, proposer |-> n, beacon |-> BeaconFor(w, h)]
  <1>2. /\ seen \in SUBSET Height /\ same \in SUBSET Height
        /\ armed \in SUBSET Height /\ keep \in SUBSET Height /\ modeb \in SUBSET Height
        /\ armed \subseteq b.backup_timers \cup {h}
        /\ keep \subseteq b.backup_timers \cup {h}
        /\ modeb \subseteq b.mode_b_timers \cup {h}
    BY <1>r, <1>1 DEF MacroBook
  <1>3. p \in Proposal
    <2>1. n \in Validator
      BY ValidatorAssumption
    <2>2. BeaconFor(w, h) \in Hash
      BY <1>1 DEF BeaconFor, MacroBook
    <2> HIDE DEF w
    <2> QED BY <1>k, <2>1, <2>2 DEF Proposal
  <1> SUFFICES \E r \in SUBSET Height, s \in SUBSET Height, t \in SUBSET Height :
                 /\ s \subseteq b.backup_timers \cup {h}
                 /\ t \subseteq b.mode_b_timers \cup {h}
                 /\ book' = [book EXCEPT ![n] = Built(b, k, r, s, t)]
                 /\ proposals \subseteq proposals'
                 /\ proposals' \subseteq Proposal
    OBVIOUS
  <1>4. CASE IsPrimary(w, n, h)
    <2>1. /\ proposals' = proposals \cup {p}
          /\ book' = [book EXCEPT ![n] = [w EXCEPT !.proposal_seen = seen, !.mode_b_timers = modeb]]
      BY <1>4 DEF BuildCandidate
    <2>2. [w EXCEPT !.proposal_seen = seen, !.mode_b_timers = modeb]
            = Built(b, k, seen, keep, modeb)
      <3>1. Built(b, k, seen, keep, modeb)
              = [w EXCEPT !.proposal_seen = seen, !.backup_timers = keep, !.mode_b_timers = modeb]
        BY DEF Built
      <3> HIDE DEF w, seen, modeb
      <3> QED BY <1>1, <3>1 DEF MacroBook
    <2> QED BY <1>t, <1>2, <1>3, <2>1, <2>2
  <1>5. CASE ~IsPrimary(w, n, h)
    <2>1. /\ UNCHANGED proposals
          /\ book' = [book EXCEPT ![n] = [w EXCEPT !.backup_timers = armed, !.mode_b_timers = modeb]]
      BY <1>5 DEF BuildCandidate
    <2>2. [w EXCEPT !.backup_timers = armed, !.mode_b_timers = modeb]
            = Built(b, k, same, armed, modeb)
      <3>1. Built(b, k, same, armed, modeb)
              = [w EXCEPT !.proposal_seen = same, !.backup_timers = armed, !.mode_b_timers = modeb]
        BY DEF Built
      <3> HIDE DEF w, armed, modeb
      <3> QED BY <1>1, <3>1 DEF MacroBook
    <2> HIDE DEF w, armed, modeb, same, h, b, k
    <2> QED BY <1>t, <1>2, <2>1, <2>2
  <1> QED BY <1>4, <1>5

LEMMA MicroSafe ==
    ASSUME SafeInv, NEW n \in Honest, NEW m \in Micro, on_local_micro_qcs(n, m)
    PROVE  SafeInv'
  <1> DEFINE b == book[n]
  <1>1. /\ book \in [Honest -> MacroBook]
        /\ b \in MacroBook
        /\ proposals \subseteq Proposal
        /\ BookOf(n, b, qcs, partials, proposals)
    BY DEF SafeInv, Types
  <1>2. emitted' \in [Honest -> SUBSET Micro] /\ UNCHANGED <<partials, qcs, evidence>>
    BY DEF on_local_micro_qcs, SafeInv, Types, PushMicro, BuildCandidate
  <1>3. CASE PushMicro(n, m)
    <2> DEFINE c == [b EXCEPT !.micro_ring = Append(@, m)]
    <2>1. book' = [book EXCEPT ![n] = c] /\ UNCHANGED proposals
      BY <1>1, <1>3 DEF PushMicro
    <2>2. /\ c \in MacroBook
          /\ c.candidate = b.candidate
          /\ c.candidate_beacon = b.candidate_beacon
          /\ c.proposals_seen = b.proposals_seen
          /\ SameChain(b, c) /\ SameVotes(b, c) /\ SameTwoChain(b, c) /\ SameTimers(b, c)
      BY <1>1, PushedFields
    <2> HIDE DEF c
    <2>3. BookOf(n, c, qcs, partials, proposals)
      <3>1. /\ Functional(c.candidate_beacon)
            /\ c.proposals_seen \subseteq proposals \cup ForgetfulProposal
            /\ c.backup_timers \subseteq b.backup_timers
            /\ c.mode_b_timers \subseteq b.mode_b_timers
        BY <1>1, <2>2 DEF BookOf, MapsOf, SameTimers
      <3> QED BY <1>1, <2>2, <3>1, QuietBook
    <2> QED BY <1>1, <1>2, <2>1, <2>2, <2>3, QuietStep
  <1>4. CASE BuildCandidate(n, m)
    <2> DEFINE h == b.next_height
               ring == Append(b.micro_ring, m)
               last == b.last_macro_hash
               k == build(h, last, ring)
               w == WithCandidate(b, k)
    <2>1. h \in Height /\ last \in Hash /\ ring \in Seq(Micro)
      BY <1>1, <1>4, BoundAssumption, AppendProperties DEF BuildCandidate, MacroBook, Height
    <2>2. /\ k \in Hash \ {Genesis}
          /\ Len(k) = Len(last) + 1
          /\ HeightOf(k) = h
          /\ ParentOf(k) = last
      <3> HIDE DEF h, last, ring
      <3> QED BY <2>1, BuildFacts
    <2>3. Len(k) = HeightOf(k) + 1
      BY <1>1, <2>2 DEF BookOf, ChainOf
    <2>4. PICK seen \in SUBSET Height, backup \in SUBSET Height, modeb \in SUBSET Height :
            /\ backup \subseteq b.backup_timers \cup {h}
            /\ modeb \subseteq b.mode_b_timers \cup {h}
            /\ book' = [book EXCEPT ![n] = Built(b, k, seen, backup, modeb)]
            /\ proposals \subseteq proposals'
            /\ proposals' \subseteq Proposal
      BY <1>4, BuildStep
    <2> DEFINE c == Built(b, k, seen, backup, modeb)
    <2>5. /\ c \in MacroBook
          /\ c.candidate = CandidatesWith(b, k)
          /\ c.candidate_beacon = BeaconsWith(b, k)
          /\ c.proposals_seen = b.proposals_seen
          /\ c.backup_timers = backup
          /\ c.mode_b_timers = modeb
          /\ SameChain(b, c) /\ SameVotes(b, c) /\ SameTwoChain(b, c)
      <3> HIDE DEF b, k
      <3> QED BY <1>1, <2>2, BuiltFields
    <2> HIDE DEF c, k
    <2>6. BookOf(n, c, qcs, partials, proposals)
      BY <1>1, <2>2, <2>3, <2>4, <2>5, BuiltBook
    <2> QED BY <1>1, <1>2, <2>4, <2>5, <2>6, QuietStep DEF c
  <1> QED BY <1>3, <1>4 DEF on_local_micro_qcs

\* Validator n, with book b, signs the checkpoints S, which leads to book c.
SignedBook(n, b, c, S, A) ==
    /\ \A k \in S : k \in b.candidate /\ HeightOf(k) = b.next_height /\ MayLock(b, k)
    /\ MapsOf(c) /\ SameChain(b, c)
    /\ c.candidate = b.candidate
    /\ c.proposals_seen \subseteq A \cup ForgetfulProposal
    /\ c.backup_timers \subseteq b.backup_timers
    /\ c.mode_b_timers \subseteq b.mode_b_timers
    /\ c.lock = IF S # {} THEN S ELSE b.lock
    /\ c.votes \subseteq b.votes \cup S
    /\ c.partials = b.partials \cup (S \X {n})

\* The vote for a checkpoint that may be locked does not contradict any other of n.
LEMMA VotedBookSafe ==
    ASSUME NEW n \in Honest, NEW b \in MacroBook, NEW c, NEW S, NEW Q, NEW P, NEW A,
           BookOf(n, b, Q, P, A), SignedBook(n, b, c, S, A),
           NEW New, New = {[checkpoint |-> k, voter |-> n] : k \in S}
    PROVE  /\ BookOf(n, c, Q, P \cup New, A)
           /\ \A x \in New, y \in P \cup New :
                 y.voter = n /\ HeightOf(x.checkpoint) = HeightOf(y.checkpoint)
                     => x.checkpoint = y.checkpoint
  <1> USE DEF SignedBook
  <1>1. \A k, d \in S : k = d
    BY DEF BookOf, MapsOf, IsMap
  <1>2. \A x \in New : x.voter = n /\ x.checkpoint \in S
    OBVIOUS
  <1>3. \A k \in S : [checkpoint |-> k, voter |-> n] \in New
    OBVIOUS
  <1>4. ASSUME NEW y \in P, y.voter = n, HeightOf(y.checkpoint) = b.next_height, NEW k \in S
        PROVE  y.checkpoint = k
    <2>1. y.checkpoint \in b.lock
      BY <1>4 DEF BookOf, VotesOf
    <2> QED BY <2>1, <1>4 DEF MayLock
  <1>5. ASSUME NEW x \in New, NEW y \in P \cup New, y.voter = n,
               HeightOf(x.checkpoint) = HeightOf(y.checkpoint)
        PROVE  x.checkpoint = y.checkpoint
    BY <1>1, <1>2, <1>4, <1>5
  <1>6. ChainOf(c, Q)
    <2>1. \A d \in b.candidate : CandidateOf(c, d)
      BY DEF BookOf, ChainOf, CandidateOf, SameChain
    <2> QED BY <2>1 DEF BookOf, ChainOf, SameChain
  <1>7. VotesOf(n, c, P \cup New)
    <2>1. ASSUME NEW x \in P, x.voter = n
          PROVE  /\ HeightOf(x.checkpoint) <= c.next_height
                 /\ HeightOf(x.checkpoint) = c.next_height => x.checkpoint \in c.lock
      <3>1. /\ HeightOf(x.checkpoint) <= b.next_height
            /\ HeightOf(x.checkpoint) = b.next_height => x.checkpoint \in b.lock
        BY <2>1 DEF BookOf, VotesOf
      <3> QED BY <1>4, <2>1, <3>1 DEF SameChain
    <2>2. ASSUME NEW x \in New
          PROVE  /\ HeightOf(x.checkpoint) <= c.next_height
                 /\ x.checkpoint \in c.lock
      <3>1. HeightOf(x.checkpoint) = b.next_height /\ b.next_height \in Nat
        BY <1>2 DEF MacroBook
      <3> QED BY <1>2, <3>1 DEF SameChain
    <2>3. \A k \in c.votes : [checkpoint |-> k, voter |-> n] \in P \cup New
      BY <1>3 DEF BookOf, VotesOf
    <2> QED BY <2>1, <2>2, <2>3 DEF VotesOf
  <1>8. SignedOf(c, P \cup New)
    <2> SUFFICES ASSUME NEW k \in Hash, NEW v \in Validator, <<k, v>> \in c.partials
                 PROVE  v \in SignersOf(P \cup New, k)
      BY DEF SignedOf
    <2>1. CASE <<k, v>> \in b.partials
      BY <2>1 DEF BookOf, SignedOf, SignersOf
    <2>2. CASE <<k, v>> \in S \X {n}
      BY <2>2, <1>3 DEF SignersOf
    <2> QED BY <2>1, <2>2
  <1>9. BookOf(n, c, Q, P \cup New, A)
    BY <1>6, <1>7, <1>8 DEF BookOf
  <1> QED BY <1>5, <1>9

\* The scans of a vote at the next height find nothing among the votes of n.
LEMMA ScansFindNothing ==
    ASSUME SafeInv, NEW n \in Honest, NEW k \in book[n].candidate,
           HeightOf(k) = book[n].next_height, MayLock(book[n], k)
    PROVE  /\ scan_for_surround(n, votes_of(n), k) = {}
           /\ scan_for_double_vote(n, votes_of(n), k) = {}
  <1> DEFINE b == book[n]
  <1>1. /\ b \in MacroBook
        /\ BookOf(n, b, qcs, partials, proposals)
    BY DEF SafeInv, Types
  <1>2. ASSUME NEW d \in b.votes
        PROVE  HeightOf(d) = HeightOf(k) => d = k
    <2> DEFINE x == [checkpoint |-> d, voter |-> n]
    <2>1. x \in partials /\ x.voter = n /\ x.checkpoint = d
      BY <1>1 DEF BookOf, VotesOf
    <2>2. HeightOf(d) = b.next_height => d \in b.lock
      BY <1>1, <2>1 DEF BookOf, VotesOf
    <2> QED BY <2>2 DEF MayLock
  <1>3. ASSUME NEW d \in b.votes
        PROVE  ~surrounds(k, d) /\ ~surrounds(d, k)
    <2>1. k \in Hash \ {Genesis} /\ d \in Hash \ {Genesis}
      BY <1>1 DEF MacroBook
    <2>2. HeightOf(k) \in Nat /\ HeightOf(d) \in Nat
      BY <2>1, CheckpointFacts
    <2> QED BY <2>2 DEF surrounds, Source
  <1> QED BY <1>2, <1>3 DEF scan_for_surround, scan_for_double_vote, votes_of

LEMMA ProposalSafe ==
    ASSUME SafeInv, NEW n \in Honest, NEW p \in proposals \cup ForgetfulProposal,
           on_macro_proposal(n, p)
    PROVE  SafeInv'
  <1> DEFINE b == book[n]
             f == Frozen(n, p)
             s == [f EXCEPT !.proposals_seen = @ \cup {p}]
  <1>1. /\ book \in [Honest -> MacroBook]
        /\ b \in MacroBook
        /\ proposals \subseteq Proposal
        /\ partials \subseteq Partial
        /\ qcs \subseteq Hash \ {Genesis}
        /\ evidence \subseteq Evidence
        /\ emitted \in [Honest -> SUBSET Micro]
        /\ BookOf(n, b, qcs, partials, proposals)
        /\ Functional(b.candidate_beacon)
    BY DEF SafeInv, Types, BookOf, MapsOf
  <1>2. p \in Proposal /\ p.checkpoint \in Hash \ {Genesis} /\ p.proposer \in Validator
    BY <1>1, ForgetfulProposalAssumption DEF Proposal
  <1>3. /\ f \in MacroBook
        /\ f.candidate = b.candidate
        /\ Functional(f.candidate_beacon)
        /\ f.proposals_seen = b.proposals_seen
        /\ SameChain(b, f) /\ SameVotes(b, f) /\ SameTwoChain(b, f) /\ SameTimers(b, f)
        /\ s \in MacroBook
        /\ s.candidate = b.candidate
        /\ Functional(s.candidate_beacon)
        /\ s.proposals_seen = b.proposals_seen \cup {p}
        /\ SameChain(b, s) /\ SameVotes(b, s) /\ SameTwoChain(b, s) /\ SameTimers(b, s)
    BY <1>1, <1>2, FrozenFields
  <1>4. CASE RejectProposal(n, p)
    <2> HIDE DEF f
    <2>1. BookOf(n, f, qcs, partials, proposals)
      <3>1. /\ f.proposals_seen \subseteq proposals \cup ForgetfulProposal
            /\ f.backup_timers \subseteq b.backup_timers
            /\ f.mode_b_timers \subseteq b.mode_b_timers
        BY <1>1, <1>3 DEF BookOf, SameTimers
      <3> QED BY <1>1, <1>3, <3>1, QuietBook
    <2>2. book' = [book EXCEPT ![n] = f] /\ UNCHANGED <<emitted, proposals, partials, qcs, evidence>>
      BY <1>4 DEF RejectProposal, f
    <2> QED BY <1>1, <1>3, <2>1, <2>2, QuietStep
  <1>5. CASE ReportEquivocation(n, p)
    <2>1. PICK q \in SeenOf(n, p) :
            /\ q.checkpoint # p.checkpoint
            /\ evidence' = evidence \cup
                   {[kind |-> "MacroEquivocation", offender |-> p.proposer,
                     first |-> q.checkpoint, second |-> p.checkpoint]}
      BY <1>5 DEF ReportEquivocation
    <2> DEFINE e == [kind |-> "MacroEquivocation", offender |-> p.proposer,
                     first |-> q.checkpoint, second |-> p.checkpoint]
    <2>2. /\ q \in proposals \cup ForgetfulProposal
          /\ q.proposer = p.proposer
          /\ HeightOf(q.checkpoint) = HeightOf(p.checkpoint)
      BY <1>1 DEF SeenOf, BookOf
    <2>3. q.checkpoint \in Hash \ {Genesis}
      BY <1>1, <2>2, ForgetfulProposalAssumption DEF Proposal
    <2>4. e \in Evidence
      BY <1>2, <2>3 DEF Evidence
    <2>5. UNCHANGED <<emitted, book, proposals, partials, qcs>>
      BY <1>5 DEF ReportEquivocation
    <2>6. ProposerSigned(p.proposer, q.checkpoint)' /\ ProposerSigned(p.proposer, p.checkpoint)'
      BY <2>2, <2>5, ForgetfulProposalAssumption DEF ProposerSigned
    <2>7. e.kind = "MacroEquivocation" /\ verify_evidence(e)'
      BY <2>1, <2>2, <2>6 DEF verify_evidence
    <2> HIDE DEF e
    <2>8. evidence' = evidence \cup {e} /\ evidence' \subseteq Evidence
      BY <1>1, <2>1, <2>4 DEF e
    <2>9. Types'
      BY <2>5, <2>8 DEF SafeInv, Types
    <2>10. VotesNeverSlashable'
      <3>1. \A x \in evidence : x.kind = "MacroEquivocation" /\ verify_evidence(x)'
        BY <2>5, EvidenceKept DEF SafeInv
      <3> QED BY <2>7, <2>8, <3>1 DEF VotesNeverSlashable
    <2>11. /\ \A m \in Honest : BookOf(m, book'[m], qcs', partials', proposals')
           /\ QcsSigned(qcs', partials')
           /\ OneVotePerHeight'
      BY <2>5 DEF SafeInv, OneVotePerHeight
    <2> QED BY <2>9, <2>10, <2>11 DEF SafeInv
  <1>6. CASE IgnoreProposal(n, p)
    <2>1. book' = [book EXCEPT ![n] = s] /\ UNCHANGED <<emitted, proposals, partials, qcs, evidence>>
      BY <1>6 DEF IgnoreProposal
    <2> HIDE DEF f, s
    <2>2. BookOf(n, s, qcs, partials, proposals)
      <3>1. /\ s.proposals_seen \subseteq proposals \cup ForgetfulProposal
            /\ s.backup_timers \subseteq b.backup_timers
            /\ s.mode_b_timers \subseteq b.mode_b_timers
        BY <1>1, <1>3 DEF BookOf, SameTimers
      <3> QED BY <1>1, <1>3, <3>1, QuietBook
    <2> QED BY <1>1, <1>3, <2>1, <2>2, QuietStep
  <1>7. CASE VoteForProposal(n, p)
    <2> DEFINE k == p.checkpoint
               c == VotedBook(n, p)
               S == {k}
               New == {[checkpoint |-> d, voter |-> n] : d \in S}
    <2>1. /\ book' = [book EXCEPT ![n] = c]
          /\ partials' = partials \cup {[checkpoint |-> k, voter |-> n]}
          /\ evidence' = evidence \cup scan_for_surround(n, votes_of(n), k)
                                  \cup scan_for_double_vote(n, votes_of(n), k)
          /\ UNCHANGED <<emitted, proposals, qcs>>
      BY <1>7 DEF VoteForProposal, VotedBook
    <2>2. k \in f.candidate /\ ParentOf(k) = f.last_macro_hash /\ MayLock(f, k)
      BY <1>7 DEF VoteForProposal, Votable, CandidateAt
    <2>3. k \in b.candidate /\ ParentOf(k) = b.last_macro_hash /\ MayLock(b, k)
      <3> HIDE DEF f
      <3> QED BY <1>3, <2>2 DEF MayLock, SameChain, SameVotes
    <2>4. HeightOf(k) = b.next_height
      <3> HIDE DEF b, k
      <3> QED BY <1>1, <2>3, OpenCandidate DEF BookOf
    <2>5. /\ c \in MacroBook
          /\ c.candidate = b.candidate
          /\ Functional(c.candidate_beacon)
          /\ c.proposals_seen = b.proposals_seen \cup {p}
          /\ c.lock = {k}
          /\ c.votes = b.votes \cup {k}
          /\ c.partials = b.partials \cup {<<k, n>>}
          /\ c.backup_timers = b.backup_timers \ {HeightOf(k)}
          /\ c.mode_b_timers = b.mode_b_timers
          /\ c.adopted = AdoptedWith(b, k)
          /\ c.justified_head = HeadWith(b, k)
          /\ c.finalized_head = b.finalized_head
          /\ SameChain(b, c)
      BY <1>1, <1>2, VotedFields
    <2> HIDE DEF c, f, s
    <2>6. MapsOf(c)
      <3>1. IsMap(AdoptedWith(b, k)) /\ IsOption(HeadWith(b, k))
        BY <1>1, AdoptFacts DEF BookOf, MapsOf
      <3> QED BY <1>1, <2>5, <3>1 DEF BookOf, MapsOf, IsOption
    <2>7. New = {[checkpoint |-> k, voter |-> n]} /\ S \X {n} = {<<k, n>>}
      OBVIOUS
    <2>8. New \in SUBSET Partial /\ \A x \in New : x.voter = n
      BY <1>2 DEF Partial
    <2>9. /\ BookOf(n, c, qcs, partials \cup New, proposals)
          /\ \A x \in New, y \in partials \cup New :
                y.voter = n /\ HeightOf(x.checkpoint) = HeightOf(y.checkpoint)
                    => x.checkpoint = y.checkpoint
      <3>1. /\ \A d \in S : d \in b.candidate /\ HeightOf(d) = b.next_height /\ MayLock(b, d)
            /\ c.proposals_seen \subseteq proposals \cup ForgetfulProposal
            /\ c.backup_timers \subseteq b.backup_timers
            /\ c.mode_b_timers \subseteq b.mode_b_timers
            /\ c.lock = IF S # {} THEN S ELSE b.lock
            /\ c.votes \subseteq b.votes \cup S
            /\ c.partials = b.partials \cup (S \X {n})
        BY <1>1, <2>3, <2>4, <2>5, <2>7 DEF BookOf
      <3>2. New = {[checkpoint |-> d, voter |-> n] : d \in S}
        OBVIOUS
      <3> HIDE DEF k, b, S, New
      <3>3. SignedBook(n, b, c, S, proposals)
        BY <2>5, <2>6, <3>1 DEF SignedBook
      <3> QED BY <1>1, <3>2, <3>3, VotedBookSafe
    <2>10. evidence' = evidence
      BY <2>1, <2>3, <2>4, ScansFindNothing
    <2>11. partials' = partials \cup New
      BY <2>1, <2>7
    <2> HIDE DEF New
    <2>12. /\ BookOf(n, c, qcs', partials', proposals')
           /\ QcsSigned(qcs' \ qcs, partials')
           /\ \A e \in evidence' \ evidence : e.kind = "MacroEquivocation" /\ verify_evidence(e)'
           /\ evidence' \subseteq Evidence
           /\ proposals \subseteq proposals' /\ proposals' \subseteq Proposal
           /\ qcs \subseteq qcs' /\ qcs' \subseteq Hash \ {Genesis}
           /\ emitted' \in [Honest -> SUBSET Micro]
      BY <1>1, <2>1, <2>9, <2>10, <2>11 DEF QcsSigned
    <2>13. c \in MacroBook /\ book' = [book EXCEPT ![n] = c]
      BY <2>1, <2>5
    <2> HIDE DEF b, k, S
    <2> QED BY <2>8, <2>9, <2>11, <2>12, <2>13, SafeStep
  <1> QED BY <1>4, <1>5, <1>6, <1>7 DEF on_macro_proposal

\* A step of n that changes its book and adds MacroQcs that are signed, if any.
LEMMA QcStepSafe ==
    ASSUME SafeInv, NEW n \in Honest, NEW c \in MacroBook,
           book' = [book EXCEPT ![n] = c],
           UNCHANGED <<emitted, proposals, partials, evidence>>,
           NEW N \in SUBSET (Hash \ {Genesis}), qcs' = qcs \cup N, QcsSigned(N, partials),
           BookOf(n, c, qcs', partials, proposals)
    PROVE  SafeInv'
  <1> DEFINE New == {}
  <1>1. /\ New \in SUBSET Partial
        /\ \A x \in New : x.voter = n
        /\ partials' = partials \cup New
        /\ \A x \in New, y \in partials \cup New :
               y.voter = n /\ HeightOf(x.checkpoint) = HeightOf(y.checkpoint)
                   => x.checkpoint = y.checkpoint
        /\ \A e \in evidence' \ evidence : e.kind = "MacroEquivocation" /\ verify_evidence(e)'
    OBVIOUS
  <1>2. /\ emitted' \in [Honest -> SUBSET Micro]
        /\ proposals \subseteq proposals' /\ proposals' \subseteq Proposal
        /\ qcs \subseteq qcs' /\ qcs' \subseteq Hash \ {Genesis}
        /\ evidence' \subseteq Evidence
    BY DEF SafeInv, Types
  <1>3. BookOf(n, c, qcs', partials', proposals')
    OBVIOUS
  <1>4. QcsSigned(qcs' \ qcs, partials')
    BY DEF QcsSigned
  <1> HIDE DEF New
  <1> QED BY <1>1, <1>2, <1>3, <1>4, SafeStep

\* Signers is SignersOf the signatures there are, and the signers that a book
\* counts are among them.
LEMMA SignersCounted ==
    /\ \A c : Signers(c) = SignersOf(partials, c)
    /\ \A b, c : c \in Hash /\ SignedOf(b, partials) => SignersIn(b, c) \subseteq Signers(c)
    /\ \A S, c : S \subseteq Signers(c) /\ Cardinality(S) >= quorum
                     => Cardinality(Signers(c)) >= quorum
  <1>1. \A c : Signers(c) = SignersOf(partials, c)
    BY DEF Signers, SignersOf
  <1>2. \A b, c : c \in Hash /\ SignedOf(b, partials) => SignersIn(b, c) \subseteq Signers(c)
    BY <1>1 DEF SignersIn, SignedOf
  <1>3. ASSUME NEW S, NEW c, S \subseteq Signers(c), Cardinality(S) >= quorum
        PROVE  Cardinality(Signers(c)) >= quorum
    <2>1. Signers(c) \subseteq Validator
      BY ValidatorAssumption DEF Signers
    <2>2. IsFiniteSet(Signers(c))
      BY <2>1, ValidatorAssumption, FS_Subset
    <2>3. /\ Cardinality(S) \in Nat /\ Cardinality(Signers(c)) \in Nat
          /\ Cardinality(S) <= Cardinality(Signers(c))
      BY <1>3, <2>2, FS_Subset, FS_CardinalityType
    <2>4. quorum \in Int
      BY ValidatorAssumption, FS_CardinalityType DEF quorum, F
    <2> QED BY <1>3, <2>3, <2>4
  <1> QED BY <1>1, <1>2, <1>3

LEMMA PartialSafe ==
    ASSUME SafeInv, NEW n \in Honest, NEW k \in book[n].candidate, NEW m \in Validator,
           on_bls_partial(n, k, m)
    PROVE  SafeInv'
  <1> DEFINE b == book[n]
             c == Collected(n, k, m)
  <1>1. /\ book \in [Honest -> MacroBook]
        /\ b \in MacroBook
        /\ BookOf(n, b, qcs, partials, proposals)
        /\ partials \subseteq Partial
        /\ qcs \subseteq Hash \ {Genesis}
    BY DEF SafeInv, Types
  <1>2. k \in Hash /\ k \in Hash \ {Genesis}
    BY <1>1 DEF MacroBook
  <1>3. m \in SignersOf(partials, k) /\ k \notin b.emitted_macro_qc
    BY SignersCounted DEF on_bls_partial, CollectPartial, AssembleQc, NewPartial
  <1>4. /\ c \in MacroBook
        /\ c.candidate = b.candidate
        /\ c.candidate_beacon = b.candidate_beacon
        /\ c.proposals_seen = b.proposals_seen
        /\ c.lock = b.lock
        /\ c.votes = b.votes
        /\ c.partials = b.partials \cup {<<k, m>>}
        /\ SameChain(b, c) /\ SameTwoChain(b, c) /\ SameTimers(b, c)
    BY <1>1, <1>2, CollectedFields
  <1> HIDE DEF c
  <1>5. BookOf(n, c, qcs, partials, proposals)
    <2> HIDE DEF b
    <2> QED BY <1>1, <1>2, <1>3, <1>4, CollectedBook
  <1>6. CASE CollectPartial(n, k, m)
    <2>1. /\ book' = [book EXCEPT ![n] = c]
          /\ UNCHANGED <<emitted, proposals, partials, evidence>>
          /\ qcs' = qcs \cup {}
      BY <1>6 DEF CollectPartial, c
    <2>2. QcsSigned({}, partials) /\ {} \in SUBSET (Hash \ {Genesis}) /\ qcs' = qcs
      BY <2>1 DEF QcsSigned
    <2> QED BY <1>4, <1>5, <2>1, <2>2, QcStepSafe
  <1>7. CASE AssembleQc(n, k, m)
    <2> DEFINE a == Adopted(c, k, SignersIn(c, k))
               N == {k}
    <2>1. /\ book' = [book EXCEPT ![n] = a]
          /\ UNCHANGED <<emitted, proposals, partials, evidence>>
          /\ qcs' = qcs \cup N
          /\ Cardinality(SignersIn(c, k)) >= quorum
      BY <1>7 DEF AssembleQc, Assembles, c
    <2>2. QcsSigned(N, partials) /\ N \in SUBSET (Hash \ {Genesis})
      <3>1. SignersIn(c, k) \subseteq Signers(k)
        BY <1>2, <1>5, SignersCounted DEF BookOf
      <3>2. Cardinality(Signers(k)) >= quorum
        BY <2>1, <3>1, SignersCounted
      <3> QED BY <1>2, <3>2, SignersCounted DEF QcsSigned
    <2>3. a \in MacroBook /\ BookOf(n, a, qcs', partials, proposals)
      <3>1. /\ k \in c.candidate
            /\ k \notin c.emitted_macro_qc
            /\ qcs \subseteq qcs' /\ k \in qcs' /\ qcs' \subseteq Hash \ {Genesis}
            /\ \A x \in partials : x \in Partial
        BY <1>1, <1>2, <1>3, <1>4, <2>1 DEF SameChain
      <3> QED BY <1>4, <1>5, <3>1, AdoptedBook
    <2> HIDE DEF a, N
    <2> QED BY <2>1, <2>2, <2>3, QcStepSafe
  <1> QED BY <1>6, <1>7 DEF on_bls_partial

LEMMA QcSafe ==
    ASSUME SafeInv, NEW n \in Honest, NEW k \in qcs, on_macro_qc_received(n, k)
    PROVE  SafeInv'
  <1> DEFINE b == book[n]
             a == Adopted(b, k, SignersIn(b, k))
             N == {}
  <1>1. /\ book \in [Honest -> MacroBook]
        /\ b \in MacroBook
        /\ BookOf(n, b, qcs, partials, proposals)
        /\ qcs \subseteq Hash \ {Genesis}
        /\ \A x \in partials : x \in Partial
    BY DEF SafeInv, Types
  <1>2. /\ k \in b.candidate
        /\ k \notin b.emitted_macro_qc
        /\ book' = [book EXCEPT ![n] = a]
        /\ UNCHANGED <<emitted, proposals, partials, evidence>>
        /\ qcs' = qcs /\ qcs' = qcs \cup N
    BY DEF on_macro_qc_received
  <1>3. QcsSigned(N, partials) /\ N \in SUBSET (Hash \ {Genesis})
    BY DEF QcsSigned
  <1>4. a \in MacroBook /\ BookOf(n, a, qcs', partials, proposals)
    <2>1. qcs \subseteq qcs' /\ k \in qcs' /\ qcs' \subseteq Hash \ {Genesis}
      BY <1>1, <1>2
    <2> HIDE DEF b
    <2> QED BY <1>1, <1>2, <2>1, AdoptedBook
  <1> HIDE DEF a, N
  <1> QED BY <1>2, <1>3, <1>4, QcStepSafe

LEMMA BackupTimerSafe ==
    ASSUME SafeInv, NEW n \in Honest, NEW h \in Height, BackupTimerFired(n, h)
    PROVE  SafeInv'
  <1> DEFINE b == book[n]
             s == [b EXCEPT !.backup_timers = @ \ {h}]
             c == [s EXCEPT !.proposal_seen = @ \cup {h}]
  <1>1. /\ book \in [Honest -> MacroBook]
        /\ b \in MacroBook
        /\ BookOf(n, b, qcs, partials, proposals)
        /\ proposals \subseteq Proposal
        /\ emitted \in [Honest -> SUBSET Micro]
    BY DEF SafeInv, Types
  <1>2. /\ s \in MacroBook
        /\ s.candidate = b.candidate
        /\ s.candidate_beacon = b.candidate_beacon
        /\ s.proposals_seen = b.proposals_seen
        /\ s.backup_timers = b.backup_timers \ {h}
        /\ s.mode_b_timers = b.mode_b_timers
        /\ SameChain(b, s) /\ SameVotes(b, s) /\ SameTwoChain(b, s)
        /\ c \in MacroBook
        /\ c.candidate = b.candidate
        /\ c.candidate_beacon = b.candidate_beacon
        /\ c.proposals_seen = b.proposals_seen
        /\ c.backup_timers = b.backup_timers \ {h}
        /\ c.mode_b_timers = b.mode_b_timers
        /\ SameChain(b, c) /\ SameVotes(b, c) /\ SameTwoChain(b, c)
    BY <1>1, BackedUpFields
  <1>3. /\ Functional(b.candidate_beacon)
        /\ b.proposals_seen \subseteq proposals \cup ForgetfulProposal
        /\ b.backup_timers \ {h} \subseteq b.backup_timers
    BY <1>1 DEF BookOf, MapsOf
  <1>4. /\ UNCHANGED <<emitted, partials, qcs, evidence>>
        /\ \/ /\ book' = [book EXCEPT ![n] = c]
              /\ proposals' = proposals \cup
                     {[checkpoint |-> k, proposer |-> n, beacon |-> BeaconFor(s, h)] : k \in CandidateAt(s, h)}
           \/ /\ book' = [book EXCEPT ![n] = s]
              /\ UNCHANGED proposals
    BY DEF BackupTimerFired
  <1> HIDE DEF b, s, c
  <1>5. BookOf(n, s, qcs, partials, proposals) /\ BookOf(n, c, qcs, partials, proposals)
    BY <1>1, <1>2, <1>3, QuietBook
  <1>6. proposals \subseteq proposals' /\ proposals' \subseteq Proposal
    <2>1. ASSUME NEW k \in CandidateAt(s, h)
          PROVE  [checkpoint |-> k, proposer |-> n, beacon |-> BeaconFor(s, h)] \in Proposal
      <3>1. k \in Hash \ {Genesis} /\ BeaconFor(s, h) \in Hash
        BY <1>2 DEF CandidateAt, BeaconFor, MacroBook
      <3>2. n \in Validator
        BY ValidatorAssumption
      <3> QED BY <3>1, <3>2 DEF Proposal
    <2> QED BY <1>1, <1>4, <2>1
  <1>7. emitted' \in [Honest -> SUBSET Micro]
    BY <1>1, <1>4
  <1> QED BY <1>2, <1>4, <1>5, <1>6, <1>7, QuietStep

LEMMA ModeBTimerSafe ==
    ASSUME SafeInv, NEW n \in Honest, NEW h \in Height, ModeBTimerFired(n, h)
    PROVE  SafeInv'
  <1> DEFINE b == book[n]
             c == ModeBBook(n, h)
             S == ModeBSigns(n, h)
             New == {[checkpoint |-> k, voter |-> n] : k \in S}
  <1>1. /\ book \in [Honest -> MacroBook]
        /\ b \in MacroBook
        /\ BookOf(n, b, qcs, partials, proposals)
        /\ proposals \subseteq Proposal
        /\ qcs \subseteq Hash \ {Genesis}
        /\ evidence \subseteq Evidence
        /\ emitted \in [Honest -> SUBSET Micro]
    BY DEF SafeInv, Types
  <1>2. /\ book' = [book EXCEPT ![n] = c]
        /\ partials' = partials \cup New
        /\ UNCHANGED <<emitted, proposals, qcs, evidence>>
        /\ h \in b.mode_b_timers
    BY DEF ModeBTimerFired, ModeBBook
  <1>3. h = b.next_height
    BY <1>1, <1>2 DEF BookOf, ChainOf
  <1>4. \A k \in S : k \in b.candidate /\ HeightOf(k) = b.next_height /\ MayLock(b, k)
    BY <1>3 DEF ModeBSigns, CandidateAt
  <1>5. /\ c \in MacroBook
        /\ c.candidate = b.candidate
        /\ c.candidate_beacon = b.candidate_beacon
        /\ c.proposals_seen = b.proposals_seen
        /\ c.lock = IF S # {} THEN S ELSE b.lock
        /\ c.votes = b.votes
        /\ c.partials = b.partials \cup (S \X {n})
        /\ c.backup_timers = b.backup_timers
        /\ c.mode_b_timers = b.mode_b_timers \ {h}
        /\ SameChain(b, c) /\ SameTwoChain(b, c)
    BY <1>1, ModeBFields
  <1> HIDE DEF c, S
  <1>6. MapsOf(c)
    <2>1. IsOption(S)
      BY <1>1, <1>4 DEF BookOf, MapsOf, IsMap, IsOption
    <2> QED BY <1>1, <1>5, <2>1 DEF BookOf, MapsOf, SameTwoChain
  <1>7. New \in SUBSET Partial /\ \A x \in New : x.voter = n
    <2>1. S \subseteq Hash \ {Genesis}
      BY <1>1, <1>4 DEF MacroBook
    <2> QED BY <2>1 DEF Partial
  <1>8. /\ BookOf(n, c, qcs, partials \cup New, proposals)
        /\ \A x \in New, y \in partials \cup New :
              y.voter = n /\ HeightOf(x.checkpoint) = HeightOf(y.checkpoint)
                  => x.checkpoint = y.checkpoint
    <2>1. /\ c.proposals_seen \subseteq proposals \cup ForgetfulProposal
          /\ c.backup_timers \subseteq b.backup_timers
          /\ c.mode_b_timers \subseteq b.mode_b_timers
          /\ c.votes \subseteq b.votes \cup S
          /\ New = {[checkpoint |-> k, voter |-> n] : k \in S}
      BY <1>1, <1>5 DEF BookOf
    <2>2. /\ b \in MacroBook /\ BookOf(n, b, qcs, partials, proposals)
          /\ SameChain(b, c)
          /\ c.candidate = b.candidate
          /\ c.lock = IF S # {} THEN S ELSE b.lock
          /\ c.partials = b.partials \cup (S \X {n})
      BY <1>1, <1>5
    <2> HIDE DEF b, New
    <2>3. SignedBook(n, b, c, S, proposals)
      BY <1>4, <1>6, <2>1, <2>2 DEF SignedBook
    <2> QED BY <2>1, <2>2, <2>3, VotedBookSafe
  <1> HIDE DEF New, b
  <1>9. /\ BookOf(n, c, qcs', partials', proposals')
        /\ QcsSigned(qcs' \ qcs, partials')
        /\ \A e \in evidence' \ evidence : e.kind = "MacroEquivocation" /\ verify_evidence(e)'
        /\ evidence' \subseteq Evidence
        /\ proposals \subseteq proposals' /\ proposals' \subseteq Proposal
        /\ qcs \subseteq qcs' /\ qcs' \subseteq Hash \ {Genesis}
        /\ emitted' \in [Honest -> SUBSET Micro]
    BY <1>1, <1>2, <1>8 DEF QcsSigned
  <1>10. c \in MacroBook /\ book' = [book EXCEPT ![n] = c] /\ partials' = partials \cup New
    BY <1>2, <1>5
  <1> QED BY <1>7, <1>8, <1>9, <1>10, SafeStep

LEMMA ForgetfulSafe ==
    ASSUME SafeInv, NEW n \in Honest, NEW k \in book[n].candidate, ForgetfulAssemble(k)
    PROVE  SafeInv'
  <1> DEFINE b == book[n]
             N == {k}
  <1>1. /\ book \in [Honest -> MacroBook]
        /\ b \in MacroBook
        /\ BookOf(n, b, qcs, partials, proposals)
    BY DEF SafeInv, Types
  <1>2. /\ UNCHANGED <<emitted, book, proposals, partials, evidence>>
        /\ qcs' = qcs \cup N
        /\ Cardinality(Signers(k)) >= quorum
    BY DEF ForgetfulAssemble
  <1>3. QcsSigned(N, partials) /\ N \in SUBSET (Hash \ {Genesis})
    BY <1>1, <1>2, SignersCounted DEF QcsSigned, MacroBook
  <1>4. book' = [book EXCEPT ![n] = b]
    BY <1>1, <1>2
  <1> HIDE DEF b, N
  <1>5. BookOf(n, b, qcs', partials, proposals)
    BY <1>1, <1>2 DEF BookOf, ChainOf
  <1> QED BY <1>1, <1>2, <1>3, <1>4, <1>5, QcStepSafe

LEMMA SafeNext == SafeInv /\ [Next]_vars => SafeInv'
  <1> SUFFICES ASSUME SafeInv, [Next]_vars PROVE SafeInv'
    OBVIOUS
  <1>1. ASSUME NEW n \in Honest, HonestNext(n) PROVE SafeInv'
    <2>1. CASE MicroStep(n)
      BY <2>1, MicroSafe DEF MicroStep
    <2>2. CASE ProposalStep(n)
      BY <2>2, ProposalSafe DEF ProposalStep
    <2>3. CASE PartialStep(n)
      BY <2>3, PartialSafe DEF PartialStep
    <2>4. CASE QcStep(n)
      BY <2>4, QcSafe DEF QcStep
    <2>5. CASE TimerStep(n)
      BY <2>5, BackupTimerSafe, ModeBTimerSafe DEF TimerStep, on_timer_fired
    <2> QED BY <1>1, <2>1, <2>2, <2>3, <2>4, <2>5 DEF HonestNext
  <1>2. ASSUME NEW n \in Honest, NEW c \in book[n].candidate, ForgetfulAssemble(c) PROVE SafeInv'
    BY <1>2, ForgetfulSafe
  <1>3. CASE UNCHANGED vars
    BY <1>3 DEF vars, SafeInv, Types, OneVotePerHeight, VotesNeverSlashable,
                verify_evidence, ProposerSigned, VoteSigned, votes_of
  <1> QED BY <1>1, <1>2, <1>3 DEF Next

LEMMA SafeInvariant == Spec => []SafeInv
  BY SafeInit, SafeNext, PTL DEF Spec

-----------------------------------------------------------------------------
(***************************************************************************)
(* Theorems.                                                               *)
(***************************************************************************)

\* The books of macro_fin always have the shape of the code's MacroBook: their
\* maps keep one entry per height although candidates are replaced, and the lock
\* and the heads of the two-chain rule hold one checkpoint at most.
THEOREM TypeCorrect == Spec => []TypeOK
  BY SafeInvariant, SafeTypes, PTL

\* An honest validator never signs two checkpoints of one height, whatever the
\* ones that restart send, with any number of them, and whatever the sortition gives.
THEOREM OneVote == Spec => []OneVotePerHeight
  <1>1. SafeInv => OneVotePerHeight
    BY DEF SafeInv
  <1> QED BY <1>1, SafeInvariant, PTL

\* No vote that on_macro_proposal gives is ever found by the surround and the
\* double-vote scans, and every equivocation it reports passes verify_evidence.
THEOREM NeverSlashable == Spec => []VotesNeverSlashable
  <1>1. SafeInv => VotesNeverSlashable
    BY DEF SafeInv
  <1> QED BY <1>1, SafeInvariant, PTL

\* Two quorums of 3F + 1 validators, at most F of them forgetful, share an honest one.
LEMMA QuorumsIntersect ==
    ASSUME Cardinality(Validator) = 3 * F + 1, Cardinality(Forgetful) <= F,
           NEW S \in SUBSET Validator, NEW T \in SUBSET Validator,
           Cardinality(S) >= quorum, Cardinality(T) >= quorum
    PROVE  \E m \in S \cap T : m \notin Forgetful
  <1>1. /\ IsFiniteSet(S) /\ IsFiniteSet(T) /\ IsFiniteSet(Forgetful) /\ IsFiniteSet(S \cup T)
        /\ Cardinality(S \cup T) <= Cardinality(Validator)
    <2>1. S \cup T \subseteq Validator
      OBVIOUS
    <2> QED BY <2>1, ValidatorAssumption, FS_Subset
  <1>2. /\ Cardinality(S) \in Nat /\ Cardinality(T) \in Nat /\ Cardinality(Forgetful) \in Nat
        /\ Cardinality(S \cup T) \in Nat /\ Cardinality(Validator) \in Nat
    BY <1>1, ValidatorAssumption, FS_CardinalityType
  <1>3. IsFiniteSet(S \cap T)
    BY <1>1, FS_Intersection
  <1>4. Cardinality(S \cap T) \in Nat
    BY <1>3, FS_CardinalityType
  <1>5. Cardinality(S \cup T) = Cardinality(S) + Cardinality(T) - Cardinality(S \cap T)
    BY <1>1, FS_Union
  <1>6. F \in Int /\ quorum = 2 * F + 1
    BY <1>2 DEF F, quorum
  <1>7. Cardinality(S \cap T) > F
    BY <1>1, <1>2, <1>4, <1>5, <1>6
  <1>8. ~ (S \cap T \subseteq Forgetful)
    <2> SUFFICES ASSUME S \cap T \subseteq Forgetful PROVE FALSE
      OBVIOUS
    <2>1. Cardinality(S \cap T) <= Cardinality(Forgetful)
      BY <1>1, FS_Subset
    <2> QED BY <1>2, <1>4, <1>6, <1>7, <2>1
  <1> QED BY <1>8

\* Two checkpoints of one height that a quorum has signed are the same.
LEMMA QuorumsAgree ==
    ASSUME Cardinality(Validator) = 3 * F + 1, Cardinality(Forgetful) <= F,
           OneVotePerHeight, NEW c, NEW d, HeightOf(c) = HeightOf(d),
           Cardinality(SignersOf(partials, c)) >= quorum,
           Cardinality(SignersOf(partials, d)) >= quorum
    PROVE  c = d
  <1>1. SignersOf(partials, c) \in SUBSET Validator /\ SignersOf(partials, d) \in SUBSET Validator
    BY ValidatorAssumption DEF SignersOf
  <1>2. PICK m \in SignersOf(partials, c) \cap SignersOf(partials, d) : m \notin Forgetful
    BY <1>1, QuorumsIntersect
  <1> DEFINE x == [checkpoint |-> c, voter |-> m]
             y == [checkpoint |-> d, voter |-> m]
  <1>3. x \in partials /\ y \in partials
    BY <1>2 DEF SignersOf
  <1>4. x.voter = y.voter /\ HeightOf(x.checkpoint) = HeightOf(y.checkpoint)
    OBVIOUS
  <1>5. x.checkpoint = y.checkpoint
    BY <1>3, <1>4 DEF OneVotePerHeight
  <1> QED BY <1>5

\* With 3F + 1 validators, at most F of which restart, no two checkpoints of one
\* height ever get a MacroQc.
THEOREM Agreement ==
    ASSUME Cardinality(Validator) = 3 * F + 1, Cardinality(Forgetful) <= F
    PROVE  Spec => []MacroAgreement
  <1>1. SafeInv => MacroAgreement
    <2> SUFFICES ASSUME SafeInv, NEW c \in qcs, NEW d \in qcs, HeightOf(c) = HeightOf(d)
                 PROVE  c = d
      BY DEF MacroAgreement
    <2> QED BY QuorumsAgree DEF SafeInv, QcsSigned
  <1> QED BY <1>1, SafeInvariant, PTL

=============================================================================
