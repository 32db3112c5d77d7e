---------------------------- MODULE MacroLogProofs ----------------------------
(***************************************************************************)
(* Theorems about MacroFin, continued: what a validator adopts and calls   *)
(* final.  No micro checkpoint is covered twice, the inactivity counter    *)
(* measures the lag of finality, the tier of a checkpoint never falls, and *)
(* macro-finality implements the abstract log of MacroLog.                 *)
(***************************************************************************)
EXTENDS MacroFinProofs

-----------------------------------------------------------------------------
(***************************************************************************)
(* The kinds of steps, as far as the chain of checkpoints, the two-chain   *)
(* rule and the ring of micro checkpoints are concerned.                   *)
(***************************************************************************)

\* Book c of n differs from the old one in nothing that matters here.
Quiet(n, c) == LET b == book[n] IN
    /\ SameChain(b, c) /\ SameTwoChain(b, c)
    /\ c.candidate = b.candidate
    /\ c.micro_ring = b.micro_ring
    /\ UNCHANGED <<emitted, qcs>>

\* Micro checkpoint m goes into the ring, or completes a candidate.
MicroPushed(n, c, m) == LET b == book[n] IN
    /\ Len(b.micro_ring) + 1 < W
    /\ c.micro_ring = Append(b.micro_ring, m)
    /\ c.candidate = b.candidate
MicroBuilt(n, c, m) == LET b == book[n]
                           k == build(b.next_height, b.last_macro_hash, Append(b.micro_ring, m)) IN
    /\ Len(b.micro_ring) + 1 >= W
    /\ b.next_height \in Height
    /\ c.micro_ring = << >>
    /\ c.candidate = CandidatesWith(b, k)
MicroTaken(n, c, m) == LET b == book[n] IN
    /\ m \notin emitted[n]
    /\ emitted' = [emitted EXCEPT ![n] = @ \cup {m}]
    /\ MicroPushed(n, c, m) \/ MicroBuilt(n, c, m)
    /\ SameChain(b, c) /\ SameTwoChain(b, c)
    /\ UNCHANGED qcs

\* Candidate k of the next height is voted for.
Voted(n, c, k) == LET b == book[n] IN
    /\ HeightOf(k) = b.next_height
    /\ ParentOf(k) = b.last_macro_hash
    /\ SameChain(b, c)
    /\ c.candidate = b.candidate
    /\ c.micro_ring = b.micro_ring
    /\ c.adopted = AdoptedWith(b, k)
    /\ c.justified_head = HeadWith(b, k)
    /\ c.finalized_head = b.finalized_head
    /\ c.unfinalized_windows = b.unfinalized_windows
    /\ c.leak_notified = b.leak_notified
    /\ c.blob_status = SetTier(b.blob_status, {k}, "SoftConfirmed")
    /\ UNCHANGED <<emitted, qcs>>

\* The MacroQc of candidate k of the next height is adopted.
QcAdopted(n, c, k) == LET b == book[n]
                          fin == FinalizedBy(b, k) IN
    /\ HeightOf(k) = b.next_height
    /\ ParentOf(k) = b.last_macro_hash
    /\ c.candidate = b.candidate
    /\ c.micro_ring = b.micro_ring
    /\ c.next_height = HeightOf(k) + 1
    /\ c.last_macro_hash = k
    /\ c.emitted_macro_qc = b.emitted_macro_qc \cup {k}
    /\ c.adopted = AdoptedWith(b, k)
    /\ c.justified_head = HeadWith(b, k)
    /\ c.finalized_head = IF fin # {} THEN fin ELSE b.finalized_head
    /\ c.unfinalized_windows = IF fin # {} THEN 0 ELSE b.unfinalized_windows + 1
    /\ c.leak_notified <=> /\ fin = {}
                           /\ b.leak_notified \/ c.unfinalized_windows >= LeakTrigger
    /\ c.blob_status = TiersWith(b, k)
    /\ UNCHANGED <<emitted, partials>>
    /\ qcs' = qcs \cup {k}
    /\ Cardinality(SignersOf(partials, k)) >= quorum

\* The step of validator n from its book to book c.
BookStep(n, c) ==
    /\ book' = [book EXCEPT ![n] = c]
    /\ \/ Quiet(n, c)
       \/ \E m \in Micro : MicroTaken(n, c, m)
       \/ \E k \in book[n].candidate : Voted(n, c, k) \/ QcAdopted(n, c, k)

\* A forgetful validator assembles a MacroQc.
ForgetfulQc(n, k) == /\ UNCHANGED <<emitted, book, partials>>
                     /\ qcs' = qcs \cup {k}
                     /\ Cardinality(SignersOf(partials, k)) >= quorum

-----------------------------------------------------------------------------
LEMMA MicroKind ==
    ASSUME SafeInv, NEW n \in Honest, NEW m \in Micro, on_local_micro_qcs(n, m)
    PROVE  \E c \in MacroBook : BookStep(n, c)
  <1> DEFINE b == book[n]
  <1>1. book \in [Honest -> MacroBook] /\ b \in MacroBook
    BY DEF SafeInv, Types
  <1>2. /\ m \notin emitted[n]
        /\ emitted' = [emitted EXCEPT ![n] = @ \cup {m}]
        /\ UNCHANGED qcs
    BY DEF on_local_micro_qcs, PushMicro, BuildCandidate
  <1>3. CASE PushMicro(n, m)
    <2> DEFINE c == [b EXCEPT !.micro_ring = Append(@, m)]
    <2>1. book' = [book EXCEPT ![n] = c] /\ Len(b.micro_ring) + 1 < W
      BY <1>1, <1>3 DEF PushMicro
    <2>2. /\ c \in MacroBook
          /\ c.micro_ring = Append(b.micro_ring, m)
          /\ c.candidate = b.candidate
          /\ SameChain(b, c) /\ SameTwoChain(b, c)
      BY <1>1, PushedFields
    <2> HIDE DEF c
    <2>3. MicroTaken(n, c, m)
      BY <1>2, <2>1, <2>2 DEF MicroTaken, MicroPushed
    <2> QED BY <2>1, <2>2, <2>3 DEF BookStep
  <1>4. CASE BuildCandidate(n, m)
    <2> DEFINE h == b.next_height
               ring == Append(b.micro_ring, m)
               last == b.last_macro_hash
               k == build(h, last, ring)
    <2>1. PICK seen \in SUBSET Height, backup \in SUBSET Height, modeb \in SUBSET Height :
            /\ backup \subseteq b.backup_timers \cup {h}
            /\ modeb \subseteq b.mode_b_timers \cup {h}
            /\ book' = [book EXCEPT ![n] = Built(b, k, seen, backup, modeb)]
            /\ proposals \subseteq proposals'
            /\ proposals' \subseteq Proposal
      BY <1>4, BuildStep
    <2>2. h \in Height /\ last \in Hash /\ ring \in Seq(Micro) /\ Len(b.micro_ring) + 1 >= W
      BY <1>1, <1>4, BoundAssumption, AppendProperties DEF BuildCandidate, MacroBook, Height
    <2>3. k \in Hash \ {Genesis}
      <3> HIDE DEF h, last, ring
      <3> QED BY <2>2, BuildFacts
    <2> DEFINE c == Built(b, k, seen, backup, modeb)
    <2>4. /\ c \in MacroBook
          /\ c.micro_ring = << >>
          /\ c.candidate = CandidatesWith(b, k)
          /\ SameChain(b, c) /\ SameTwoChain(b, c)
      <3> HIDE DEF b, k
      <3> QED BY <1>1, <2>3, BuiltFields
    <2>5. book' = [book EXCEPT ![n] = c]
      BY <2>1
    <2> HIDE DEF c
    <2>6. MicroTaken(n, c, m)
      BY <1>2, <2>2, <2>4 DEF MicroTaken, MicroBuilt
    <2> QED BY <2>4, <2>5, <2>6 DEF BookStep
  <1> QED BY <1>3, <1>4 DEF on_local_micro_qcs

LEMMA ProposalKind ==
    ASSUME SafeInv, NEW n \in Honest, NEW p \in proposals \cup ForgetfulProposal,
           on_macro_proposal(n, p)
    PROVE  \E c \in MacroBook : BookStep(n, c)
  <1> DEFINE b == book[n]
             f == Frozen(n, p)
             s == [f EXCEPT !.proposals_seen = @ \cup {p}]
  <1>1. /\ book \in [Honest -> MacroBook]
        /\ b \in MacroBook
        /\ p \in Proposal
        /\ BookOf(n, b, qcs, partials, proposals)
        /\ Functional(b.candidate_beacon)
    BY ForgetfulProposalAssumption DEF SafeInv, Types, BookOf, MapsOf
  <1>2. /\ f \in MacroBook
        /\ f.micro_ring = b.micro_ring
        /\ f.candidate = b.candidate
        /\ SameChain(b, f) /\ SameVotes(b, f) /\ SameTwoChain(b, f)
        /\ s \in MacroBook
        /\ s.micro_ring = b.micro_ring
        /\ s.candidate = b.candidate
        /\ SameChain(b, s) /\ SameTwoChain(b, s)
    BY <1>1, FrozenFields
  <1>3. CASE RejectProposal(n, p)
    <2>1. book' = [book EXCEPT ![n] = f] /\ UNCHANGED <<emitted, qcs>>
      BY <1>3 DEF RejectProposal
    <2> HIDE DEF f
    <2> QED BY <1>2, <2>1 DEF BookStep, Quiet
  <1>4. CASE ReportEquivocation(n, p)
    <2>1. book' = [book EXCEPT ![n] = b] /\ UNCHANGED <<emitted, qcs>>
      BY <1>1, <1>4 DEF ReportEquivocation
    <2>2. SameChain(b, b) /\ SameTwoChain(b, b)
      BY DEF SameChain, SameTwoChain
    <2> QED BY <1>1, <2>1, <2>2 DEF BookStep, Quiet
  <1>5. CASE IgnoreProposal(n, p)
    <2>1. book' = [book EXCEPT ![n] = s] /\ UNCHANGED <<emitted, qcs>>
      BY <1>5 DEF IgnoreProposal
    <2> HIDE DEF f, s
    <2> QED BY <1>2, <2>1 DEF BookStep, Quiet
  <1>6. CASE VoteForProposal(n, p)
    <2> DEFINE k == p.checkpoint
               c == VotedBook(n, p)
    <2>1. book' = [book EXCEPT ![n] = c] /\ UNCHANGED <<emitted, qcs>>
      BY <1>6 DEF VoteForProposal, VotedBook
    <2>2. k \in f.candidate /\ ParentOf(k) = f.last_macro_hash
      BY <1>6 DEF VoteForProposal, Votable, CandidateAt
    <2>3. k \in b.candidate /\ ParentOf(k) = b.last_macro_hash
      <3> HIDE DEF f
      <3> QED BY <1>2, <2>2 DEF SameChain
    <2>4. HeightOf(k) = b.next_height
      <3> HIDE DEF b, k
      <3> QED BY <1>1, <2>3, OpenCandidate DEF BookOf
    <2>5. /\ c \in MacroBook
          /\ c.micro_ring = b.micro_ring
          /\ c.candidate = b.candidate
          /\ c.adopted = AdoptedWith(b, k)
          /\ c.justified_head = HeadWith(b, k)
          /\ c.finalized_head = b.finalized_head
          /\ c.unfinalized_windows = b.unfinalized_windows
          /\ c.leak_notified = b.leak_notified
          /\ c.blob_status = SetTier(b.blob_status, {k}, "SoftConfirmed")
          /\ SameChain(b, c)
      BY <1>1, VotedFields
    <2> HIDE DEF c, f, s, k
    <2>6. Voted(n, c, k)
      BY <2>1, <2>3, <2>4, <2>5 DEF Voted
    <2> QED BY <2>1, <2>3, <2>5, <2>6 DEF BookStep
  <1> QED BY <1>3, <1>4, <1>5, <1>6 DEF on_macro_proposal

\* Adopting from book c, which has the chain and the two-chain state of n's book.
LEMMA AdoptedKind ==
    ASSUME NEW n \in Honest, NEW c \in MacroBook, book[n] \in MacroBook,
           SameChain(book[n], c), SameTwoChain(book[n], c),
           c.candidate = book[n].candidate, c.micro_ring = book[n].micro_ring,
           NEW k \in book[n].candidate, k \notin book[n].emitted_macro_qc, NEW signers,
           BookOf(n, book[n], qcs, partials, proposals),
           UNCHANGED <<emitted, partials>>, qcs' = qcs \cup {k},
           Cardinality(SignersOf(partials, k)) >= quorum
    PROVE  /\ QcAdopted(n, Adopted(c, k, signers), k)
           /\ Adopted(c, k, signers) \in MacroBook
  <1> DEFINE b == book[n]
             a == Adopted(c, k, signers)
  <1>1. HeightOf(k) = b.next_height /\ ParentOf(k) = b.last_macro_hash
    BY OpenCandidate DEF BookOf
  <1>2. k \in Hash \ {Genesis}
    BY DEF MacroBook
  <1>3. /\ a \in MacroBook
        /\ a.micro_ring = c.micro_ring
        /\ a.candidate = c.candidate
        /\ a.next_height = HeightOf(k) + 1
        /\ a.last_macro_hash = k
        /\ a.emitted_macro_qc = c.emitted_macro_qc \cup {k}
        /\ a.adopted = AdoptedWith(c, k)
        /\ a.justified_head = HeadWith(c, k)
        /\ a.finalized_head = IF FinalizedBy(c, k) # {} THEN FinalizedBy(c, k) ELSE c.finalized_head
        /\ a.unfinalized_windows = IF FinalizedBy(c, k) # {} THEN 0 ELSE c.unfinalized_windows + 1
        /\ a.leak_notified <=> /\ FinalizedBy(c, k) = {}
                               /\ c.leak_notified \/ a.unfinalized_windows >= LeakTrigger
        /\ a.blob_status = TiersWith(c, k)
    BY <1>2, AdoptedFields
  <1> HIDE DEF a
  <1>4. AdoptedWith(c, k) = AdoptedWith(b, k) /\ HeadWith(c, k) = HeadWith(b, k)
    BY DEF AdoptedWith, HeadWith, SameTwoChain
  <1>5. FinalizedBy(c, k) = FinalizedBy(b, k)
    BY <1>4 DEF FinalizedBy, SameTwoChain
  <1>6. TiersWith(c, k) = TiersWith(b, k)
    BY <1>5 DEF TiersWith, CandidateAt, SameTwoChain
  <1>7. /\ c.emitted_macro_qc = b.emitted_macro_qc
        /\ c.finalized_head = b.finalized_head
        /\ c.unfinalized_windows = b.unfinalized_windows
        /\ c.leak_notified = b.leak_notified
    BY DEF SameChain, SameTwoChain
  <1> QED BY <1>1, <1>3, <1>4, <1>5, <1>6, <1>7 DEF QcAdopted, a

LEMMA PartialKind ==
    ASSUME SafeInv, NEW n \in Honest, NEW k \in book[n].candidate, NEW m \in Validator,
           on_bls_partial(n, k, m)
    PROVE  \E c \in MacroBook : BookStep(n, c)
  <1> DEFINE b == book[n]
             c == Collected(n, k, m)
  <1>1. /\ book \in [Honest -> MacroBook]
        /\ b \in MacroBook
        /\ BookOf(n, b, qcs, partials, proposals)
    BY DEF SafeInv, Types
  <1>2. k \in Hash /\ k \in Hash \ {Genesis}
    BY <1>1 DEF MacroBook
  <1>3. m \in SignersOf(partials, k) /\ k \notin b.emitted_macro_qc
    BY SignersCounted DEF on_bls_partial, CollectPartial, AssembleQc, NewPartial
  <1>4. /\ c \in MacroBook
        /\ c.micro_ring = b.micro_ring
        /\ c.candidate = b.candidate
        /\ c.candidate_beacon = b.candidate_beacon
        /\ c.proposals_seen = b.proposals_seen
        /\ c.lock = b.lock
        /\ c.votes = b.votes
        /\ c.partials = b.partials \cup {<<k, m>>}
        /\ SameChain(b, c) /\ SameTwoChain(b, c) /\ SameTimers(b, c)
    BY <1>1, <1>2, CollectedFields
  <1> HIDE DEF c
  <1>5. BookOf(n, c, qcs, partials, proposals)
    <2> HIDE DEF b
    <2> QED BY <1>1, <1>2, <1>3, <1>4, CollectedBook
  <1>6. CASE CollectPartial(n, k, m)
    <2>1. book' = [book EXCEPT ![n] = c] /\ UNCHANGED <<emitted, qcs>>
      BY <1>6 DEF CollectPartial, c
    <2> QED BY <1>4, <2>1 DEF BookStep, Quiet
  <1>7. CASE AssembleQc(n, k, m)
    <2> DEFINE a == Adopted(c, k, SignersIn(c, k))
    <2>1. /\ book' = [book EXCEPT ![n] = a]
          /\ UNCHANGED <<emitted, partials>>
          /\ qcs' = qcs \cup {k}
          /\ Cardinality(SignersIn(c, k)) >= quorum
      BY <1>7 DEF AssembleQc, Assembles, c
    <2>2. SignersIn(c, k) \subseteq Signers(k)
      BY <1>2, <1>5, SignersCounted DEF BookOf
    <2>3. Cardinality(SignersOf(partials, k)) >= quorum
      BY <2>1, <2>2, SignersCounted
    <2>4. QcAdopted(n, a, k) /\ a \in MacroBook
      BY <1>1, <1>3, <1>4, <1>5, <2>1, <2>3, AdoptedKind
    <2> HIDE DEF a
    <2> QED BY <2>1, <2>4 DEF BookStep
  <1> QED BY <1>6, <1>7 DEF on_bls_partial

LEMMA QcKind ==
    ASSUME SafeInv, NEW n \in Honest, NEW k \in qcs, on_macro_qc_received(n, k)
    PROVE  \E c \in MacroBook : BookStep(n, c)
  <1> DEFINE b == book[n]
             a == Adopted(b, k, SignersIn(b, k))
  <1>1. /\ book \in [Honest -> MacroBook]
        /\ b \in MacroBook
        /\ BookOf(n, b, qcs, partials, proposals)
        /\ Cardinality(SignersOf(partials, k)) >= quorum
    BY DEF SafeInv, Types, QcsSigned
  <1>2. /\ k \in b.candidate
        /\ k \notin b.emitted_macro_qc
        /\ book' = [book EXCEPT ![n] = a]
        /\ UNCHANGED <<emitted, partials>>
        /\ qcs' = qcs \cup {k}
    BY DEF on_macro_qc_received
  <1>3. SameChain(b, b) /\ SameTwoChain(b, b)
    BY DEF SameChain, SameTwoChain
  <1>4. QcAdopted(n, a, k) /\ a \in MacroBook
    BY <1>1, <1>2, <1>3, AdoptedKind
  <1> HIDE DEF a
  <1> QED BY <1>2, <1>4 DEF BookStep

LEMMA TimerKind ==
    ASSUME SafeInv, NEW n \in Honest, NEW h \in Height, on_timer_fired(n, h)
    PROVE  \E c \in MacroBook : BookStep(n, c)
  <1> DEFINE b == book[n]
  <1>1. book \in [Honest -> MacroBook] /\ b \in MacroBook
    BY DEF SafeInv, Types
  <1>2. CASE BackupTimerFired(n, h)
    <2> DEFINE s == [b EXCEPT !.backup_timers = @ \ {h}]
               c == [s EXCEPT !.proposal_seen = @ \cup {h}]
    <2>1. /\ s \in MacroBook
          /\ s.micro_ring = b.micro_ring
          /\ s.candidate = b.candidate
          /\ SameChain(b, s) /\ SameTwoChain(b, s)
          /\ c \in MacroBook
          /\ c.micro_ring = b.micro_ring
          /\ c.candidate = b.candidate
          /\ SameChain(b, c) /\ SameTwoChain(b, c)
      BY <1>1, BackedUpFields
    <2>2. /\ book' = [book EXCEPT ![n] = c] \/ book' = [book EXCEPT ![n] = s]
          /\ UNCHANGED <<emitted, qcs>>
      BY <1>2 DEF BackupTimerFired
    <2> HIDE DEF s, c
    <2> QED BY <2>1, <2>2 DEF BookStep, Quiet
  <1>3. CASE ModeBTimerFired(n, h)
    <2> DEFINE c == ModeBBook(n, h)
    <2>1. /\ c \in MacroBook
          /\ c.micro_ring = b.micro_ring
          /\ c.candidate = b.candidate
          /\ SameChain(b, c) /\ SameTwoChain(b, c)
      BY <1>1, ModeBFields
    <2>2. book' = [book EXCEPT ![n] = c] /\ UNCHANGED <<emitted, qcs>>
      BY <1>3 DEF ModeBTimerFired, ModeBBook
    <2> HIDE DEF c
    <2> QED BY <2>1, <2>2 DEF BookStep, Quiet
  <1> QED BY <1>2, <1>3 DEF on_timer_fired

\* Every step is of one of the kinds.
LEMMA HonestKinds ==
    ASSUME SafeInv, NEW n \in Honest, HonestNext(n)
    PROVE  \E c \in MacroBook : BookStep(n, c)
  <1>1. CASE MicroStep(n)
    BY <1>1, MicroKind DEF MicroStep
  <1>2. CASE ProposalStep(n)
    BY <1>2, ProposalKind DEF ProposalStep
  <1>3. CASE PartialStep(n)
    BY <1>3, PartialKind DEF PartialStep
  <1>4. CASE QcStep(n)
    BY <1>4, QcKind DEF QcStep
  <1>5. CASE TimerStep(n)
    BY <1>5, TimerKind DEF TimerStep
  <1> QED BY <1>1, <1>2, <1>3, <1>4, <1>5 DEF HonestNext

LEMMA StepKinds ==
    ASSUME SafeInv, Next
    PROVE  \E n \in Honest : \/ \E c \in MacroBook : BookStep(n, c)
                            \/ \E k \in book[n].candidate : ForgetfulQc(n, k)
  <1>1. ASSUME NEW n \in Honest, HonestNext(n) PROVE \E c \in MacroBook : BookStep(n, c)
    BY <1>1, HonestKinds
  <1>2. ASSUME NEW n \in Honest, NEW k \in book[n].candidate, ForgetfulAssemble(k) PROVE ForgetfulQc(n, k)
    BY <1>2, SignersCounted DEF ForgetfulAssemble, ForgetfulQc
  <1> QED BY <1>1, <1>2 DEF Next

-----------------------------------------------------------------------------
(***************************************************************************)
(* The two-chain rule.  A vote enters the rule before its MacroQc is       *)
(* there, and may turn out to be for another checkpoint than the one that  *)
(* is adopted; whatever is in the rule at the next height stands on the    *)
(* last adopted checkpoint and is the justified head.                      *)
(***************************************************************************)

Prefix(s, t) == Len(s) <= Len(t) /\ s = SubSeq(t, 1, Len(s))

TwoChainOf(b) ==
    /\ \A d \in b.adopted : /\ HeightOf(d) <= b.next_height
                            /\ HeightOf(d) = b.next_height =>
                                   b.justified_head = {d} /\ ParentOf(d) = b.last_macro_hash
    /\ b.finalized_head \subseteq Hash \ {Genesis}
    /\ \A d \in b.finalized_head : Prefix(d, b.last_macro_hash)

\* The parts of LeakMeasuresLag that hold whatever LeakTrigger is, and the one
\* that needs it to be positive.
LagOf(b) == /\ b.finalized_head = {} => b.unfinalized_windows = b.next_height
            /\ \A d \in b.finalized_head : HeightOf(d) + 2 + b.unfinalized_windows = b.next_height
LeakOf(b) == b.leak_notified <=> b.unfinalized_windows >= LeakTrigger

\* Only what is behind the next height is justified or final.
TiersOf(b) == \A c \in Hash, t \in Tier :
                  <<c, t>> \in b.blob_status =>
                      /\ c # Genesis
                      /\ t # "SoftConfirmed" => HeightOf(c) < b.next_height

FinalOf(b) == /\ TwoChainOf(b)
              /\ LagOf(b)
              /\ LeakTrigger > 0 => LeakOf(b)
              /\ TiersOf(b)

FinalInv == SafeInv /\ \A n \in Honest : FinalOf(book[n])

\* What MapsOf and TwoChainOf say of the head that the adoption of k leaves: it is
\* at the height of k and stands on the last adopted checkpoint, and so only that
\* one can become final.
LEMMA HeadFacts ==
    ASSUME NEW b \in MacroBook, NEW k \in Hash \ {Genesis}, MapsOf(b), TwoChainOf(b),
           HeightOf(k) = b.next_height, ParentOf(k) = b.last_macro_hash
    PROVE  /\ \A head \in HeadWith(b, k) : /\ HeightOf(head) = b.next_height
                                           /\ ParentOf(head) = b.last_macro_hash
           /\ \A d \in AdoptedWith(b, k) :
                 /\ d \in Hash \ {Genesis}
                 /\ HeightOf(d) <= b.next_height
                 /\ HeightOf(d) = b.next_height =>
                        HeadWith(b, k) = {d} /\ ParentOf(d) = b.last_macro_hash
           /\ \A d \in FinalizedBy(b, k) :
                 /\ d = b.last_macro_hash
                 /\ d \in Hash \ {Genesis}
                 /\ HeightOf(d) + 1 = b.next_height
  <1>1. b.next_height \in Nat
    BY DEF MacroBook
  <1>2. ASSUME NEW head \in HeadWith(b, k)
        PROVE  HeightOf(head) = b.next_height /\ ParentOf(head) = b.last_macro_hash
    <2>1. CASE k \in AdoptedWith(b, k)
      BY <1>2, <2>1 DEF HeadWith
    <2>2. CASE k \notin AdoptedWith(b, k)
      <3>1. PICK d \in b.adopted : HeightOf(d) = HeightOf(k)
        BY <2>2 DEF AdoptedWith
      <3>2. b.justified_head = {d} /\ ParentOf(d) = b.last_macro_hash
        BY <3>1 DEF TwoChainOf
      <3> QED BY <1>2, <2>2, <3>1, <3>2 DEF HeadWith
    <2> QED BY <2>1, <2>2
  <1>3. ASSUME NEW d \in AdoptedWith(b, k)
        PROVE  /\ d \in Hash \ {Genesis}
               /\ HeightOf(d) <= b.next_height
               /\ HeightOf(d) = b.next_height =>
                      HeadWith(b, k) = {d} /\ ParentOf(d) = b.last_macro_hash
    <2>1. CASE d \in b.adopted
      <3>1. d \in Hash \ {Genesis}
        BY <2>1 DEF MacroBook
      <3>2. HeightOf(d) = b.next_height => b.justified_head = {d} /\ ParentOf(d) = b.last_macro_hash
        BY <2>1 DEF TwoChainOf
      <3>3. HeightOf(d) = b.next_height => (k \in AdoptedWith(b, k) => k = d)
        BY <2>1 DEF AdoptedWith, MapsOf, IsMap
      <3> QED BY <2>1, <3>1, <3>2, <3>3 DEF TwoChainOf, HeadWith
    <2>2. CASE d \notin b.adopted
      <3>1. d = k /\ k \in AdoptedWith(b, k)
        BY <1>3, <2>2 DEF AdoptedWith
      <3> QED BY <1>1, <3>1 DEF HeadWith
    <2> QED BY <2>1, <2>2
  <1>4. ASSUME NEW d \in FinalizedBy(b, k)
        PROVE  /\ d = b.last_macro_hash
               /\ d \in Hash \ {Genesis}
               /\ HeightOf(d) + 1 = b.next_height
    <2>1. PICK head \in HeadWith(b, k) : HeightOf(d) + 1 = HeightOf(head) /\ ParentOf(head) = d
      BY <1>4 DEF FinalizedBy
    <2>2. d \in AdoptedWith(b, k)
      BY <1>4 DEF FinalizedBy
    <2> QED BY <1>2, <1>3, <2>1, <2>2
  <1> QED BY <1>2, <1>3, <1>4

\* A prefix is what agrees element by element.
LEMMA PrefixElements ==
    ASSUME NEW s \in Seq(Window), NEW t \in Seq(Window), Len(s) <= Len(t)
    PROVE  Prefix(s, t) <=> \A i \in 1 .. Len(s) : s[i] = t[i]
  <1> DEFINE l == Len(s)
             p == SubSeq(t, 1, l)
  <1>1. l \in Nat /\ Len(t) \in Nat /\ \A i \in 1 .. Len(t) : t[i] \in Window
    BY LenProperties, ElementOfSeq
  <1>2. \A i \in 1 .. l : t[i] \in Window
    BY <1>1
  <1>p. Prefix(s, t) <=> s = p
    BY DEF Prefix
  <1> HIDE DEF l
  <1>3. /\ p \in Seq(Window)
        /\ Len(p) = IF 1 <= l THEN l - 1 + 1 ELSE 0
        /\ \A i \in 1 .. l - 1 + 1 : p[i] = t[1 + i - 1]
    BY <1>1, <1>2, SubSeqProperties
  <1> HIDE DEF p
  <1>4. Len(p) = l /\ \A i \in 1 .. l : p[i] = t[i]
    BY <1>1, <1>3
  <1>5. (\A i \in 1 .. l : s[i] = p[i]) => s = p
    BY <1>3, <1>4, SeqEqual DEF l
  <1> QED BY <1>p, <1>4, <1>5 DEF l

\* Prefixes of checkpoints.
LEMMA PrefixFacts ==
    /\ \A s \in Hash : Prefix(s, s)
    /\ \A k \in Hash \ {Genesis} : Prefix(ParentOf(k), k)
    /\ \A s, t, u \in Hash : Prefix(s, t) /\ Prefix(t, u) => Prefix(s, u)
    /\ \A s \in Hash : Prefix(Genesis, s)
  <1>1. ASSUME NEW s \in Hash PROVE Prefix(s, s)
    <2>1. s \in Seq(Window) /\ Len(s) \in Nat
      BY LenProperties DEF Hash
    <2>2. SubSeq(s, 1, Len(s)) = s
      BY <2>1, SubSeqFull
    <2> QED BY <2>1, <2>2 DEF Prefix
  <1>2. ASSUME NEW k \in Hash \ {Genesis} PROVE Prefix(ParentOf(k), k)
    <2>1. Len(k) \in Nat \ {0} /\ Len(ParentOf(k)) = Len(k) - 1
      BY CheckpointFacts
    <2>2. ParentOf(k) = SubSeq(k, 1, Len(ParentOf(k)))
      BY <2>1 DEF ParentOf
    <2> QED BY <2>1, <2>2 DEF Prefix
  <1>3. ASSUME NEW s \in Hash, NEW t \in Hash, NEW u \in Hash, Prefix(s, t), Prefix(t, u)
        PROVE  Prefix(s, u)
    <2>1. /\ s \in Seq(Window) /\ Len(s) \in Nat
          /\ t \in Seq(Window) /\ Len(t) \in Nat
          /\ u \in Seq(Window) /\ Len(u) \in Nat
      BY LenProperties DEF Hash
    <2>2. Len(s) <= Len(t) /\ Len(t) <= Len(u) /\ Len(s) <= Len(u)
      BY <1>3, <2>1 DEF Prefix
    <2>3. \A i \in 1 .. Len(s) : s[i] = t[i]
      BY <1>3, <2>1, <2>2, PrefixElements
    <2>4. \A i \in 1 .. Len(t) : t[i] = u[i]
      BY <1>3, <2>1, <2>2, PrefixElements
    <2>5. \A i \in 1 .. Len(s) : s[i] = u[i]
      BY <2>1, <2>2, <2>3, <2>4
    <2> QED BY <2>1, <2>2, <2>5, PrefixElements
  <1>4. ASSUME NEW s \in Hash PROVE Prefix(Genesis, s)
    <2>1. Len(s) \in Nat /\ Len(Genesis) = 0
      BY LenProperties, EmptySeq DEF Hash, Genesis
    <2>2. SubSeq(s, 1, 0) = << >>
      BY SubSeqEmpty
    <2> QED BY <2>1, <2>2 DEF Prefix, Genesis
  <1> QED BY <1>1, <1>2, <1>3, <1>4

LEMMA SetTierFacts ==
    ASSUME NEW S, NEW cs, NEW tier, NEW c, NEW t
    PROVE  <<c, t>> \in SetTier(S, cs, tier)
               <=> (<<c, t>> \in S /\ c \notin cs) \/ (c \in cs /\ t = tier)
  BY DEF SetTier

\* The tiers after the adoption of k.
LEMMA TiersWithFacts ==
    ASSUME NEW b, NEW k, NEW c, NEW t
    PROVE  LET below == UNION {CandidateAt(b, HeightOf(d)) : d \in FinalizedBy(b, k)} IN
           <<c, t>> \in TiersWith(b, k)
               <=> \/ c \in below /\ t = "Finalized"
                   \/ c \notin below /\ c = k /\ t = "Justified"
                   \/ c \notin below /\ c # k /\ <<c, t>> \in b.blob_status
  <1> DEFINE below == UNION {CandidateAt(b, HeightOf(d)) : d \in FinalizedBy(b, k)}
             S == SetTier(b.blob_status, {k}, "Justified")
  <1>1. <<c, t>> \in S <=> (<<c, t>> \in b.blob_status /\ c # k) \/ (c = k /\ t = "Justified")
    BY SetTierFacts
  <1>2. TiersWith(b, k) = SetTier(S, below, "Finalized")
    BY DEF TiersWith
  <1> HIDE DEF S, below
  <1>3. <<c, t>> \in SetTier(S, below, "Finalized")
          <=> (<<c, t>> \in S /\ c \notin below) \/ (c \in below /\ t = "Finalized")
    BY SetTierFacts
  <1>4. <<c, t>> \in TiersWith(b, k)
          <=> \/ c \in below /\ t = "Finalized"
              \/ c \notin below /\ c = k /\ t = "Justified"
              \/ c \notin below /\ c # k /\ <<c, t>> \in b.blob_status
    BY <1>1, <1>2, <1>3
  <1> QED BY <1>4 DEF below

LEMMA FinalInit == Init => FinalInv
  <1> SUFFICES ASSUME Init PROVE FinalInv
    OBVIOUS
  <1>1. SafeInv
    BY SafeInit
  <1>2. FinalOf(NewBook)
    BY BoundAssumption DEF FinalOf, TwoChainOf, LagOf, LeakOf, TiersOf, NewBook
  <1> QED BY <1>1, <1>2 DEF FinalInv, Init

\* A step that leaves the chain and the two-chain rule alone.
LEMMA SameFinal ==
    ASSUME NEW b, NEW c, FinalOf(b), SameChain(b, c), SameTwoChain(b, c)
    PROVE  FinalOf(c)
  <1>1. TwoChainOf(c)
    BY DEF FinalOf, TwoChainOf, SameChain, SameTwoChain
  <1>2. LagOf(c)
    BY DEF FinalOf, LagOf, SameChain, SameTwoChain
  <1>3. LeakTrigger > 0 => LeakOf(c)
    BY DEF FinalOf, LeakOf, SameTwoChain
  <1>4. TiersOf(c)
    BY DEF FinalOf, TiersOf, SameChain, SameTwoChain
  <1> QED BY <1>1, <1>2, <1>3, <1>4 DEF FinalOf

LEMMA VotedFinal ==
    ASSUME NEW n \in Honest, NEW c, book[n] \in MacroBook, MapsOf(book[n]), FinalOf(book[n]),
           NEW k \in book[n].candidate, Voted(n, c, k)
    PROVE  FinalOf(c)
  <1> DEFINE b == book[n]
  <1>1. k \in Hash \ {Genesis} /\ b \in MacroBook /\ FinalOf(b) /\ MapsOf(b)
    BY DEF MacroBook
  <1>2. /\ HeightOf(k) = b.next_height
        /\ ParentOf(k) = b.last_macro_hash
        /\ c.next_height = b.next_height
        /\ c.last_macro_hash = b.last_macro_hash
        /\ c.adopted = AdoptedWith(b, k)
        /\ c.justified_head = HeadWith(b, k)
        /\ c.finalized_head = b.finalized_head
        /\ c.unfinalized_windows = b.unfinalized_windows
        /\ c.leak_notified = b.leak_notified
        /\ c.blob_status = SetTier(b.blob_status, {k}, "SoftConfirmed")
    BY DEF Voted, SameChain
  <1> HIDE DEF b
  <1>3. TwoChainOf(c)
    <2>1. \A d \in AdoptedWith(b, k) :
             /\ HeightOf(d) <= b.next_height
             /\ HeightOf(d) = b.next_height =>
                    HeadWith(b, k) = {d} /\ ParentOf(d) = b.last_macro_hash
      BY <1>1, <1>2, HeadFacts DEF FinalOf
    <2> QED BY <1>1, <1>2, <2>1 DEF FinalOf, TwoChainOf
  <1>4. LagOf(c)
    BY <1>1, <1>2 DEF FinalOf, LagOf
  <1>5. LeakTrigger > 0 => LeakOf(c)
    BY <1>1, <1>2 DEF FinalOf, LeakOf
  <1>6. TiersOf(c)
    <2> SUFFICES ASSUME NEW d \in Hash, NEW t \in Tier, <<d, t>> \in c.blob_status
                 PROVE  d # Genesis /\ (t # "SoftConfirmed" => HeightOf(d) < c.next_height)
      BY DEF TiersOf
    <2>1. <<d, t>> \in b.blob_status \/ (d = k /\ t = "SoftConfirmed")
      BY <1>2, SetTierFacts
    <2> QED BY <1>1, <1>2, <2>1 DEF FinalOf, TiersOf
  <1> QED BY <1>3, <1>4, <1>5, <1>6 DEF FinalOf

LEMMA AdoptedFinal ==
    ASSUME NEW n \in Honest, NEW c, book[n] \in MacroBook, MapsOf(book[n]), FinalOf(book[n]),
           NEW k \in book[n].candidate, QcAdopted(n, c, k)
    PROVE  FinalOf(c)
  <1> DEFINE b == book[n]
             fin == FinalizedBy(b, k)
  <1>1. k \in Hash \ {Genesis} /\ b \in MacroBook /\ FinalOf(b) /\ MapsOf(b)
    BY DEF MacroBook
  <1>2. /\ HeightOf(k) = b.next_height
        /\ ParentOf(k) = b.last_macro_hash
        /\ c.next_height = HeightOf(k) + 1
        /\ c.last_macro_hash = k
        /\ c.adopted = AdoptedWith(b, k)
        /\ c.justified_head = HeadWith(b, k)
        /\ c.finalized_head = IF fin # {} THEN fin ELSE b.finalized_head
        /\ c.unfinalized_windows = IF fin # {} THEN 0 ELSE b.unfinalized_windows + 1
        /\ c.leak_notified <=> fin = {} /\ (b.leak_notified \/ c.unfinalized_windows >= LeakTrigger)
        /\ c.blob_status = TiersWith(b, k)
    BY DEF QcAdopted
  <1> HIDE DEF b
  <1>3. /\ \A d \in AdoptedWith(b, k) : d \in Hash \ {Genesis} /\ HeightOf(d) <= b.next_height
        /\ \A d \in fin : /\ d = b.last_macro_hash
                          /\ d \in Hash \ {Genesis}
                          /\ HeightOf(d) + 1 = b.next_height
    BY <1>1, <1>2, HeadFacts DEF FinalOf
  <1>4. b.next_height \in Nat /\ b.unfinalized_windows \in Nat /\ b.last_macro_hash \in Hash
    BY <1>1 DEF MacroBook
  <1>t. TiersOf(c)
    <2> SUFFICES ASSUME NEW d \in Hash, NEW t \in Tier, <<d, t>> \in c.blob_status
                 PROVE  d # Genesis /\ (t # "SoftConfirmed" => HeightOf(d) < c.next_height)
      BY DEF TiersOf
    <2> DEFINE below == UNION {CandidateAt(b, HeightOf(e)) : e \in fin}
    <2>1. \/ d \in below /\ t = "Finalized"
          \/ d = k /\ t = "Justified"
          \/ <<d, t>> \in b.blob_status
      BY <1>2, TiersWithFacts
    <2>2. CASE d \in below
      <3>1. PICK e \in fin : d \in CandidateAt(b, HeightOf(e))
        BY <2>2
      <3>2. d \in Hash \ {Genesis} /\ HeightOf(d) = HeightOf(e)
        BY <1>1, <3>1 DEF CandidateAt, MacroBook
      <3>3. HeightOf(e) \in Nat /\ HeightOf(e) + 1 = b.next_height
        BY <1>3, CheckpointFacts
      <3> QED BY <1>2, <1>4, <3>2, <3>3
    <2>3. CASE d = k
      BY <1>1, <1>2, <1>4, <2>3
    <2>4. CASE <<d, t>> \in b.blob_status
      <3>1. d # Genesis /\ (t # "SoftConfirmed" => HeightOf(d) < b.next_height)
        BY <1>1, <2>4 DEF FinalOf, TiersOf
      <3>2. HeightOf(d) \in Nat
        BY <3>1, CheckpointFacts
      <3> QED BY <1>2, <1>4, <3>1, <3>2
    <2> QED BY <2>1, <2>2, <2>3, <2>4
  <1> HIDE DEF fin
  <1>5. TwoChainOf(c)
    <2>1. ASSUME NEW d \in c.adopted
          PROVE  HeightOf(d) < c.next_height /\ HeightOf(d) # c.next_height
                     /\ HeightOf(d) <= c.next_height
      <3>1. d \in Hash \ {Genesis} /\ HeightOf(d) <= b.next_height
        BY <1>2, <1>3, <2>1
      <3>2. HeightOf(d) \in Nat
        BY <3>1, CheckpointFacts
      <3> QED BY <1>2, <1>4, <3>1, <3>2
    <2>2. c.finalized_head \subseteq Hash \ {Genesis}
      BY <1>1, <1>2, <1>3 DEF FinalOf, TwoChainOf
    <2>3. ASSUME NEW d \in c.finalized_head PROVE Prefix(d, k)
      <3>1. Prefix(d, b.last_macro_hash)
        BY <1>1, <1>2, <1>3, <1>4, PrefixFacts DEF FinalOf, TwoChainOf
      <3>2. Prefix(b.last_macro_hash, k)
        BY <1>1, <1>2, PrefixFacts
      <3> QED BY <1>1, <1>4, <2>2, <3>1, <3>2, PrefixFacts
    <2> QED BY <1>2, <2>1, <2>2, <2>3 DEF TwoChainOf
  <1>6. LagOf(c)
    <2>1. CASE fin = {}
      <3>1. /\ c.finalized_head = b.finalized_head
            /\ c.unfinalized_windows = b.unfinalized_windows + 1
            /\ c.next_height = b.next_height + 1
        BY <1>2, <2>1
      <3>2. \A d \in b.finalized_head : HeightOf(d) \in Nat
        BY <1>1, CheckpointFacts DEF FinalOf, TwoChainOf
      <3>3. LagOf(b)
        BY <1>1 DEF FinalOf
      <3> QED BY <1>4, <3>1, <3>2, <3>3 DEF LagOf
    <2>2. CASE fin # {}
      <3>1. /\ c.finalized_head = fin
            /\ c.unfinalized_windows = 0
            /\ c.next_height = b.next_height + 1
        BY <1>2, <2>2
      <3>2. \A d \in fin : HeightOf(d) \in Nat /\ HeightOf(d) + 1 = b.next_height
        BY <1>3, CheckpointFacts
      <3> QED BY <1>4, <2>2, <3>1, <3>2 DEF LagOf
    <2> QED BY <2>1, <2>2
  <1>7. LeakTrigger > 0 => LeakOf(c)
    <2> SUFFICES ASSUME LeakTrigger > 0 PROVE LeakOf(c)
      OBVIOUS
    <2>1. LeakTrigger \in Nat /\ LeakOf(b)
      BY <1>1, BoundAssumption DEF FinalOf
    <2>2. CASE fin = {}
      <3>1. c.unfinalized_windows = b.unfinalized_windows + 1
        BY <1>2, <2>2
      <3> QED BY <1>2, <1>4, <2>1, <2>2, <3>1 DEF LeakOf
    <2>3. CASE fin # {}
      <3>1. c.unfinalized_windows = 0
        BY <1>2, <2>3
      <3> QED BY <1>2, <2>1, <2>3, <3>1 DEF LeakOf
    <2> QED BY <2>2, <2>3
  <1> QED BY <1>t, <1>5, <1>6, <1>7 DEF FinalOf

LEMMA FinalStep ==
    ASSUME FinalInv, NEW n \in Honest, NEW c \in MacroBook, BookStep(n, c)
    PROVE  FinalOf(c)
  <1>1. book[n] \in MacroBook /\ MapsOf(book[n]) /\ FinalOf(book[n])
    BY DEF FinalInv, SafeInv, Types, BookOf
  <1>2. CASE Quiet(n, c)
    BY <1>1, <1>2, SameFinal DEF Quiet
  <1>3. ASSUME NEW m \in Micro, MicroTaken(n, c, m) PROVE FinalOf(c)
    BY <1>1, <1>3, SameFinal DEF MicroTaken
  <1>4. ASSUME NEW k \in book[n].candidate, Voted(n, c, k) PROVE FinalOf(c)
    BY <1>1, <1>4, VotedFinal
  <1>5. ASSUME NEW k \in book[n].candidate, QcAdopted(n, c, k) PROVE FinalOf(c)
    BY <1>1, <1>5, AdoptedFinal
  <1> QED BY <1>2, <1>3, <1>4, <1>5 DEF BookStep

LEMMA FinalNext == FinalInv /\ [Next]_vars => FinalInv'
  <1> SUFFICES ASSUME FinalInv, [Next]_vars PROVE FinalInv'
    OBVIOUS
  <1>1. SafeInv'
    BY SafeNext DEF FinalInv
  <1>2. book \in [Honest -> MacroBook]
    BY DEF FinalInv, SafeInv, Types
  <1>3. CASE Next
    <2>1. PICK n \in Honest : \/ \E c \in MacroBook : BookStep(n, c)
                              \/ \E k \in book[n].candidate : ForgetfulQc(n, k)
      BY <1>3, StepKinds DEF FinalInv
    <2>2. ASSUME NEW c \in MacroBook, BookStep(n, c) PROVE \A m \in Honest : FinalOf(book'[m])
      <3>1. FinalOf(c)
        BY <2>2, FinalStep
      <3>2. book' = [book EXCEPT ![n] = c]
        BY <2>2 DEF BookStep
      <3> QED BY <1>2, <3>1, <3>2 DEF FinalInv
    <2>3. ASSUME NEW k \in book[n].candidate, ForgetfulQc(n, k) PROVE \A m \in Honest : FinalOf(book'[m])
      BY <2>3 DEF ForgetfulQc, FinalInv
    <2> QED BY <1>1, <2>1, <2>2, <2>3 DEF FinalInv
  <1>4. CASE UNCHANGED vars
    BY <1>1, <1>4 DEF vars, FinalInv
  <1> QED BY <1>3, <1>4

LEMMA FinalInvariant == Spec => []FinalInv
  BY FinalInit, FinalNext, PTL DEF Spec

\* unfinalized_windows is the number of adopted checkpoints above the finalized
\* head less one, and the leak is announced exactly while that has reached the
\* trigger, provided that the trigger is not 0 (then the leak is announced with
\* the first adoption only).
THEOREM LagMeasured ==
    ASSUME LeakTrigger > 0
    PROVE  Spec => []LeakMeasuresLag
  <1>1. FinalInv => LeakMeasuresLag
    BY DEF FinalInv, FinalOf, LagOf, LeakOf, LeakMeasuresLag
  <1> QED BY <1>1, FinalInvariant, PTL

-----------------------------------------------------------------------------
(***************************************************************************)
(* Tiers.                                                                  *)
(***************************************************************************)

\* The tier of d in book c of n after a step is not below the one before.
LEMMA RankStep ==
    ASSUME FinalInv, NEW n \in Honest, NEW c \in MacroBook, BookStep(n, c), NEW d \in Hash
    PROVE  Rank(c, d) >= Rank(book[n], d)
  <1> DEFINE b == book[n]
  <1>1. b \in MacroBook /\ TiersOf(b)
    BY DEF FinalInv, FinalOf, SafeInv, Types
  <1>2. CASE c.blob_status = b.blob_status
    BY <1>2 DEF Rank
  <1>3. ASSUME NEW k \in b.candidate, HeightOf(k) = b.next_height
        PROVE  <<k, "Justified">> \notin b.blob_status /\ <<k, "Finalized">> \notin b.blob_status
    <2>1. k \in Hash \ {Genesis} /\ b.next_height \in Nat
      BY <1>1 DEF MacroBook
    <2>2. "Justified" \in Tier /\ "Finalized" \in Tier
      BY DEF Tier
    <2> QED BY <1>1, <1>3, <2>1, <2>2 DEF TiersOf
  <1>4. ASSUME NEW k \in b.candidate, Voted(n, c, k) PROVE Rank(c, d) >= Rank(b, d)
    <2>1. c.blob_status = SetTier(b.blob_status, {k}, "SoftConfirmed") /\ HeightOf(k) = b.next_height
      BY <1>4 DEF Voted
    <2>2. \A t : <<d, t>> \in c.blob_status
                   <=> (<<d, t>> \in b.blob_status /\ d # k) \/ (d = k /\ t = "SoftConfirmed")
      BY <2>1, SetTierFacts
    <2>3. CASE d = k
      <3>1. <<d, "Justified">> \notin b.blob_status /\ <<d, "Finalized">> \notin b.blob_status
        BY <1>3, <2>1, <2>3
      <3>2. /\ <<d, "SoftConfirmed">> \in c.blob_status
            /\ <<d, "Justified">> \notin c.blob_status /\ <<d, "Finalized">> \notin c.blob_status
        BY <2>2, <2>3
      <3>3. Rank(b, d) \in {0, 1} /\ Rank(c, d) = 1
        BY <3>1, <3>2 DEF Rank
      <3> QED BY <3>3
    <2>4. CASE d # k
      BY <2>2, <2>4 DEF Rank
    <2> QED BY <2>3, <2>4
  <1>5. ASSUME NEW k \in b.candidate, QcAdopted(n, c, k) PROVE Rank(c, d) >= Rank(b, d)
    <2> DEFINE below == UNION {CandidateAt(b, HeightOf(e)) : e \in FinalizedBy(b, k)}
    <2>1. c.blob_status = TiersWith(b, k) /\ HeightOf(k) = b.next_height
      BY <1>5 DEF QcAdopted
    <2>2. \A t : <<d, t>> \in c.blob_status
                   <=> \/ d \in below /\ t = "Finalized"
                       \/ d \notin below /\ d = k /\ t = "Justified"
                       \/ d \notin below /\ d # k /\ <<d, t>> \in b.blob_status
      BY <2>1, TiersWithFacts
    <2> HIDE DEF below
    <2>3. CASE d \in below
      BY <2>2, <2>3 DEF Rank
    <2>4. CASE d \notin below /\ d = k
      BY <1>3, <2>1, <2>2, <2>4 DEF Rank
    <2>5. CASE d \notin below /\ d # k
      BY <2>2, <2>5 DEF Rank
    <2> QED BY <2>3, <2>4, <2>5
  <1>6. \/ c.blob_status = b.blob_status
        \/ \E k \in b.candidate : Voted(n, c, k) \/ QcAdopted(n, c, k)
    BY DEF BookStep, Quiet, MicroTaken, SameTwoChain
  <1> QED BY <1>2, <1>4, <1>5, <1>6

\* The tier of a checkpoint, soft-confirmed, justified or finalized, never falls,
\* although a vote writes SoftConfirmed and adoption rewrites the tiers of whole
\* heights.
THEOREM TiersRise == Spec => TierNeverFalls
  <1> DEFINE Rises == \A n \in Honest : \A x \in book[n].blob_status :
                          Rank(book'[n], x[1]) >= Rank(book[n], x[1])
  <1>1. FinalInv /\ [Next]_vars => [Rises]_vars
    <2> SUFFICES ASSUME FinalInv, Next PROVE Rises
      OBVIOUS
    <2>1. book \in [Honest -> MacroBook]
      BY DEF FinalInv, SafeInv, Types
    <2>2. ASSUME NEW m \in Honest, book'[m] = book[m], NEW d
          PROVE  Rank(book'[m], d) >= Rank(book[m], d)
      BY <2>2 DEF Rank
    <2>3. PICK n \in Honest : \/ \E c \in MacroBook : BookStep(n, c)
                              \/ \E k \in book[n].candidate : ForgetfulQc(n, k)
      BY StepKinds DEF FinalInv
    <2>4. ASSUME NEW k \in book[n].candidate, ForgetfulQc(n, k) PROVE Rises
      BY <2>2, <2>4 DEF ForgetfulQc
    <2>5. ASSUME NEW c \in MacroBook, BookStep(n, c) PROVE Rises
      <3> SUFFICES ASSUME NEW m \in Honest, NEW x \in book[m].blob_status
                   PROVE  Rank(book'[m], x[1]) >= Rank(book[m], x[1])
        OBVIOUS
      <3>1. book' = [book EXCEPT ![n] = c]
        BY <2>5 DEF BookStep
      <3>2. x[1] \in Hash
        BY <2>1 DEF MacroBook
      <3>3. CASE m = n
        BY <2>1, <2>5, <3>1, <3>2, <3>3, RankStep
      <3>4. CASE m # n
        BY <2>1, <2>2, <3>1, <3>4
      <3> QED BY <3>3, <3>4
    <2> QED BY <2>3, <2>4, <2>5
  <1> QED BY <1>1, FinalInvariant, PTL DEF Spec, TierNeverFalls

-----------------------------------------------------------------------------
(***************************************************************************)
(* Micro checkpoints.  A window that is built but replaced before it is    *)
(* adopted is lost; what is adopted and what is still in the ring never    *)
(* overlap, because L2 hands every micro checkpoint over once.             *)
(***************************************************************************)

RingOf(b) == {b.micro_ring[i] : i \in 1 .. Len(b.micro_ring)}
MicrosOf(c) == {c[i].root[k] : i \in 1 .. Len(c), k \in 1 .. W}

\* Every window of c is full and no micro checkpoint is in it twice.
FullWindows(c) == \A i \in 1 .. Len(c) : Len(c[i].root) = W
NoneTwice(c) == \A i, j \in 1 .. Len(c) : \A k, l \in 1 .. W :
                    c[i].root[k] = c[j].root[l] => i = j /\ k = l

\* E is the set of micro checkpoints that the validator's L2 has emitted.
CoverOf(b, E) ==
    /\ Len(b.micro_ring) < W
    /\ \A i, j \in 1 .. Len(b.micro_ring) : b.micro_ring[i] = b.micro_ring[j] => i = j
    /\ RingOf(b) \subseteq E
    /\ \A c \in b.candidate \cup {b.last_macro_hash} :
           /\ FullWindows(c) /\ NoneTwice(c)
           /\ MicrosOf(c) \subseteq E /\ MicrosOf(c) \cap RingOf(b) = {}

CoverInv == SafeInv /\ \A n \in Honest : CoverOf(book[n], emitted[n])

LEMMA CoverInit == Init => CoverInv
  <1> SUFFICES ASSUME Init PROVE CoverInv
    OBVIOUS
  <1>1. SafeInv
    BY SafeInit
  <1>2. Len(Genesis) = 0 /\ Len(NewBook.micro_ring) = 0
    BY EmptySeq DEF NewBook, Genesis
  <1>3. CoverOf(NewBook, {})
    <2>1. RingOf(NewBook) = {} /\ MicrosOf(Genesis) = {} /\ FullWindows(Genesis) /\ NoneTwice(Genesis)
      BY <1>2 DEF RingOf, MicrosOf, FullWindows, NoneTwice
    <2>2. NewBook.candidate = {} /\ NewBook.last_macro_hash = Genesis
      BY DEF NewBook
    <2>3. 0 < W
      BY BoundAssumption
    <2> QED BY <1>2, <2>1, <2>2, <2>3 DEF CoverOf
  <1> QED BY <1>1, <1>3 DEF CoverInv, Init

\* The ring grows by a micro checkpoint that was not emitted before.
LEMMA CoverPushed ==
    ASSUME NEW b \in MacroBook, NEW c, NEW E, NEW m \in Micro, CoverOf(b, E), m \notin E,
           Len(b.micro_ring) + 1 < W,
           c.micro_ring = Append(b.micro_ring, m),
           c.candidate = b.candidate, c.last_macro_hash = b.last_macro_hash
    PROVE  CoverOf(c, E \cup {m})
  <1> DEFINE r == b.micro_ring
             s == c.micro_ring
  <1>1. r \in Seq(Micro) /\ Len(r) \in Nat
    BY LenProperties DEF MacroBook
  <1>2. /\ Len(s) = Len(r) + 1
        /\ \A i \in 1 .. Len(r) : s[i] = r[i]
        /\ s[Len(r) + 1] = m
    BY <1>1, AppendProperties
  <1>3. \A i \in 1 .. Len(r) : r[i] \in E /\ r[i] # m
    BY DEF CoverOf, RingOf
  <1>4. \A i \in 1 .. Len(s) : i \in 1 .. Len(r) \/ i = Len(r) + 1
    BY <1>1, <1>2
  <1>5. \A i, j \in 1 .. Len(r) : r[i] = r[j] => i = j
    BY DEF CoverOf
  <1>6. RingOf(c) = RingOf(b) \cup {m}
    <2> HIDE DEF r, s
    <2>1. \A i \in 1 .. Len(r) : i \in 1 .. Len(s)
      BY <1>1, <1>2
    <2>2. Len(r) + 1 \in 1 .. Len(s)
      BY <1>1, <1>2
    <2> QED BY <1>2, <1>4, <2>1, <2>2 DEF RingOf, r, s
  <1>7. \A i, j \in 1 .. Len(s) : s[i] = s[j] => i = j
    <2> HIDE DEF r, s
    <2> QED BY <1>2, <1>3, <1>4, <1>5
  <1> HIDE DEF r
  <1>8. Len(s) < W
    BY <1>2 DEF r
  <1> QED BY <1>6, <1>7, <1>8 DEF CoverOf

\* Checkpoint c covers micro checkpoints of E, each of them once.
CoversOnce(c, E) == FullWindows(c) /\ NoneTwice(c) /\ MicrosOf(c) \subseteq E

\* Ring s is full of micro checkpoints of E that p does not cover.
FreshRing(s, p, E) == /\ Len(s) = W
                      /\ \A i, j \in 1 .. W : s[i] = s[j] => i = j
                      /\ \A i \in 1 .. W : s[i] \in E /\ s[i] \notin MicrosOf(p)

\* The windows of the checkpoint that is built from ring s on top of p.
LEMMA WindowAdded ==
    ASSUME NEW h \in Height, NEW p \in Hash, NEW s \in Seq(Micro), NEW E,
           CoversOnce(p, E), FreshRing(s, p, E)
    PROVE  CoversOnce(build(h, p, s), E)
  <1> DEFINE k == build(h, p, s)
  <1>a. FullWindows(p) /\ NoneTwice(p) /\ MicrosOf(p) \subseteq E
    BY DEF CoversOnce
  <1>b. /\ Len(s) = W
        /\ \A i, j \in 1 .. W : s[i] = s[j] => i = j
        /\ \A i \in 1 .. W : s[i] \in E /\ s[i] \notin MicrosOf(p)
    BY DEF FreshRing
  <1>c. Len(k) = Len(p) + 1 /\ k[Len(k)].root = s /\ \A i \in 1 .. Len(p) : k[i] = p[i]
    BY BuildFacts
  <1> HIDE DEF k
  <1>1. Len(p) \in Nat
    BY LenProperties DEF Hash
  <1>2. \A i \in 1 .. Len(k) : i \in 1 .. Len(p) \/ i = Len(p) + 1
    BY <1>1, <1>c
  <1>3. \A i \in 1 .. Len(p), x \in 1 .. W : k[i].root[x] \in MicrosOf(p) /\ k[i].root[x] = p[i].root[x]
    BY <1>c DEF MicrosOf
  <1>4. \A x \in 1 .. W : k[Len(p) + 1].root[x] = s[x]
    BY <1>c
  <1>5. FullWindows(k)
    BY <1>2, <1>a, <1>b, <1>c DEF FullWindows
  <1>6. NoneTwice(k)
    <2> SUFFICES ASSUME NEW i \in 1 .. Len(k), NEW j \in 1 .. Len(k),
                        NEW x \in 1 .. W, NEW y \in 1 .. W, k[i].root[x] = k[j].root[y]
                 PROVE  i = j /\ x = y
      BY DEF NoneTwice
    <2>1. CASE i \in 1 .. Len(p) /\ j \in 1 .. Len(p)
      BY <1>3, <1>a, <2>1 DEF NoneTwice
    <2>2. CASE i = Len(p) + 1 /\ j = Len(p) + 1
      BY <1>4, <1>b, <2>2
    <2>3. CASE i \in 1 .. Len(p) /\ j = Len(p) + 1
      BY <1>3, <1>4, <1>b, <2>3
    <2>4. CASE i = Len(p) + 1 /\ j \in 1 .. Len(p)
      BY <1>3, <1>4, <1>b, <2>4
    <2> QED BY <1>2, <2>1, <2>2, <2>3, <2>4
  <1>7. MicrosOf(k) \subseteq E
    <2> SUFFICES ASSUME NEW i \in 1 .. Len(k), NEW x \in 1 .. W PROVE k[i].root[x] \in E
      BY DEF MicrosOf
    <2> QED BY <1>2, <1>3, <1>4, <1>a, <1>b
  <1> QED BY <1>5, <1>6, <1>7 DEF CoversOnce, k

\* The micro checkpoint that fills the ring: the ring becomes a window.
LEMMA CoverBuilt ==
    ASSUME NEW b \in MacroBook, NEW c, NEW E, NEW m \in Micro, CoverOf(b, E), m \notin E,
           Len(b.micro_ring) + 1 >= W, b.next_height \in Height,
           NEW k, k = build(b.next_height, b.last_macro_hash, Append(b.micro_ring, m)),
           c.micro_ring = << >>,
           c.candidate = CandidatesWith(b, k), c.last_macro_hash = b.last_macro_hash
    PROVE  CoverOf(c, E \cup {m})
  <1> DEFINE r == b.micro_ring
             s == Append(r, m)
             p == b.last_macro_hash
             h == b.next_height
             G == E \cup {m}
  <1>1. r \in Seq(Micro) /\ Len(r) \in Nat /\ p \in Hash
    BY LenProperties DEF MacroBook
  <1>2. /\ s \in Seq(Micro)
        /\ Len(s) = Len(r) + 1
        /\ \A i \in 1 .. Len(r) : s[i] = r[i]
        /\ s[Len(r) + 1] = m
    BY <1>1, AppendProperties
  <1>3. W \in Nat /\ Len(r) < W
    BY BoundAssumption DEF CoverOf
  <1>4. Len(r) + 1 >= W
    OBVIOUS
  <1>5. /\ \A i, j \in 1 .. Len(r) : r[i] = r[j] => i = j
        /\ \A i \in 1 .. Len(r) : r[i] \in RingOf(b)
        /\ RingOf(b) \subseteq E
        /\ FullWindows(p) /\ NoneTwice(p)
        /\ MicrosOf(p) \subseteq E /\ MicrosOf(p) \cap RingOf(b) = {}
    BY DEF CoverOf, RingOf
  <1>6. k = build(h, p, s) /\ h \in Height
    OBVIOUS
  <1>7. CoversOnce(k, G)
    <2> HIDE DEF r, s, p, h
    <2>1. Len(s) = W /\ \A i \in 1 .. W : i \in 1 .. Len(r) \/ i = Len(r) + 1
      BY <1>1, <1>2, <1>3, <1>4
    <2>2. \A i \in 1 .. Len(r) : s[i] \in E /\ s[i] # m /\ s[i] \notin MicrosOf(p)
      BY <1>2, <1>5
    <2>3. m \notin MicrosOf(p)
      BY <1>5
    <2>4. \A i \in 1 .. W : s[i] \in G /\ s[i] \notin MicrosOf(p)
      BY <1>2, <2>1, <2>2, <2>3
    <2>5. \A i, j \in 1 .. W : s[i] = s[j] => i = j
      BY <1>2, <1>5, <2>1, <2>2
    <2>6. CoversOnce(p, G)
      BY <1>5 DEF CoversOnce
    <2>7. FreshRing(s, p, G)
      BY <2>1, <2>4, <2>5 DEF FreshRing
    <2> HIDE DEF G
    <2> QED BY <1>1, <1>2, <1>6, <2>6, <2>7, WindowAdded
  <1>8. Len(c.micro_ring) = 0 /\ RingOf(c) = {} /\ 0 < W
    BY <1>1, <1>3, EmptySeq DEF RingOf
  <1>9. ASSUME NEW d \in c.candidate \cup {c.last_macro_hash}
        PROVE  FullWindows(d) /\ NoneTwice(d) /\ MicrosOf(d) \subseteq G
    <2>1. d = k \/ d \in b.candidate \cup {p}
      BY DEF CandidatesWith
    <2>2. ASSUME d \in b.candidate \cup {p}
          PROVE FullWindows(d) /\ NoneTwice(d) /\ MicrosOf(d) \subseteq E
      BY <2>2 DEF CoverOf
    <2> QED BY <1>7, <2>1, <2>2 DEF CoversOnce
  <1> QED BY <1>8, <1>9 DEF CoverOf

LEMMA CoverStep ==
    ASSUME CoverInv, NEW n \in Honest, NEW c \in MacroBook, BookStep(n, c)
    PROVE  CoverOf(c, emitted'[n]) /\ \A m \in Honest \ {n} : emitted'[m] = emitted[m]
  <1> DEFINE b == book[n]
             E == emitted[n]
  <1>1. b \in MacroBook /\ CoverOf(b, E) /\ emitted \in [Honest -> SUBSET Micro]
    BY DEF CoverInv, SafeInv, Types
  <1>2. ASSUME c.micro_ring = b.micro_ring, c.candidate = b.candidate,
               c.last_macro_hash \in b.candidate \cup {b.last_macro_hash},
               UNCHANGED emitted
        PROVE  CoverOf(c, emitted'[n]) /\ \A m \in Honest \ {n} : emitted'[m] = emitted[m]
    <2>1. RingOf(c) = RingOf(b)
      BY <1>2 DEF RingOf
    <2>2. c.candidate \cup {c.last_macro_hash} \subseteq b.candidate \cup {b.last_macro_hash}
      BY <1>2
    <2> QED BY <1>1, <1>2, <2>1, <2>2 DEF CoverOf
  <1>3. CASE Quiet(n, c)
    BY <1>2, <1>3 DEF Quiet, SameChain
  <1>4. ASSUME NEW m \in Micro, MicroTaken(n, c, m)
        PROVE  CoverOf(c, emitted'[n]) /\ \A v \in Honest \ {n} : emitted'[v] = emitted[v]
    <2>1. /\ m \notin E
          /\ emitted'[n] = E \cup {m}
          /\ \A v \in Honest \ {n} : emitted'[v] = emitted[v]
          /\ c.last_macro_hash = b.last_macro_hash
      BY <1>1, <1>4 DEF MicroTaken, SameChain
    <2>2. CASE MicroPushed(n, c, m)
      <3>1. /\ Len(b.micro_ring) + 1 < W
            /\ c.micro_ring = Append(b.micro_ring, m)
            /\ c.candidate = b.candidate
        BY <2>2 DEF MicroPushed
      <3> HIDE DEF b, E
      <3> QED BY <1>1, <2>1, <3>1, CoverPushed
    <2>3. CASE MicroBuilt(n, c, m)
      <3> DEFINE k == build(b.next_height, b.last_macro_hash, Append(b.micro_ring, m))
      <3>1. /\ Len(b.micro_ring) + 1 >= W
            /\ b.next_height \in Height
            /\ c.micro_ring = << >>
            /\ c.candidate = CandidatesWith(b, k)
        BY <2>3 DEF MicroBuilt
      <3> HIDE DEF b, E
      <3> QED BY <1>1, <2>1, <3>1, CoverBuilt
    <2> QED BY <1>4, <2>1, <2>2, <2>3 DEF MicroTaken
  <1>5. ASSUME NEW k \in b.candidate, Voted(n, c, k) \/ QcAdopted(n, c, k)
        PROVE  CoverOf(c, emitted'[n]) /\ \A v \in Honest \ {n} : emitted'[v] = emitted[v]
    BY <1>2, <1>5 DEF Voted, QcAdopted, SameChain
  <1> QED BY <1>3, <1>4, <1>5 DEF BookStep

LEMMA CoverNext == CoverInv /\ [Next]_vars => CoverInv'
  <1> SUFFICES ASSUME CoverInv, [Next]_vars PROVE CoverInv'
    OBVIOUS
  <1>1. SafeInv'
    BY SafeNext DEF CoverInv
  <1>2. book \in [Honest -> MacroBook]
    BY DEF CoverInv, SafeInv, Types
  <1>3. CASE Next
    <2>1. PICK n \in Honest : \/ \E c \in MacroBook : BookStep(n, c)
                              \/ \E k \in book[n].candidate : ForgetfulQc(n, k)
      BY <1>3, StepKinds DEF CoverInv
    <2>2. ASSUME NEW c \in MacroBook, BookStep(n, c)
          PROVE  \A m \in Honest : CoverOf(book'[m], emitted'[m])
      <3>1. CoverOf(c, emitted'[n]) /\ \A m \in Honest \ {n} : emitted'[m] = emitted[m]
        BY <2>2, CoverStep
      <3>2. book' = [book EXCEPT ![n] = c]
        BY <2>2 DEF BookStep
      <3> QED BY <1>2, <3>1, <3>2 DEF CoverInv
    <2>3. ASSUME NEW k \in book[n].candidate, ForgetfulQc(n, k)
          PROVE  \A m \in Honest : CoverOf(book'[m], emitted'[m])
      BY <2>3 DEF ForgetfulQc, CoverInv
    <2> QED BY <1>1, <2>1, <2>2, <2>3 DEF CoverInv
  <1>4. CASE UNCHANGED vars
    BY <1>1, <1>4 DEF vars, CoverInv
  <1> QED BY <1>3, <1>4

\* Along the chain of every candidate each window holds W micro checkpoints and no
\* micro checkpoint is covered twice, however often candidates are replaced.
THEOREM MicrosOnce == Spec => []NoMicroTwice
  <1>1. CoverInv => NoMicroTwice
    <2> SUFFICES ASSUME CoverInv, NEW n \in Honest, NEW c \in book[n].candidate
                 PROVE  /\ \A i \in DOMAIN c : Len(c[i].root) = W
                        /\ \A i, j \in DOMAIN c : \A k, l \in 1 .. W :
                               c[i].root[k] = c[j].root[l] => i = j /\ k = l
      BY DEF NoMicroTwice
    <2>1. c \in Seq(Window)
      BY DEF CoverInv, SafeInv, Types, MacroBook, Hash
    <2>2. DOMAIN c = 1 .. Len(c)
      BY <2>1, LenProperties
    <2>3. FullWindows(c) /\ NoneTwice(c)
      BY DEF CoverInv, CoverOf
    <2> QED BY <2>2, <2>3 DEF FullWindows, NoneTwice
  <1> QED BY <1>1, CoverInit, CoverNext, PTL DEF Spec

-----------------------------------------------------------------------------
(***************************************************************************)
(* The refinement of MacroLog.  The checkpoints with a MacroQc are as many *)
(* as the longest of them is long, one of every length.                    *)
(***************************************************************************)

LogOf(Q) == /\ IsFiniteSet(Q)
            /\ \A c \in Q : Len(c) = HeightOf(c) + 1 /\ Len(c) \in 1 .. Cardinality(Q)
            /\ \A i \in 1 .. Cardinality(Q) : \E c \in Q : Len(c) = i

LogInv == FinalInv /\ LogOf(qcs)

LEMMA LogInit == Init => LogInv
  <1> SUFFICES ASSUME Init PROVE LogInv
    OBVIOUS
  <1>1. qcs = {} /\ Cardinality({}) = 0 /\ IsFiniteSet({})
    BY FS_EmptySet DEF Init
  <1> QED BY <1>1, FinalInit DEF LogInv, LogOf

\* A quorum for a candidate that has no MacroQc yet extends the log by one.
LEMMA NewQc ==
    ASSUME Cardinality(Validator) = 3 * F + 1, Cardinality(Forgetful) <= F,
           LogInv, NEW n \in Honest, NEW k \in book[n].candidate, k \notin qcs,
           Cardinality(SignersOf(partials, k)) >= quorum
    PROVE  /\ Len(k) = Cardinality(qcs) + 1
           /\ ParentOf(k) \in qcs \cup {Genesis}
           /\ LogOf(qcs \cup {k})
  <1> DEFINE b == book[n]
             N == Cardinality(qcs)
  <1>1. /\ b \in MacroBook
        /\ ChainOf(b, qcs)
        /\ CandidateOf(b, k)
        /\ OneVotePerHeight
        /\ QcsSigned(qcs, partials)
        /\ LogOf(qcs)
    BY DEF LogInv, FinalInv, SafeInv, Types, BookOf, ChainOf
  <1>2. k \in Hash \ {Genesis} /\ b.next_height \in Nat /\ HeightOf(k) \in Nat /\ Len(k) \in Nat
    BY <1>1, CheckpointFacts DEF MacroBook
  <1>3. HeightOf(k) = b.next_height
    BY <1>1, <1>2 DEF CandidateOf, ChainOf
  <1>4. ParentOf(k) = b.last_macro_hash /\ Len(k) = b.next_height + 1 /\ Len(k) = HeightOf(k) + 1
    BY <1>1, <1>3 DEF CandidateOf
  <1>5. b.last_macro_hash \in qcs \cup {Genesis} /\ Len(b.last_macro_hash) = b.next_height
    BY <1>1 DEF ChainOf
  <1>6. /\ N \in Nat
        /\ N + 1 = Cardinality(qcs \cup {k})
        /\ IsFiniteSet(qcs \cup {k})
    BY <1>1, FS_CardinalityType, FS_AddElement DEF LogOf
  <1>7. b.next_height <= N
    <2>1. CASE b.last_macro_hash \in qcs
      BY <1>1, <1>5, <1>6, <2>1 DEF LogOf
    <2>2. CASE b.last_macro_hash = Genesis
      BY <1>5, <1>6, <2>2, EmptySeq DEF Genesis
    <2> QED BY <1>5, <2>1, <2>2
  <1>8. Len(k) = N + 1
    <2>1. SUFFICES ASSUME Len(k) <= N PROVE FALSE
      BY <1>2, <1>4, <1>6, <1>7
    <2>2. PICK d \in qcs : Len(d) = Len(k)
      <3>1. Len(k) \in 1 .. N
        BY <1>2, <1>4, <1>6, <2>1
      <3> QED BY <1>1, <3>1 DEF LogOf
    <2>3. Len(d) = HeightOf(d) + 1 /\ d \in Hash \ {Genesis}
      BY <1>1 DEF LogOf, LogInv, FinalInv, SafeInv, Types
    <2>4. HeightOf(d) \in Nat
      BY <2>3, CheckpointFacts
    <2>5. HeightOf(d) = HeightOf(k)
      BY <1>2, <1>4, <2>2, <2>3, <2>4
    <2>6. Cardinality(SignersOf(partials, d)) >= quorum
      BY <1>1 DEF QcsSigned
    <2>7. d = k
      BY <1>1, <2>5, <2>6, QuorumsAgree
    <2> QED BY <2>7
  <1>9. LogOf(qcs \cup {k})
    <2> DEFINE M == Cardinality(qcs \cup {k})
    <2>1. M = N + 1
      BY <1>6
    <2> HIDE DEF M, N
    <2>2. ASSUME NEW c \in qcs \cup {k} PROVE Len(c) = HeightOf(c) + 1 /\ Len(c) \in 1 .. M
      <3>1. CASE c \in qcs
        BY <1>1, <1>6, <2>1, <3>1 DEF LogOf, N
      <3>2. CASE c = k
        BY <1>4, <1>6, <1>8, <2>1, <3>2
      <3> QED BY <3>1, <3>2
    <2>3. ASSUME NEW i \in 1 .. M PROVE \E c \in qcs \cup {k} : Len(c) = i
      <3>1. i \in 1 .. N \/ i = N + 1
        BY <1>6, <2>1
      <3>2. CASE i \in 1 .. N
        BY <1>1, <3>2 DEF LogOf, N
      <3>3. CASE i = N + 1
        BY <1>8, <3>3
      <3> QED BY <3>1, <3>2, <3>3
    <2> QED BY <1>6, <2>2, <2>3 DEF LogOf, M
  <1> QED BY <1>4, <1>5, <1>8, <1>9

\* What the step certifies, if anything.
LEMMA Certifies ==
    ASSUME Cardinality(Validator) = 3 * F + 1, Cardinality(Forgetful) <= F,
           LogInv, NEW n \in Honest, NEW k \in book[n].candidate,
           Cardinality(SignersOf(partials, k)) >= quorum,
           qcs' = qcs \cup {k}
    PROVE  LogOf(qcs') /\ (Log!Certify \/ UNCHANGED qcs)
  <1>1. CASE k \in qcs
    <2>1. qcs' = qcs
      BY <1>1
    <2> QED BY <2>1 DEF LogInv
  <1>2. CASE k \notin qcs
    <2>1. /\ Len(k) = Cardinality(qcs) + 1
          /\ ParentOf(k) \in qcs \cup {Genesis}
          /\ LogOf(qcs \cup {k})
      BY <1>2, NewQc
    <2>2. k \in qcs' \ qcs
      BY <1>2
    <2>3. SubSeq(k, 1, Len(k) - 1) \in qcs \cup {<< >>}
      BY <2>1 DEF ParentOf, Genesis
    <2>4. \E c \in qcs' \ qcs : /\ qcs' = qcs \cup {c}
                               /\ Len(c) = Cardinality(qcs) + 1
                               /\ SubSeq(c, 1, Len(c) - 1) \in qcs \cup {<< >>}
      BY <2>1, <2>2, <2>3
    <2>5. Cardinality(qcs) = Log!Cardinality(qcs)
      BY Zenon DEF Cardinality, Log!Cardinality
    <2>6. Log!Certify
      BY <2>4, <2>5 DEF Log!Certify
    <2> QED BY <2>1, <2>6
  <1> QED BY <1>1, <1>2

LEMMA LogNext ==
    ASSUME Cardinality(Validator) = 3 * F + 1, Cardinality(Forgetful) <= F
    PROVE  LogInv /\ [Next]_vars => LogInv'
  <1> SUFFICES ASSUME LogInv, [Next]_vars PROVE LogInv'
    OBVIOUS
  <1>1. FinalInv'
    BY FinalNext DEF LogInv
  <1>2. CASE Next
    <2>1. PICK n \in Honest : \/ \E c \in MacroBook : BookStep(n, c)
                              \/ \E k \in book[n].candidate : ForgetfulQc(n, k)
      BY <1>2, StepKinds DEF LogInv, FinalInv
    <2>2. \/ qcs' = qcs
          \/ \E k \in book[n].candidate : /\ Cardinality(SignersOf(partials, k)) >= quorum
                                          /\ qcs' = qcs \cup {k}
      BY <2>1 DEF BookStep, ForgetfulQc, Quiet, MicroTaken, Voted, QcAdopted
    <2>3. LogOf(qcs')
      BY <2>2, Certifies DEF LogInv
    <2> QED BY <1>1, <2>3 DEF LogInv
  <1>3. CASE UNCHANGED vars
    BY <1>1, <1>3 DEF vars, LogInv
  <1> QED BY <1>2, <1>3

\* What a book calls final.
HeadOr(S) == IF S = {} THEN Genesis ELSE CHOOSE d \in S : TRUE
FinalHead(b) == HeadOr(b.finalized_head)

LEMMA FinalHeadFacts ==
    ASSUME NEW b \in MacroBook, TwoChainOf(b)
    PROVE  FinalHead(b) \in Hash /\ Prefix(FinalHead(b), b.last_macro_hash)
  <1>1. b.last_macro_hash \in Hash
    BY DEF MacroBook
  <1>2. Genesis \in Hash
    BY DEF Genesis, Hash
  <1>3. CASE b.finalized_head = {}
    BY <1>1, <1>2, <1>3, PrefixFacts DEF FinalHead, HeadOr
  <1>4. CASE b.finalized_head # {}
    <2>1. FinalHead(b) \in b.finalized_head
      BY <1>4 DEF FinalHead, HeadOr
    <2> QED BY <2>1 DEF TwoChainOf
  <1> QED BY <1>3, <1>4

\* Adoption is Adopt.
LEMMA AdoptsNext ==
    ASSUME FinalInv, NEW n \in Honest, NEW c \in MacroBook, book' = [book EXCEPT ![n] = c],
           NEW k \in book[n].candidate, QcAdopted(n, c, k)
    PROVE  Log!Adopt(n)
  <1> DEFINE b == book[n]
             last == b.last_macro_hash
             view == [m \in Honest |-> book[m].last_macro_hash]
             view2 == [m \in Honest |-> book'[m].last_macro_hash]
             final == [m \in Honest |-> FinalHead(book[m])]
             final2 == [m \in Honest |-> FinalHead(book'[m])]
             fin == FinalizedBy(b, k)
  <1>1. /\ book \in [Honest -> MacroBook]
        /\ b \in MacroBook
        /\ MapsOf(b) /\ TwoChainOf(b)
        /\ k \in Hash \ {Genesis}
        /\ last \in Hash
    BY DEF FinalInv, FinalOf, SafeInv, Types, BookOf, MacroBook
  <1>2. /\ HeightOf(k) = b.next_height
        /\ ParentOf(k) = last
        /\ c.last_macro_hash = k
        /\ c.finalized_head = IF fin # {} THEN fin ELSE b.finalized_head
        /\ k \in qcs'
    BY DEF QcAdopted
  <1>3. book'[n] = c /\ \A m \in Honest \ {n} : book'[m] = book[m]
    BY <1>1
  <1>4. /\ view[n] = last /\ view2 = [view EXCEPT ![n] = k]
        /\ final[n] = FinalHead(b) /\ final2[n] = FinalHead(c)
        /\ final2 = [final EXCEPT ![n] = final2[n]]
    <2>1. view[n] = last /\ final[n] = FinalHead(b)
      OBVIOUS
    <2>2. \A m \in Honest : view2[m] = IF m = n THEN k ELSE view[m]
      BY <1>2, <1>3
    <2>3. \A m \in Honest : final2[m] = IF m = n THEN FinalHead(c) ELSE final[m]
      BY <1>3
    <2>4. /\ view = [m \in Honest |-> view[m]] /\ view2 = [m \in Honest |-> view2[m]]
          /\ final = [m \in Honest |-> final[m]] /\ final2 = [m \in Honest |-> final2[m]]
      OBVIOUS
    <2> HIDE DEF view, view2, final, final2
    <2> QED BY <2>1, <2>2, <2>3, <2>4
  <1>5. Len(k) = Len(last) + 1 /\ Prefix(last, k)
    <2>1. Len(k) \in Nat /\ Len(ParentOf(k)) = Len(k) - 1 /\ Prefix(ParentOf(k), k)
      BY <1>1, CheckpointFacts, PrefixFacts
    <2> QED BY <1>2, <2>1
  <1>6. FinalHead(b) \in Hash /\ Prefix(FinalHead(b), last)
    BY <1>1, FinalHeadFacts
  <1>7. FinalHead(c) = FinalHead(b) \/ FinalHead(c) = last
    <2>1. CASE fin = {}
      BY <1>2, <2>1 DEF FinalHead, HeadOr
    <2>2. CASE fin # {}
      <3>1. \A d \in fin : d = last
        <4> HIDE DEF b
        <4> QED BY <1>1, <1>2, HeadFacts
      <3>2. FinalHead(c) \in fin
        BY <1>2, <2>2 DEF FinalHead, HeadOr
      <3> QED BY <3>1, <3>2
    <2> QED BY <2>1, <2>2
  <1>8. Prefix(FinalHead(b), FinalHead(c)) /\ Prefix(FinalHead(c), last)
    BY <1>1, <1>6, <1>7, PrefixFacts
  <1>9. \A s, t : Log!Prefix(s, t) <=> Prefix(s, t)
    BY DEF Prefix, Log!Prefix
  <1>10. /\ k \in qcs'
         /\ Len(k) = Len(view[n]) + 1
         /\ Log!Prefix(view[n], k)
         /\ view2 = [view EXCEPT ![n] = k]
         /\ final2 = [final EXCEPT ![n] = final2[n]]
         /\ Log!Prefix(final[n], final2[n])
         /\ Log!Prefix(final2[n], view[n])
    BY <1>2, <1>4, <1>5, <1>8, <1>9
  <1> QED BY <1>10 DEF Log!Adopt, FinalHead, HeadOr

LEMMA LogStep ==
    ASSUME Cardinality(Validator) = 3 * F + 1, Cardinality(Forgetful) <= F
    PROVE  LogInv /\ [Next]_vars => [Log!Next]_(Log!vars)
  <1> SUFFICES ASSUME LogInv, [Next]_vars PROVE [Log!Next]_(Log!vars)
    OBVIOUS
  <1>1. book \in [Honest -> MacroBook] /\ SafeInv /\ FinalInv
    BY DEF LogInv, FinalInv, SafeInv, Types
  <1>2. ASSUME NEW n \in Honest, NEW c \in MacroBook, BookStep(n, c) PROVE [Log!Next]_(Log!vars)
    <2>1. book' = [book EXCEPT ![n] = c]
      BY <1>2 DEF BookStep
    <2>2. CASE \E k \in book[n].candidate : QcAdopted(n, c, k)
      <3>1. PICK k \in book[n].candidate : QcAdopted(n, c, k)
        BY <2>2
      <3>2. Log!Adopt(n)
        BY <1>1, <2>1, <3>1, AdoptsNext
      <3>3. Log!Certify \/ UNCHANGED qcs
        BY <3>1, Certifies DEF QcAdopted
      <3> QED BY <3>2, <3>3 DEF Log!Next
    <2>3. CASE ~\E k \in book[n].candidate : QcAdopted(n, c, k)
      <3>1. /\ qcs' = qcs
            /\ c.last_macro_hash = book[n].last_macro_hash
            /\ c.finalized_head = book[n].finalized_head
        BY <1>2, <2>3 DEF BookStep, Quiet, MicroTaken, Voted, SameChain, SameTwoChain
      <3>2. \A m \in Honest : /\ book'[m].last_macro_hash = book[m].last_macro_hash
                              /\ book'[m].finalized_head = book[m].finalized_head
        BY <1>1, <2>1, <3>1
      <3>3. /\ [m \in Honest |-> book'[m].last_macro_hash] = [m \in Honest |-> book[m].last_macro_hash]
            /\ [m \in Honest |-> FinalHead(book'[m])] = [m \in Honest |-> FinalHead(book[m])]
        <4>1. \A m \in Honest : FinalHead(book'[m]) = FinalHead(book[m])
          BY <3>2 DEF FinalHead
        <4> QED BY <3>2, <4>1
      <3>4. UNCHANGED Log!vars
        BY <3>1, <3>3 DEF Log!vars, FinalHead, HeadOr
      <3> QED BY <3>4
    <2> QED BY <2>2, <2>3
  <1>3. ASSUME NEW n \in Honest, NEW k \in book[n].candidate, ForgetfulQc(n, k)
        PROVE  [Log!Next]_(Log!vars)
    <2>1. book' = book
      BY <1>3 DEF ForgetfulQc
    <2>2. Log!Certify \/ UNCHANGED qcs
      BY <1>3, Certifies DEF ForgetfulQc
    <2> QED BY <2>1, <2>2 DEF Log!Next, Log!vars
  <1>4. CASE Next
    BY <1>1, <1>2, <1>3, <1>4, StepKinds
  <1>5. CASE UNCHANGED vars
    BY <1>5 DEF vars, Log!vars
  <1> QED BY <1>4, <1>5

\* Macro-finality implements the log of MacroLog as long as at most F of 3F + 1
\* validators restart: every MacroQc extends the one chain of certified
\* checkpoints, each validator adopts that chain in order and without a gap, and
\* what it calls final is never taken back.
THEOREM LogImplemented ==
    ASSUME Cardinality(Validator) = 3 * F + 1, Cardinality(Forgetful) <= F
    PROVE  Spec => ImplementsLog
  <1>1. Init => Log!Init
    <2> SUFFICES ASSUME Init PROVE Log!Init
      OBVIOUS
    <2>1. NewBook.last_macro_hash = << >> /\ NewBook.finalized_head = {}
      BY DEF NewBook, Genesis
    <2> QED BY <2>1 DEF Init, Log!Init, Genesis
  <1>2. LogInv /\ [Next]_vars => LogInv'
    BY LogNext
  <1>3. LogInv /\ [Next]_vars => [Log!Next]_(Log!vars)
    BY LogStep
  <1> QED BY <1>1, <1>2, <1>3, LogInit, PTL DEF Spec, ImplementsLog, Log!Spec

-----------------------------------------------------------------------------
(***************************************************************************)
(* Agreement of the validators.  What the log of MacroLog looks like is    *)
(* one chain: the checkpoints with a MacroQc are ancestors of one another, *)
(* and so are whatever two validators have adopted and made final.         *)
(***************************************************************************)

Comparable(c, d) == Prefix(c, d) \/ Prefix(d, c)

Chained(Q) == \A c, d \in Q : Comparable(c, d)

ChainInv == LogInv /\ Chained(qcs)

\* Two prefixes of one checkpoint are prefixes of one another.
LEMMA PrefixesCompare ==
    ASSUME NEW s \in Hash, NEW t \in Hash, NEW u \in Hash, Prefix(s, u), Prefix(t, u)
    PROVE  Comparable(s, t)
  <1>1. /\ s \in Seq(Window) /\ Len(s) \in Nat
        /\ t \in Seq(Window) /\ Len(t) \in Nat
        /\ u \in Seq(Window) /\ Len(u) \in Nat
    BY LenProperties DEF Hash
  <1>2. Len(s) <= Len(u) /\ Len(t) <= Len(u)
    BY DEF Prefix
  <1>3. \A i \in 1 .. Len(s) : s[i] = u[i]
    BY <1>1, <1>2, PrefixElements
  <1>4. \A i \in 1 .. Len(t) : t[i] = u[i]
    BY <1>1, <1>2, PrefixElements
  <1>5. CASE Len(s) <= Len(t)
    <2>1. \A i \in 1 .. Len(s) : s[i] = t[i]
      BY <1>1, <1>3, <1>4, <1>5
    <2> QED BY <1>1, <1>5, <2>1, PrefixElements DEF Comparable
  <1>6. CASE Len(t) <= Len(s)
    <2>1. \A i \in 1 .. Len(t) : t[i] = s[i]
      BY <1>1, <1>3, <1>4, <1>6
    <2> QED BY <1>1, <1>6, <2>1, PrefixElements DEF Comparable
  <1> QED BY <1>1, <1>5, <1>6

\* What is below two comparable checkpoints is comparable.
LEMMA BelowComparable ==
    ASSUME NEW s \in Hash, NEW t \in Hash, NEW u \in Hash, NEW v \in Hash,
           Prefix(s, u), Prefix(t, v), Comparable(u, v)
    PROVE  Comparable(s, t)
  <1>1. CASE Prefix(u, v)
    <2>1. Prefix(s, v)
      BY <1>1, PrefixFacts
    <2> QED BY <2>1, PrefixesCompare
  <1>2. CASE Prefix(v, u)
    <2>1. Prefix(t, u)
      BY <1>2, PrefixFacts
    <2> QED BY <2>1, PrefixesCompare
  <1> QED BY <1>1, <1>2 DEF Comparable

\* The next checkpoint of the log stands on the whole of it.
LEMMA ChainGrows ==
    ASSUME Cardinality(Validator) = 3 * F + 1, Cardinality(Forgetful) <= F,
           ChainInv, NEW n \in Honest, NEW k \in book[n].candidate,
           Cardinality(SignersOf(partials, k)) >= quorum
    PROVE  Chained(qcs \cup {k})
  <1>1. /\ qcs \subseteq Hash \ {Genesis}
        /\ k \in Hash \ {Genesis}
        /\ LogInv /\ LogOf(qcs) /\ Chained(qcs)
    BY DEF ChainInv, LogInv, FinalInv, SafeInv, Types, MacroBook
  <1>2. CASE k \in qcs
    <2>1. qcs \cup {k} = qcs
      BY <1>2
    <2> QED BY <1>1, <2>1
  <1>3. CASE k \notin qcs
    <2> DEFINE p == ParentOf(k)
               N == Cardinality(qcs)
    <2>1. Len(k) = N + 1 /\ p \in qcs \cup {Genesis}
      BY <1>1, <1>3, NewQc
    <2>2. p \in Hash /\ Len(p) = Len(k) - 1 /\ N \in Nat /\ Prefix(p, k)
      BY <1>1, CheckpointFacts, PrefixFacts, FS_CardinalityType DEF LogOf
    <2> HIDE DEF p, N
    <2>3. Len(p) = N
      BY <2>1, <2>2
    <2>4. ASSUME NEW c \in qcs PROVE Prefix(c, k)
      <3>1. c \in Hash \ {Genesis} /\ Len(c) \in 1 .. N
        BY <1>1 DEF LogOf, N
      <3>2. p \in qcs
        <4>1. p # Genesis
          <5>1. Len(Genesis) = 0
            BY EmptySeq DEF Genesis
          <5> QED BY <2>2, <2>3, <3>1, <5>1
        <4> QED BY <2>1, <4>1
      <3>3. Comparable(c, p)
        BY <1>1, <3>2 DEF Chained
      <3>4. Prefix(c, p)
        <4>1. CASE Prefix(p, c)
          <5>1. Len(c) = N
            BY <2>2, <2>3, <3>1, <4>1 DEF Prefix
          <5>2. p = SubSeq(c, 1, Len(c))
            BY <2>3, <4>1, <5>1 DEF Prefix
          <5>3. c \in Seq(Window)
            BY <3>1 DEF Hash
          <5>4. p = c
            BY <5>2, <5>3, SubSeqFull
          <5> QED BY <2>2, <5>4, PrefixFacts
        <4> QED BY <3>3, <4>1 DEF Comparable
      <3> QED BY <1>1, <2>2, <3>1, <3>4, PrefixFacts
    <2>5. Prefix(k, k)
      BY <1>1, PrefixFacts
    <2> QED BY <1>1, <2>4, <2>5 DEF Chained, Comparable
  <1> QED BY <1>2, <1>3

LEMMA ChainInit == Init => ChainInv
  BY LogInit DEF ChainInv, Chained, Init

LEMMA ChainNext ==
    ASSUME Cardinality(Validator) = 3 * F + 1, Cardinality(Forgetful) <= F
    PROVE  ChainInv /\ [Next]_vars => ChainInv'
  <1> SUFFICES ASSUME ChainInv, [Next]_vars PROVE ChainInv'
    OBVIOUS
  <1>1. LogInv'
    BY LogNext DEF ChainInv
  <1>2. CASE Next
    <2>1. PICK n \in Honest : \/ \E c \in MacroBook : BookStep(n, c)
                              \/ \E k \in book[n].candidate : ForgetfulQc(n, k)
      BY <1>2, StepKinds DEF ChainInv, LogInv, FinalInv
    <2>2. \/ qcs' = qcs
          \/ \E k \in book[n].candidate : /\ Cardinality(SignersOf(partials, k)) >= quorum
                                          /\ qcs' = qcs \cup {k}
      BY <2>1 DEF BookStep, ForgetfulQc, Quiet, MicroTaken, Voted, QcAdopted
    <2>3. Chained(qcs')
      BY <2>2, ChainGrows DEF ChainInv
    <2> QED BY <1>1, <2>3 DEF ChainInv
  <1>3. CASE UNCHANGED vars
    BY <1>1, <1>3 DEF vars, ChainInv
  <1> QED BY <1>2, <1>3

\* Every head of a book is an ancestor of the checkpoint it has adopted last.
LEMMA HeadsBelow ==
    ASSUME ChainInv, NEW n \in Honest, NEW c \in Heads(n)
    PROVE  /\ book[n].last_macro_hash \in (qcs \cup {Genesis}) \cap Hash
           /\ c \in Hash /\ Prefix(c, book[n].last_macro_hash)
  <1> DEFINE b == book[n]
             last == b.last_macro_hash
  <1>1. b \in MacroBook /\ TwoChainOf(b) /\ ChainOf(b, qcs)
    BY DEF ChainInv, LogInv, FinalInv, FinalOf, SafeInv, Types, BookOf
  <1>2. last \in Hash /\ last \in qcs \cup {Genesis}
    BY <1>1 DEF MacroBook, ChainOf
  <1>3. CASE c = last
    BY <1>2, <1>3, PrefixFacts
  <1>4. CASE c \in b.finalized_head
    BY <1>1, <1>2, <1>4 DEF TwoChainOf
  <1> QED BY <1>2, <1>3, <1>4 DEF Heads

\* The validators agree on what is final as long as at most F of 3F + 1
\* restart: of any two checkpoints that two honest validators call final or have
\* adopted last, one is an ancestor of the other.
THEOREM FinalityAgreed ==
    ASSUME Cardinality(Validator) = 3 * F + 1, Cardinality(Forgetful) <= F
    PROVE  Spec => []FinalsAgree
  <1>1. ChainInv => FinalsAgree
    <2> SUFFICES ASSUME ChainInv, NEW m \in Honest, NEW n \in Honest,
                        NEW c \in Heads(m), NEW d \in Heads(n)
                 PROVE  Log!Prefix(c, d) \/ Log!Prefix(d, c)
      BY DEF FinalsAgree
    <2> DEFINE u == book[m].last_macro_hash
               v == book[n].last_macro_hash
    <2>1. u \in (qcs \cup {Genesis}) \cap Hash /\ c \in Hash /\ Prefix(c, u)
      BY HeadsBelow
    <2>2. v \in (qcs \cup {Genesis}) \cap Hash /\ d \in Hash /\ Prefix(d, v)
      BY HeadsBelow
    <2> HIDE DEF u, v
    <2>3. Comparable(u, v)
      <3>1. CASE u \in qcs /\ v \in qcs
        BY <3>1 DEF ChainInv, Chained
      <3>2. CASE u = Genesis \/ v = Genesis
        BY <2>1, <2>2, <3>2, PrefixFacts DEF Comparable
      <3> QED BY <2>1, <2>2, <3>1, <3>2
    <2>4. Comparable(c, d)
      BY <2>1, <2>2, <2>3, BelowComparable
    <2> QED BY <2>4 DEF Comparable, Prefix, Log!Prefix
  <1>2. ChainInv /\ [Next]_vars => ChainInv'
    BY ChainNext
  <1> QED BY <1>1, <1>2, ChainInit, PTL DEF Spec

-----------------------------------------------------------------------------
(***************************************************************************)
(* Accusations.  A validator whose window fills again before the MacroQc   *)
(* has come proposes a second checkpoint for the height, and receivers     *)
(* report it.  That is the only way for an honest validator to be accused. *)
(***************************************************************************)

\* The micro checkpoints of the last window of c.
WindowOf(c) == {c[Len(c)].root[k] : k \in 1 .. W}

\* Checkpoints c and d are two windows, without a micro checkpoint in common, on top
\* of one parent.
Refilled(c, d) == ParentOf(c) = ParentOf(d) /\ WindowOf(c) \cap WindowOf(d) = {}

\* The proposals of n among A: of the next height at most, in which case they stand on
\* the last adopted checkpoint and the backup timer will not propose again; and their
\* windows have left the ring.
ProposedOf(n, b, E, A) ==
    \A p \in A : p.proposer = n =>
        /\ HeightOf(p.checkpoint) <= b.next_height
        /\ HeightOf(p.checkpoint) = b.next_height =>
              ParentOf(p.checkpoint) = b.last_macro_hash /\ b.next_height \in b.proposal_seen
        /\ WindowOf(p.checkpoint) \subseteq E /\ WindowOf(p.checkpoint) \cap RingOf(b) = {}

\* Proposals of one validator for one height are the same or are refills.
OnlyRefills(A) ==
    \A p, q \in A : p.proposer = q.proposer /\ HeightOf(p.checkpoint) = HeightOf(q.checkpoint)
                        => p.checkpoint = q.checkpoint \/ Refilled(p.checkpoint, q.checkpoint)

RefillInv == /\ CoverInv
             /\ \A p \in proposals : p.proposer \in Honest
             /\ \A n \in Honest : ProposedOf(n, book[n], emitted[n], proposals)
             /\ OnlyRefills(proposals)

\* n proposes the checkpoint that it has just built.
ProposesBuilt(n, m) ==
    LET b == book[n]
        k == build(b.next_height, b.last_macro_hash, Append(b.micro_ring, m))
    IN  /\ m \notin emitted[n] /\ emitted'[n] = emitted[n] \cup {m}
        /\ Len(b.micro_ring) + 1 >= W
        /\ b.next_height \in Height
        /\ b.next_height \in book'[n].proposal_seen
        /\ SameChain(b, book'[n])
        /\ book'[n].micro_ring = << >>
        /\ \A p \in proposals' : p \in proposals \/ (p.proposer = n /\ p.checkpoint = k)

\* n proposes the candidate of the next height in place of the primary.
ProposesBackup(n) ==
    LET b == book[n]
    IN  /\ b.next_height \notin b.proposal_seen
        /\ b.next_height \in book'[n].proposal_seen
        /\ SameChain(b, book'[n])
        /\ book'[n].micro_ring = b.micro_ring
        /\ UNCHANGED emitted
        /\ \A p \in proposals' : p \in proposals
                                 \/ (p.proposer = n /\ p.checkpoint \in CandidateAt(b, b.next_height))

SeenGrows(n) == book[n].proposal_seen \subseteq book'[n].proposal_seen

LEMMA MicroProposes ==
    ASSUME SafeInv, NEW n \in Honest, NEW m \in Micro, on_local_micro_qcs(n, m)
    PROVE  SeenGrows(n) /\ (proposals' = proposals \/ ProposesBuilt(n, m))
  <1> DEFINE b == book[n]
  <1>1. /\ book \in [Honest -> MacroBook] /\ b \in MacroBook
        /\ emitted \in [Honest -> SUBSET Micro]
    BY DEF SafeInv, Types
  <1>2. /\ m \notin emitted[n]
        /\ emitted'[n] = emitted[n] \cup {m}
    BY <1>1 DEF on_local_micro_qcs
  <1>3. CASE PushMicro(n, m)
    <2> DEFINE c == [b EXCEPT !.micro_ring = Append(@, m)]
    <2>1. book' = [book EXCEPT ![n] = c] /\ UNCHANGED proposals
      BY <1>1, <1>3 DEF PushMicro
    <2>2. c.proposal_seen = b.proposal_seen
      BY <1>1 DEF MacroBook
    <2> HIDE DEF c
    <2> QED BY <1>1, <2>1, <2>2 DEF SeenGrows
  <1>4. CASE BuildCandidate(n, m)
    <2> DEFINE h == b.next_height
               ring == Append(b.micro_ring, m)
               last == b.last_macro_hash
               k == build(h, last, ring)
               w == WithCandidate(b, k)
               x == [w EXCEPT !.proposal_seen = @ \cup {h}, !.mode_b_timers = @ \cup {h}]
               y == [w EXCEPT !.backup_timers = IF IsBackup(w, n, h) THEN @ \cup {h} ELSE @,
                              !.mode_b_timers = @ \cup {h}]
    <2>1. h \in Height /\ Len(b.micro_ring) + 1 >= W
      BY <1>1, <1>4, BoundAssumption DEF BuildCandidate, MacroBook, Height
    <2>2. \/ /\ book' = [book EXCEPT ![n] = x]
             /\ proposals' = proposals \cup
                    {[checkpoint |-> k, proposer |-> n, beacon |-> BeaconFor(w, h)]}
          \/ book' = [book EXCEPT ![n] = y] /\ UNCHANGED proposals
      BY <1>4 DEF BuildCandidate
    <2>3. /\ w.proposal_seen = b.proposal_seen /\ w.micro_ring = << >> /\ SameChain(b, w)
          /\ DOMAIN w = DOMAIN b /\ w = [f \in DOMAIN b |-> w[f]]
      <3> HIDE DEF k
      <3> QED BY <1>1 DEF WithCandidate, MacroBook, SameChain
    <2>4. /\ {"proposal_seen", "micro_ring", "next_height", "last_macro_hash", "emitted_macro_qc"} \subseteq DOMAIN b
          /\ {"backup_timers", "mode_b_timers"} \subseteq DOMAIN b
      BY <1>1 DEF MacroBook
    <2> HIDE DEF w, k, h
    <2>5. /\ x.proposal_seen = w.proposal_seen \cup {h} /\ x.micro_ring = w.micro_ring /\ SameChain(w, x)
          /\ y.proposal_seen = w.proposal_seen
      BY <2>3, <2>4 DEF SameChain
    <2> HIDE DEF x, y
    <2>6. CASE /\ book' = [book EXCEPT ![n] = x]
               /\ proposals' = proposals \cup
                    {[checkpoint |-> k, proposer |-> n, beacon |-> BeaconFor(w, h)]}
      <3>1. book'[n] = x
        BY <1>1, <2>6
      <3>2. SeenGrows(n) /\ h \in book'[n].proposal_seen
        BY <2>3, <2>5, <3>1 DEF SeenGrows
      <3>3. SameChain(b, book'[n]) /\ book'[n].micro_ring = << >>
        BY <2>3, <2>5, <3>1 DEF SameChain
      <3>4. \A p \in proposals' : p \in proposals \/ (p.proposer = n /\ p.checkpoint = k)
        BY <2>6
      <3> QED BY <1>2, <2>1, <3>2, <3>3, <3>4 DEF ProposesBuilt, h, k
    <2>7. CASE book' = [book EXCEPT ![n] = y] /\ UNCHANGED proposals
      BY <1>1, <2>3, <2>5, <2>7 DEF SeenGrows
    <2> QED BY <2>2, <2>6, <2>7
  <1> QED BY <1>3, <1>4 DEF on_local_micro_qcs

LEMMA ProposalProposes ==
    ASSUME SafeInv, NEW n \in Honest, NEW p \in proposals \cup ForgetfulProposal,
           on_macro_proposal(n, p)
    PROVE  SeenGrows(n) /\ proposals' = proposals
  <1> DEFINE b == book[n]
             f == Frozen(n, p)
             s == [f EXCEPT !.proposals_seen = @ \cup {p}]
  <1>1. /\ book \in [Honest -> MacroBook]
        /\ p \in Proposal
        /\ Functional(b.candidate_beacon)
    BY ForgetfulProposalAssumption DEF SafeInv, Types, BookOf, MapsOf
  <1>2. f \in MacroBook /\ f.proposal_seen = b.proposal_seen
    BY <1>1, FrozenFields
  <1>3. CASE RejectProposal(n, p)
    <2>1. book' = [book EXCEPT ![n] = f] /\ UNCHANGED proposals
      BY <1>3 DEF RejectProposal
    <2> HIDE DEF f
    <2> QED BY <1>1, <1>2, <2>1 DEF SeenGrows
  <1>4. CASE ReportEquivocation(n, p)
    BY <1>4 DEF ReportEquivocation, SeenGrows
  <1>5. CASE IgnoreProposal(n, p)
    <2>1. book' = [book EXCEPT ![n] = s] /\ UNCHANGED proposals
      BY <1>5 DEF IgnoreProposal
    <2> HIDE DEF f
    <2>2. s.proposal_seen = f.proposal_seen
      BY <1>2 DEF MacroBook
    <2> HIDE DEF s
    <2> QED BY <1>1, <1>2, <2>1, <2>2 DEF SeenGrows
  <1>6. CASE VoteForProposal(n, p)
    <2> DEFINE k == p.checkpoint
               a == adopt(f, k)
               c == [a EXCEPT !.proposals_seen = @ \cup {p}, !.lock = {k},
                              !.proposal_seen = @ \cup {HeightOf(k)},
                              !.backup_timers = @ \ {HeightOf(k)},
                              !.partials = @ \cup {<<k, n>>},
                              !.votes = record(@, k),
                              !.blob_status = SetTier(@, {k}, "SoftConfirmed")]
    <2>1. book' = [book EXCEPT ![n] = c] /\ UNCHANGED proposals
      BY <1>6 DEF VoteForProposal
    <2>2. k \in Hash \ {Genesis}
      BY <1>1 DEF Proposal
    <2> HIDE DEF f, k
    <2>3. a \in MacroBook /\ a.proposal_seen = f.proposal_seen
      BY <1>2, <2>2, AdoptFields
    <2> HIDE DEF a
    <2>4. a.proposal_seen \subseteq c.proposal_seen
      BY <2>3 DEF MacroBook
    <2> HIDE DEF c
    <2> QED BY <1>1, <1>2, <2>1, <2>3, <2>4 DEF SeenGrows
  <1> QED BY <1>3, <1>4, <1>5, <1>6 DEF on_macro_proposal

\* Adopting a MacroQc forgets nothing of what was proposed.
LEMMA AdoptedSeen ==
    ASSUME NEW b \in MacroBook, NEW k \in Hash \ {Genesis}, NEW signers
    PROVE  b.proposal_seen \subseteq Adopted(b, k, signers).proposal_seen
  <1> DEFINE a == adopt(b, k)
             h == HeightOf(k)
             fin == NewlyFinalized(a)
             windows == Lag(b, fin)
             final == IF fin # {} THEN fin ELSE a.finalized_head
             below == UNION {CandidateAt(b, HeightOf(d)) : d \in fin}
             stat == SetTier(SetTier(b.blob_status, {k}, "Justified"), below, "Finalized")
             leak == fin = {} /\ (a.leak_notified \/ leak_applies(windows))
             c == [a EXCEPT !.emitted_macro_qc = @ \cup {k},
                            !.last_macro_hash = k,
                            !.next_height = h + 1,
                            !.proposal_seen = @ \cup {h},
                            !.backup_timers = @ \ {h},
                            !.mode_b_timers = @ \ {h},
                            !.reputation = Rewarded(@, signers),
                            !.unfinalized_windows = windows,
                            !.leak_notified = leak,
                            !.finalized_head = final,
                            !.blob_status = stat]
  <1>1. a \in MacroBook /\ a.proposal_seen = b.proposal_seen
    BY AdoptFields
  <1>2. Adopted(b, k, signers) = c
    <2> HIDE DEF a
    <2> QED BY <1>1 DEF Adopted, MacroBook, a
  <1> HIDE DEF a, windows, final, stat, leak
  <1>3. a.proposal_seen \subseteq c.proposal_seen
    BY <1>1 DEF MacroBook
  <1> HIDE DEF c
  <1> QED BY <1>1, <1>2, <1>3

LEMMA PartialProposes ==
    ASSUME SafeInv, NEW n \in Honest, NEW k \in book[n].candidate, NEW m \in Validator,
           on_bls_partial(n, k, m)
    PROVE  SeenGrows(n) /\ proposals' = proposals
  <1> DEFINE b == book[n]
             c == Collected(n, k, m)
             a == Adopted(c, k, SignersIn(c, k))
  <1>1. book \in [Honest -> MacroBook] /\ b \in MacroBook /\ k \in Hash \ {Genesis} /\ k \in Hash
    BY DEF SafeInv, Types, MacroBook
  <1>2. c \in MacroBook
    BY <1>1, CollectedFields
  <1>3. c.proposal_seen = b.proposal_seen
    BY <1>1 DEF Collected, MacroBook
  <1>4. /\ book' = [book EXCEPT ![n] = c] \/ book' = [book EXCEPT ![n] = a]
        /\ UNCHANGED proposals
    BY DEF on_bls_partial, CollectPartial, AssembleQc
  <1> HIDE DEF c
  <1>5. c.proposal_seen \subseteq a.proposal_seen
    BY <1>1, <1>2, AdoptedSeen
  <1> HIDE DEF a
  <1> QED BY <1>1, <1>3, <1>4, <1>5 DEF SeenGrows

LEMMA QcProposes ==
    ASSUME SafeInv, NEW n \in Honest, NEW k \in qcs, on_macro_qc_received(n, k)
    PROVE  SeenGrows(n) /\ proposals' = proposals
  <1> DEFINE b == book[n]
             a == Adopted(b, k, SignersIn(b, k))
  <1>1. book \in [Honest -> MacroBook] /\ b \in MacroBook /\ k \in Hash \ {Genesis}
    BY DEF SafeInv, Types
  <1>2. book' = [book EXCEPT ![n] = a] /\ UNCHANGED proposals
    BY DEF on_macro_qc_received
  <1>3. b.proposal_seen \subseteq a.proposal_seen
    BY <1>1, AdoptedSeen
  <1> HIDE DEF a
  <1> QED BY <1>1, <1>2, <1>3 DEF SeenGrows

LEMMA TimerProposes ==
    ASSUME SafeInv, NEW n \in Honest, NEW h \in Height, on_timer_fired(n, h)
    PROVE  SeenGrows(n) /\ (proposals' = proposals \/ ProposesBackup(n))
  <1> DEFINE b == book[n]
  <1>1. /\ book \in [Honest -> MacroBook] /\ b \in MacroBook
        /\ b.backup_timers \subseteq {b.next_height}
    BY DEF SafeInv, Types, BookOf, ChainOf
  <1>2. CASE BackupTimerFired(n, h)
    <2> DEFINE s == [b EXCEPT !.backup_timers = @ \ {h}]
               c == [s EXCEPT !.proposal_seen = @ \cup {h}]
    <2>1. /\ s \in MacroBook /\ s.candidate = b.candidate
          /\ c.micro_ring = b.micro_ring /\ SameChain(b, c)
      BY <1>1, BackedUpFields
    <2>2. s.proposal_seen = b.proposal_seen /\ c.proposal_seen = s.proposal_seen \cup {h}
      BY <1>1, <2>1 DEF MacroBook
    <2>3. /\ h \in b.backup_timers /\ UNCHANGED emitted
          /\ \/ /\ h \notin s.proposal_seen
                /\ book' = [book EXCEPT ![n] = c]
                /\ proposals' = proposals \cup
                       {[checkpoint |-> k, proposer |-> n, beacon |-> BeaconFor(s, h)] : k \in CandidateAt(s, h)}
             \/ /\ book' = [book EXCEPT ![n] = s]
                /\ UNCHANGED proposals
      BY <1>2 DEF BackupTimerFired
    <2>4. h = b.next_height
      BY <1>1, <2>3
    <2> HIDE DEF s, c
    <2>5. CASE /\ h \notin s.proposal_seen
               /\ book' = [book EXCEPT ![n] = c]
               /\ proposals' = proposals \cup
                      {[checkpoint |-> k, proposer |-> n, beacon |-> BeaconFor(s, h)] : k \in CandidateAt(s, h)}
      <3>1. book'[n] = c
        BY <1>1, <2>5
      <3>2. SeenGrows(n) /\ h \in book'[n].proposal_seen /\ h \notin b.proposal_seen
        BY <2>2, <2>5, <3>1 DEF SeenGrows
      <3>3. CandidateAt(s, h) = CandidateAt(b, h)
        BY <2>1 DEF CandidateAt
      <3>4. \A p \in proposals' : p \in proposals \/ (p.proposer = n /\ p.checkpoint \in CandidateAt(b, h))
        BY <2>5, <3>3
      <3> QED BY <2>1, <2>3, <2>4, <3>1, <3>2, <3>4 DEF ProposesBackup
    <2>6. CASE book' = [book EXCEPT ![n] = s] /\ UNCHANGED proposals
      BY <1>1, <2>2, <2>6 DEF SeenGrows
    <2> QED BY <2>3, <2>5, <2>6
  <1>3. CASE ModeBTimerFired(n, h)
    <2> DEFINE l == Leaderless(n, h)
               c == ModeBBook(n, h)
    <2>1. book' = [book EXCEPT ![n] = c] /\ UNCHANGED proposals
      BY <1>3 DEF ModeBTimerFired, ModeBBook
    <2>2. /\ l.proposal_seen = b.proposal_seen /\ DOMAIN l = DOMAIN b /\ l = [x \in DOMAIN b |-> l[x]]
          /\ {"proposal_seen", "lock", "partials"} \subseteq DOMAIN b
      BY <1>1 DEF Leaderless, MacroBook
    <2>3. c.proposal_seen = l.proposal_seen
      <3> HIDE DEF l
      <3> QED BY <2>2 DEF ModeBBook, l
    <2> HIDE DEF c, l
    <2> QED BY <1>1, <2>1, <2>2, <2>3 DEF SeenGrows
  <1> QED BY <1>2, <1>3 DEF on_timer_fired

\* Whatever n does, it proposes nothing, what it has just built, or as the backup.
LEMMA Proposes ==
    ASSUME SafeInv, NEW n \in Honest, HonestNext(n)
    PROVE  /\ SeenGrows(n)
           /\ \/ proposals' = proposals
              \/ \E m \in Micro : ProposesBuilt(n, m)
              \/ ProposesBackup(n)
  <1>1. CASE MicroStep(n)
    BY <1>1, MicroProposes DEF MicroStep
  <1>2. CASE ProposalStep(n)
    BY <1>2, ProposalProposes DEF ProposalStep
  <1>3. CASE PartialStep(n)
    BY <1>3, PartialProposes DEF PartialStep
  <1>4. CASE QcStep(n)
    BY <1>4, QcProposes DEF QcStep
  <1>5. CASE TimerStep(n)
    BY <1>5, TimerProposes DEF TimerStep
  <1> QED BY <1>1, <1>2, <1>3, <1>4, <1>5 DEF HonestNext

\* What n has proposed keeps behind its book.
LEMMA OldProposals ==
    ASSUME RefillInv, NEW n \in Honest, NEW c \in MacroBook, BookStep(n, c),
           book[n].proposal_seen \subseteq c.proposal_seen
    PROVE  ProposedOf(n, c, emitted'[n], proposals)
  <1> DEFINE b == book[n]
             E == emitted[n]
  <1>1. /\ b \in MacroBook /\ ProposedOf(n, b, E, proposals) /\ emitted \in [Honest -> SUBSET Micro]
        /\ proposals \subseteq Proposal
    BY DEF RefillInv, CoverInv, SafeInv, Types
  <1>2. /\ b.micro_ring \in Seq(Micro) /\ Len(b.micro_ring) \in Nat /\ b.next_height \in Nat
    BY <1>1, LenProperties DEF MacroBook
  <1>h. \A p \in proposals : HeightOf(p.checkpoint) \in Nat
    BY <1>1, CheckpointFacts DEF Proposal
  <1>3. ASSUME c.next_height = b.next_height, c.last_macro_hash = b.last_macro_hash,
               E \subseteq emitted'[n], NEW X, X \cap E = {}, RingOf(c) \subseteq RingOf(b) \cup X
        PROVE  ProposedOf(n, c, emitted'[n], proposals)
    <2> SUFFICES ASSUME NEW p \in proposals, p.proposer = n
                 PROVE  /\ HeightOf(p.checkpoint) <= c.next_height
                        /\ HeightOf(p.checkpoint) = c.next_height =>
                              ParentOf(p.checkpoint) = c.last_macro_hash /\ c.next_height \in c.proposal_seen
                        /\ WindowOf(p.checkpoint) \subseteq emitted'[n]
                        /\ WindowOf(p.checkpoint) \cap RingOf(c) = {}
      BY DEF ProposedOf
    <2>1. /\ HeightOf(p.checkpoint) <= b.next_height
          /\ HeightOf(p.checkpoint) = b.next_height =>
                ParentOf(p.checkpoint) = b.last_macro_hash /\ b.next_height \in b.proposal_seen
          /\ WindowOf(p.checkpoint) \subseteq E /\ WindowOf(p.checkpoint) \cap RingOf(b) = {}
      BY <1>1 DEF ProposedOf
    <2>2. WindowOf(p.checkpoint) \subseteq emitted'[n] /\ WindowOf(p.checkpoint) \cap RingOf(c) = {}
      BY <1>3, <2>1
    <2> QED BY <1>3, <2>1, <2>2
  <1>5. ASSUME SameChain(b, c), c.micro_ring = b.micro_ring, UNCHANGED emitted
        PROVE  ProposedOf(n, c, emitted'[n], proposals)
    <2>1. RingOf(c) = RingOf(b)
      BY <1>5 DEF RingOf
    <2>2. {} \cap E = {} /\ RingOf(c) \subseteq RingOf(b) \cup {} /\ E \subseteq emitted'[n]
      BY <1>5, <2>1
    <2> QED BY <1>3, <1>5, <2>2 DEF SameChain
  <1>6. CASE Quiet(n, c)
    BY <1>5, <1>6 DEF Quiet
  <1>7. ASSUME NEW m \in Micro, MicroTaken(n, c, m) PROVE ProposedOf(n, c, emitted'[n], proposals)
    <2>1. m \notin E /\ emitted'[n] = E \cup {m} /\ SameChain(b, c)
      BY <1>1, <1>7 DEF MicroTaken
    <2>2. c.micro_ring = Append(b.micro_ring, m) \/ c.micro_ring = << >>
      BY <1>7 DEF MicroTaken, MicroPushed, MicroBuilt
    <2>3. RingOf(c) \subseteq RingOf(b) \cup {m}
      <3>1. CASE c.micro_ring = Append(b.micro_ring, m)
        <4> DEFINE r == b.micro_ring
                   s == c.micro_ring
        <4>1. /\ Len(s) = Len(r) + 1
              /\ \A i \in 1 .. Len(r) : s[i] = r[i]
              /\ s[Len(r) + 1] = m
          BY <1>2, <3>1, AppendProperties
        <4>2. \A i \in 1 .. Len(s) : i \in 1 .. Len(r) \/ i = Len(r) + 1
          BY <1>2, <4>1
        <4> QED BY <4>1, <4>2 DEF RingOf
      <3>2. CASE c.micro_ring = << >>
        <4>1. Len(c.micro_ring) = 0
          BY <3>2, EmptySeq
        <4> QED BY <4>1 DEF RingOf
      <3> QED BY <2>2, <3>1, <3>2
    <2>4. {m} \cap E = {} /\ E \subseteq emitted'[n]
      BY <2>1
    <2> QED BY <1>3, <2>1, <2>3, <2>4 DEF SameChain
  <1>8. ASSUME NEW k \in b.candidate, Voted(n, c, k) PROVE ProposedOf(n, c, emitted'[n], proposals)
    BY <1>5, <1>8 DEF Voted
  <1>9. ASSUME NEW k \in b.candidate, QcAdopted(n, c, k) PROVE ProposedOf(n, c, emitted'[n], proposals)
    <2>1. c.next_height = b.next_height + 1 /\ c.micro_ring = b.micro_ring /\ UNCHANGED emitted
      BY <1>9 DEF QcAdopted
    <2>2. RingOf(c) = RingOf(b)
      BY <2>1 DEF RingOf
    <2> SUFFICES ASSUME NEW p \in proposals, p.proposer = n
                 PROVE  /\ HeightOf(p.checkpoint) <= c.next_height
                        /\ HeightOf(p.checkpoint) # c.next_height
                        /\ WindowOf(p.checkpoint) \subseteq emitted'[n]
                        /\ WindowOf(p.checkpoint) \cap RingOf(c) = {}
      BY DEF ProposedOf
    <2>3. /\ HeightOf(p.checkpoint) <= b.next_height /\ HeightOf(p.checkpoint) \in Nat
          /\ WindowOf(p.checkpoint) \subseteq E /\ WindowOf(p.checkpoint) \cap RingOf(b) = {}
      BY <1>1, <1>h DEF ProposedOf
    <2>4. HeightOf(p.checkpoint) <= c.next_height /\ HeightOf(p.checkpoint) # c.next_height
      BY <1>2, <2>1, <2>3
    <2> QED BY <2>1, <2>2, <2>3, <2>4
  <1> QED BY <1>6, <1>7, <1>8, <1>9 DEF BookStep


\* Checkpoint k, which n proposes with book c, is a refill of whatever else n has
\* proposed for the height.
Fresh(n, c, k) ==
    /\ HeightOf(k) = c.next_height /\ ParentOf(k) = c.last_macro_hash
    /\ c.next_height \in c.proposal_seen
    /\ WindowOf(k) \subseteq emitted'[n] /\ WindowOf(k) \cap RingOf(c) = {}
    /\ \A p \in proposals : p.proposer = n /\ HeightOf(p.checkpoint) = HeightOf(k)
                                => Refilled(k, p.checkpoint)

LEMMA BuiltFresh ==
    ASSUME RefillInv, NEW n \in Honest, NEW m \in Micro, ProposesBuilt(n, m)
    PROVE  Fresh(n, book'[n], build(book[n].next_height, book[n].last_macro_hash,
                                    Append(book[n].micro_ring, m)))
  <1> DEFINE b == book[n]
             c == book'[n]
             E == emitted[n]
             h == b.next_height
             last == b.last_macro_hash
             r == b.micro_ring
             s == Append(r, m)
             k == build(h, last, s)
  <1>1. /\ b \in MacroBook /\ CoverOf(b, E) /\ ProposedOf(n, b, E, proposals)
        /\ W \in Nat
    BY BoundAssumption DEF RefillInv, CoverInv, SafeInv, Types
  <1>2. r \in Seq(Micro) /\ Len(r) \in Nat /\ last \in Hash
    BY <1>1, LenProperties DEF MacroBook
  <1>3. /\ s \in Seq(Micro)
        /\ Len(s) = Len(r) + 1
        /\ \A i \in 1 .. Len(r) : s[i] = r[i]
        /\ s[Len(r) + 1] = m
    BY <1>2, AppendProperties
  <1>4. /\ m \notin E /\ emitted'[n] = E \cup {m}
        /\ Len(r) + 1 >= W /\ h \in Height /\ h \in c.proposal_seen
        /\ c.next_height = h /\ c.last_macro_hash = last /\ c.micro_ring = << >>
    BY DEF ProposesBuilt, SameChain
  <1>5. Len(r) < W /\ RingOf(b) \subseteq E
    BY <1>1 DEF CoverOf
  <1>6. RingOf(c) = {}
    <2>1. Len(c.micro_ring) = 0
      BY <1>4, EmptySeq
    <2> QED BY <2>1 DEF RingOf
  <1> HIDE DEF s
  <1>7. HeightOf(k) = h /\ ParentOf(k) = last /\ k[Len(k)].root = s
    BY <1>2, <1>3, <1>4, BuildFacts
  <1> HIDE DEF k
  <1>8. WindowOf(k) \subseteq RingOf(b) \cup {m}
    <2>1. \A i \in 1 .. W : i \in 1 .. Len(r) \/ i = Len(r) + 1
      BY <1>1, <1>2, <1>5, <1>4
    <2>2. \A i \in 1 .. W : s[i] \in RingOf(b) \cup {m}
      BY <1>3, <2>1 DEF RingOf
    <2> QED BY <1>7, <2>2 DEF WindowOf
  <1>9. ASSUME NEW p \in proposals, p.proposer = n, HeightOf(p.checkpoint) = HeightOf(k)
        PROVE  Refilled(k, p.checkpoint)
    <2>1. /\ ParentOf(p.checkpoint) = last
          /\ WindowOf(p.checkpoint) \subseteq E /\ WindowOf(p.checkpoint) \cap RingOf(b) = {}
      BY <1>1, <1>7, <1>9 DEF ProposedOf
    <2> QED BY <1>4, <1>7, <1>8, <2>1 DEF Refilled
  <1>10. WindowOf(k) \subseteq emitted'[n]
    BY <1>4, <1>5, <1>8
  <1> QED BY <1>4, <1>6, <1>7, <1>9, <1>10 DEF Fresh, k, s

LEMMA BackupFresh ==
    ASSUME RefillInv, NEW n \in Honest, ProposesBackup(n),
           NEW k \in CandidateAt(book[n], book[n].next_height)
    PROVE  Fresh(n, book'[n], k)
  <1> DEFINE b == book[n]
             c == book'[n]
             E == emitted[n]
             h == b.next_height
  <1>1. /\ b \in MacroBook /\ CoverOf(b, E) /\ ProposedOf(n, b, E, proposals)
        /\ \A d \in b.candidate : CandidateOf(b, d)
    BY DEF RefillInv, CoverInv, SafeInv, Types, BookOf, ChainOf
  <1>2. /\ h \notin b.proposal_seen /\ h \in c.proposal_seen
        /\ c.next_height = h /\ c.last_macro_hash = b.last_macro_hash
        /\ c.micro_ring = b.micro_ring /\ emitted'[n] = E
    BY DEF ProposesBackup, SameChain
  <1>3. k \in b.candidate /\ HeightOf(k) = h /\ k \in Hash \ {Genesis}
    BY <1>1 DEF CandidateAt, MacroBook
  <1>4. ParentOf(k) = b.last_macro_hash
    BY <1>1, <1>3 DEF CandidateOf
  <1>5. WindowOf(k) \subseteq MicrosOf(k)
    <2>1. Len(k) \in 1 .. Len(k)
      BY <1>3, CheckpointFacts
    <2> QED BY <2>1 DEF WindowOf, MicrosOf
  <1>6. MicrosOf(k) \subseteq E /\ MicrosOf(k) \cap RingOf(b) = {}
    BY <1>1, <1>3 DEF CoverOf
  <1>7. RingOf(c) = RingOf(b)
    BY <1>2 DEF RingOf
  <1>8. \A p \in proposals : p.proposer = n => HeightOf(p.checkpoint) # h
    BY <1>1, <1>2 DEF ProposedOf
  <1>9. WindowOf(k) \subseteq emitted'[n] /\ WindowOf(k) \cap RingOf(c) = {}
    BY <1>2, <1>5, <1>6, <1>7
  <1> QED BY <1>2, <1>3, <1>4, <1>8, <1>9 DEF Fresh

\* n proposes the elements of K, of which there is one at most, with book c.
LEMMA NewProposals ==
    ASSUME RefillInv, NEW n \in Honest, NEW c \in MacroBook,
           ProposedOf(n, c, emitted'[n], proposals),
           NEW K, \A j, k \in K : j = k, \A k \in K : Fresh(n, c, k),
           \A p \in proposals' : p \in proposals \/ (p.proposer = n /\ p.checkpoint \in K)
    PROVE  /\ ProposedOf(n, c, emitted'[n], proposals')
           /\ \A p \in proposals' : p.proposer \in Honest
           /\ OnlyRefills(proposals')
  <1>1. \A p \in proposals' : p.proposer \in Honest
    BY DEF RefillInv
  <1>2. ProposedOf(n, c, emitted'[n], proposals')
    <2> SUFFICES ASSUME NEW p \in proposals', p.proposer = n
                 PROVE  /\ HeightOf(p.checkpoint) <= c.next_height
                        /\ HeightOf(p.checkpoint) = c.next_height =>
                              ParentOf(p.checkpoint) = c.last_macro_hash /\ c.next_height \in c.proposal_seen
                        /\ WindowOf(p.checkpoint) \subseteq emitted'[n]
                        /\ WindowOf(p.checkpoint) \cap RingOf(c) = {}
      BY DEF ProposedOf
    <2>1. CASE p \in proposals
      BY <2>1 DEF ProposedOf
    <2>2. CASE p.checkpoint \in K
      <3>1. c.next_height \in Nat
        BY DEF MacroBook
      <3>2. c.next_height <= c.next_height
        BY <3>1
      <3> QED BY <2>2, <3>2 DEF Fresh
    <2> QED BY <2>1, <2>2
  <1>3. ASSUME NEW p \in proposals', NEW q \in proposals', p.proposer = q.proposer,
               HeightOf(p.checkpoint) = HeightOf(q.checkpoint)
        PROVE  p.checkpoint = q.checkpoint \/ Refilled(p.checkpoint, q.checkpoint)
    <2>1. CASE p \in proposals /\ q \in proposals
      BY <1>3, <2>1 DEF RefillInv, OnlyRefills
    <2>2. CASE p.checkpoint \in K /\ q.checkpoint \in K
      BY <2>2
    <2>3. CASE p.proposer = n /\ p.checkpoint \in K /\ q \in proposals
      BY <1>3, <2>3 DEF Fresh
    <2>4. CASE q.proposer = n /\ q.checkpoint \in K /\ p \in proposals
      <3>1. Refilled(q.checkpoint, p.checkpoint)
        BY <1>3, <2>4 DEF Fresh
      <3> QED BY <3>1 DEF Refilled
    <2> QED BY <2>1, <2>2, <2>3, <2>4
  <1> QED BY <1>1, <1>2, <1>3 DEF OnlyRefills

LEMMA RefillStep ==
    ASSUME RefillInv, NEW n \in Honest, HonestNext(n), NEW c \in MacroBook, BookStep(n, c)
    PROVE  /\ ProposedOf(n, c, emitted'[n], proposals')
           /\ \A p \in proposals' : p.proposer \in Honest
           /\ OnlyRefills(proposals')
  <1>1. book \in [Honest -> MacroBook] /\ book' = [book EXCEPT ![n] = c] /\ SafeInv
    BY DEF RefillInv, CoverInv, SafeInv, Types, BookStep
  <1>2. book'[n] = c
    BY <1>1
  <1>3. /\ SeenGrows(n)
        /\ \/ proposals' = proposals
           \/ \E m \in Micro : ProposesBuilt(n, m)
           \/ ProposesBackup(n)
    BY <1>1, Proposes
  <1>4. book[n].proposal_seen \subseteq c.proposal_seen
    BY <1>2, <1>3 DEF SeenGrows
  <1>5. ProposedOf(n, c, emitted'[n], proposals)
    BY <1>4, OldProposals
  <1>6. CASE proposals' = proposals
    BY <1>5, <1>6 DEF RefillInv
  <1>7. ASSUME NEW m \in Micro, ProposesBuilt(n, m)
        PROVE  /\ ProposedOf(n, c, emitted'[n], proposals')
               /\ \A p \in proposals' : p.proposer \in Honest
               /\ OnlyRefills(proposals')
    <2> DEFINE k == build(book[n].next_height, book[n].last_macro_hash, Append(book[n].micro_ring, m))
               K == {k}
    <2>1. Fresh(n, c, k)
      BY <1>2, <1>7, BuiltFresh
    <2>2. \A p \in proposals' : p \in proposals \/ (p.proposer = n /\ p.checkpoint \in K)
      BY <1>7 DEF ProposesBuilt
    <2>3. (\A i, j \in K : i = j) /\ \A j \in K : Fresh(n, c, j)
      BY <2>1
    <2> HIDE DEF K
    <2> QED BY <1>5, <2>2, <2>3, NewProposals
  <1>8. CASE ProposesBackup(n)
    <2> DEFINE K == CandidateAt(book[n], book[n].next_height)
    <2>1. \A k \in K : Fresh(n, c, k)
      BY <1>2, <1>8, BackupFresh
    <2>2. \A p \in proposals' : p \in proposals \/ (p.proposer = n /\ p.checkpoint \in K)
      BY <1>8 DEF ProposesBackup
    <2>3. \A j, k \in K : j = k
      BY <1>1 DEF SafeInv, BookOf, MapsOf, IsMap, CandidateAt
    <2> HIDE DEF K
    <2> QED BY <1>5, <2>1, <2>2, <2>3, NewProposals
  <1> QED BY <1>3, <1>6, <1>7, <1>8


LEMMA RefillInit == Init => RefillInv
  <1> SUFFICES ASSUME Init PROVE RefillInv
    OBVIOUS
  <1>1. CoverInv /\ proposals = {}
    BY CoverInit DEF Init
  <1> QED BY <1>1 DEF RefillInv, ProposedOf, OnlyRefills

LEMMA RefillNext == RefillInv /\ [Next]_vars => RefillInv'
  <1> SUFFICES ASSUME RefillInv, [Next]_vars PROVE RefillInv'
    OBVIOUS
  <1>1. CoverInv' /\ SafeInv
    BY CoverNext DEF RefillInv, CoverInv
  <1>2. book \in [Honest -> MacroBook]
    BY <1>1 DEF SafeInv, Types
  <1>3. ASSUME NEW n \in Honest, HonestNext(n) PROVE RefillInv'
    <2>1. PICK c \in MacroBook : BookStep(n, c)
      BY <1>1, <1>3, HonestKinds
    <2>2. /\ ProposedOf(n, c, emitted'[n], proposals')
          /\ \A p \in proposals' : p.proposer \in Honest
          /\ OnlyRefills(proposals')
      BY <1>3, <2>1, RefillStep
    <2>3. \A m \in Honest \ {n} : emitted'[m] = emitted[m]
      BY <2>1, CoverStep DEF RefillInv
    <2>4. book' = [book EXCEPT ![n] = c]
      BY <2>1 DEF BookStep
    <2>5. \A p \in proposals' : p \in proposals \/ p.proposer = n
      <3>1. CASE proposals' = proposals
        BY <3>1
      <3>2. ASSUME NEW m \in Micro, ProposesBuilt(n, m)
            PROVE  \A p \in proposals' : p \in proposals \/ p.proposer = n
        BY <3>2 DEF ProposesBuilt
      <3>3. CASE ProposesBackup(n)
        BY <3>3 DEF ProposesBackup
      <3> QED BY <1>1, <1>3, <3>1, <3>2, <3>3, Proposes
    <2>6. ASSUME NEW m \in Honest PROVE ProposedOf(m, book'[m], emitted'[m], proposals')
      <3>1. CASE m = n
        BY <1>2, <2>2, <2>4, <3>1
      <3>2. CASE m # n
        <4>1. book'[m] = book[m] /\ emitted'[m] = emitted[m]
          BY <1>2, <2>3, <2>4, <3>2
        <4>2. ProposedOf(m, book[m], emitted[m], proposals)
          BY DEF RefillInv
        <4>3. \A p \in proposals' : p.proposer = m => p \in proposals
          BY <2>5, <3>2
        <4> QED BY <4>1, <4>2, <4>3 DEF ProposedOf
      <3> QED BY <3>1, <3>2
    <2> QED BY <1>1, <2>2, <2>6 DEF RefillInv
  <1>4. CASE UNCHANGED <<emitted, book, proposals>>
    BY <1>1, <1>4 DEF RefillInv
  <1>5. ASSUME NEW n \in Honest, NEW k \in book[n].candidate, ForgetfulAssemble(k)
        PROVE  UNCHANGED <<emitted, book, proposals>>
    BY <1>5 DEF ForgetfulAssemble
  <1>6. CASE UNCHANGED vars
    BY <1>4, <1>6 DEF vars
  <1> QED BY <1>3, <1>4, <1>5, <1>6 DEF Next

\* Receivers report an honest validator for one thing only: on_local_micro_qcs of
\* the accused filled a second window, with no micro checkpoint in common with the
\* first, on top of the same parent before the MacroQc of the first had come.
AccusedForRefills ==
    \A e \in evidence : e.offender \in Honest => Refilled(e.first, e.second)

\* Where MacroEquivocation evidence against honest validators comes from: the two
\* checkpoints that ReportEquivocation found are two windows on one parent that
\* share nothing, never two contents of one window, and neither the backup timer
\* nor a change of the height makes a validator propose twice.
THEOREM AccusedOnlyForRefills == Spec => []AccusedForRefills
  <1>1. RefillInv => AccusedForRefills
    <2> SUFFICES ASSUME RefillInv, NEW e \in evidence, e.offender \in Honest
                 PROVE  Refilled(e.first, e.second)
      BY DEF AccusedForRefills
    <2>1. e.kind = "MacroEquivocation" /\ verify_evidence(e)
      BY DEF RefillInv, CoverInv, SafeInv, VotesNeverSlashable
    <2>2. /\ HeightOf(e.first) = HeightOf(e.second) /\ e.first # e.second
          /\ ProposerSigned(e.offender, e.first) /\ ProposerSigned(e.offender, e.second)
      BY <2>1 DEF verify_evidence
    <2>3. e.offender \notin Forgetful
      BY ValidatorAssumption
    <2>4. PICK p \in proposals : p.proposer = e.offender /\ p.checkpoint = e.first
      BY <2>2, <2>3 DEF ProposerSigned
    <2>5. PICK q \in proposals : q.proposer = e.offender /\ q.checkpoint = e.second
      BY <2>2, <2>3 DEF ProposerSigned
    <2> QED BY <2>2, <2>4, <2>5 DEF RefillInv, OnlyRefills
  <1> QED BY <1>1, RefillInit, RefillNext, PTL DEF Spec

=============================================================================
