------------------------------- MODULE MacroFin -------------------------------
(***************************************************************************)
(* L3, macro-finality: the `macro_fin` handlers of the consensus crate for *)
(* a validator set below `subnet_flat_threshold` (Mode 0, with Mode B as   *)
(* the fallback).                                                          *)
(*                                                                         *)
(* Every W micro checkpoints a validator builds a macro checkpoint on top  *)
(* of the last one it adopted.  The primary proposes it, the others sign   *)
(* it (a "partial") if they have built the same one, and 2f+1 partials     *)
(* make a MacroQc, which every validator that holds the checkpoint adopts. *)
(* A checkpoint is final when its child is adopted.                        *)
(*                                                                         *)
(* Abstractions.  A hash is collision free, so a checkpoint is its own     *)
(* hash: the sequence of the windows of its chain.  The beacon of the host *)
(* is chained on every adopted MacroQc, so it is named by the last adopted *)
(* checkpoint.  A reputation is moved by every adoption in the same way,   *)
(* so it is the number of times it was.  Signatures cannot be forged.  The *)
(* network is the set of everything ever sent, from which any message may  *)
(* be delivered to anybody but its sender any number of times, in any      *)
(* order, or never.  Timers may fire at any moment.                        *)
(*                                                                         *)
(* Faults.  Every message comes from this code.  Some validators are down, *)
(* and some restart whenever they like: they boot with an empty MacroBook  *)
(* (runtime.rs), so that over their lives they may propose and sign        *)
(* anything that `build` can make.  Whatever they send is what the code    *)
(* makes: the hash of a proposal binds its parent and its windows, and a   *)
(* MacroQc is assembled from a quorum.  Receivers check neither of these,  *)
(* so nothing is said of senders that run other code.                      *)
(***************************************************************************)
EXTENDS Integers, Sequences, FiniteSets

CONSTANTS Validator,       \* the validator set of epoch 0; numbers, in the order of their ids
          Honest,          \* the validators that never restart
          Forgetful,       \* validators that restart and forget; the others are down
          Micro,           \* hashes of the micro checkpoints of L2
          W,               \* macro_window_w
          LeakTrigger,     \* inactivity_leak_trigger_windows
          Primary(_, _, _), Backup(_, _, _), \* the sortition: of a height, a beacon and reputations
          MaxHeight,       \* bound: the last macro height that is built
          ForgetfulProposal \* bound: what forgetful validators may propose in all their lives

ASSUME ValidatorAssumption ==
    /\ Validator \subseteq Nat
    /\ IsFiniteSet(Validator)
    /\ Validator # {}
    /\ Honest \subseteq Validator
    /\ Forgetful \subseteq Validator
    /\ Honest \cap Forgetful = {}

ASSUME BoundAssumption == MaxHeight \in Nat /\ W \in Nat \ {0} /\ LeakTrigger \in Nat

Height == 0 .. MaxHeight
Window == [height : Height, root : Seq(Micro)]

\* The hashes of checkpoints; the empty one is Hash32::zero().
Hash == Seq(Window)
Genesis == << >>

\* Mutant: the parent is left out of the checkpoint.
build_without_parent(h, parent, ring) == <<[height |-> h, root |-> ring]>>

build(h, parent, ring) == Append(parent, [height |-> h, root |-> ring])
HeightOf(c) == c[Len(c)].height
ParentOf(c) == SubSeq(c, 1, Len(c) - 1)

\* A proposal is what the code builds: its height, parent and micro_root are those
\* that its hash binds.
Proposal == [checkpoint : Hash \ {Genesis}, proposer : Validator, beacon : Hash]

ASSUME ForgetfulProposalAssumption ==
    /\ ForgetfulProposal \subseteq Proposal
    /\ \A p \in ForgetfulProposal : p.proposer \in Forgetful

F == (Cardinality(Validator) - 1) \div 3
\* Mutant: the threshold misses the "+ 1".
QuorumOfTwoThirds == 2 * F

quorum == 2 * F + 1

VARIABLES emitted,     \* emitted[n]: the micro checkpoints whose MicroQc L2 of n has emitted
          book,        \* book[n]: the MacroBook of honest validator n
          proposals,   \* every MacroProposal an honest validator ever broadcast
          partials,    \* every MACRO_CHECKPOINT signature of an honest validator
          qcs,         \* every checkpoint for which a MacroQc was broadcast
          evidence     \* every SlashEvidence of this layer emitted

vars == <<emitted, book, proposals, partials, qcs, evidence>>

Partial  == [checkpoint : Hash \ {Genesis}, voter : Honest]
Evidence == [kind : {"MacroEquivocation", "DoubleVote", "Surround"},
             offender : Validator, first : Hash, second : Hash]
Tier == {"SoftConfirmed", "Justified", "Finalized"}

\* A map from heights to checkpoints is the set of its values, an option the set
\* of at most one element.
MacroBook == [micro_ring          : Seq(Micro),
              next_height         : Nat,
              last_macro_hash     : Hash,
              candidate           : SUBSET (Hash \ {Genesis}),
              candidate_beacon    : SUBSET (Height \X Hash),
              partials            : SUBSET (Hash \X Validator),
              emitted_macro_qc    : SUBSET Hash,
              adopted             : SUBSET (Hash \ {Genesis}),
              justified_head      : SUBSET Hash,
              finalized_head      : SUBSET Hash,
              lock                : SUBSET (Hash \ {Genesis}),
              proposal_seen       : SUBSET Height,
              mode_b_active       : SUBSET Height,
              reputation          : [Validator -> Nat],
              backup_timers       : SUBSET Height,
              mode_b_timers       : SUBSET Height,
              votes               : SUBSET (Hash \ {Genesis}),
              proposals_seen      : SUBSET Proposal,
              unfinalized_windows : Nat,
              leak_notified       : BOOLEAN,
              blob_status         : SUBSET (Hash \X Tier)]

NewBook == [micro_ring          |-> << >>,
            next_height         |-> 0,
            last_macro_hash     |-> Genesis,
            candidate           |-> {},
            candidate_beacon    |-> {},
            partials            |-> {},
            emitted_macro_qc    |-> {},
            adopted             |-> {},
            justified_head      |-> {},
            finalized_head      |-> {},
            lock                |-> {},
            proposal_seen       |-> {},
            mode_b_active       |-> {},
            reputation          |-> [v \in Validator |-> 0],
            backup_timers       |-> {},
            mode_b_timers       |-> {},
            votes               |-> {},
            proposals_seen      |-> {},
            unfinalized_windows |-> 0,
            leak_notified       |-> FALSE,
            blob_status         |-> {}]

Init == /\ emitted = [n \in Honest |-> {}]
        /\ book = [n \in Honest |-> NewBook]
        /\ proposals = {}
        /\ partials = {}
        /\ qcs = {}
        /\ evidence = {}

-----------------------------------------------------------------------------
(***************************************************************************)
(* What a MacroBook answers.                                               *)
(***************************************************************************)

CandidateAt(b, h) == {c \in b.candidate : HeightOf(c) = h}

\* beacon_for_height: the beacon frozen for h, or else the current one.
BeaconFor(b, h) ==
    IF \E x \in b.candidate_beacon : x[1] = h
    THEN (CHOOSE x \in b.candidate_beacon : x[1] = h)[2]
    ELSE b.last_macro_hash

IsPrimary(b, n, h) == Primary(h, BeaconFor(b, h), b.reputation) = n
IsBackup(b, n, h) == Backup(h, BeaconFor(b, h), b.reputation) = n

\* The signers of c that book b knows.
SignersIn(b, c) == {v \in Validator : <<c, v>> \in b.partials}

\* Mutant: the lock is not looked at.
LockIgnored(b, c) == TRUE

\* LockMacro::try_lock succeeds: no other checkpoint of c's height is locked.
MayLock(b, c) == \A l \in b.lock : HeightOf(l) = HeightOf(c) => l = c

\* should_assemble_qc: n is the smallest signer it has seen.
should_assemble_qc(n, signers) == n \in signers /\ \A v \in signers : n <= v

\* Whose partial for c may arrive: a validator that forgets its votes and its
\* candidates may, in one of its lives, have signed whatever can be built.
Signers(c) == {m \in Honest : [checkpoint |-> c, voter |-> m] \in partials} \cup Forgetful

-----------------------------------------------------------------------------
(***************************************************************************)
(* The two-chain rule and the adoption of a MacroQc.                       *)
(***************************************************************************)

\* newly_finalized_height: the checkpoint below the justified head, if the head
\* is its child and it is not the finalized head already.
NewlyFinalized(b) ==
    {d \in b.adopted : \E head \in b.justified_head :
        HeightOf(d) + 1 = HeightOf(head) /\ ParentOf(head) = d /\ d \notin b.finalized_head}

\* TwoChainRule::adopt: the first checkpoint of a height stays.
adopt(b, c) ==
    LET adopted == IF \E d \in b.adopted : HeightOf(d) = HeightOf(c)
                   THEN b.adopted ELSE b.adopted \cup {c}
    IN  [b EXCEPT !.adopted = adopted,
                  !.justified_head = IF c \in adopted THEN {c} ELSE @]

\* Mutant: finality does not reset the count.
LagNotReset(b, fin) == b.unfinalized_windows + (IF fin # {} THEN 0 ELSE 1)

\* note_inactivity_leak_on_adoption: windows adopted since something became final.
Lag(b, fin) == IF fin # {} THEN 0 ELSE b.unfinalized_windows + 1

\* inactivity_leak::compute: whether the leak applies.
leak_applies(windows) == windows >= LeakTrigger

\* Reputation::updated for everybody who signed.
Rewarded(reputation, signers) ==
    [v \in Validator |-> IF v \in signers THEN reputation[v] + 1 ELSE reputation[v]]

SetTier(status, cs, tier) == {x \in status : x[1] \notin cs} \cup (cs \X {tier})

\* finish_macro_qc_adoption, and the same assignments in on_macro_qc_received:
\* book b adopts the MacroQc of c.
Adopted(b, c, signers) ==
    LET a == adopt(b, c)
        h == HeightOf(c)
        fin == NewlyFinalized(a)
        windows == Lag(b, fin)
        justified == SetTier(b.blob_status, {c}, "Justified")
        below == UNION {CandidateAt(b, HeightOf(d)) : d \in fin}
    IN  [a EXCEPT !.emitted_macro_qc    = @ \cup {c},
                  !.last_macro_hash     = c,
                  !.next_height         = h + 1,
                  !.proposal_seen       = @ \cup {h},
                  !.backup_timers       = @ \ {h},
                  !.mode_b_timers       = @ \ {h},
                  !.reputation          = Rewarded(@, signers),
                  !.unfinalized_windows = windows,
                  !.leak_notified       = fin = {} /\ (@ \/ leak_applies(windows)),
                  !.finalized_head      = IF fin # {} THEN fin ELSE @,
                  !.blob_status         = SetTier(justified, below, "Finalized")]

-----------------------------------------------------------------------------
(***************************************************************************)
(* The handlers.                                                           *)
(***************************************************************************)

\* on_local_micro_qcs, before the window is full.
PushMicro(n, m) ==
    /\ Len(book[n].micro_ring) + 1 < W
    /\ book' = [book EXCEPT ![n].micro_ring = Append(@, m)]
    /\ UNCHANGED <<proposals, partials, qcs, evidence>>

\* Mutant: the candidate that is there stays, next to the new one.
CandidateKept(b, c) ==
    [b EXCEPT !.micro_ring       = << >>,
              !.candidate        = @ \cup {c},
              !.candidate_beacon = {x \in @ : x[1] # HeightOf(c)} \cup {<<HeightOf(c), b.last_macro_hash>>}]

\* Mutant: only the oldest micro checkpoint leaves the ring (a sliding window).
RingNotCleared(b, c) ==
    [b EXCEPT !.micro_ring       = Tail(c[Len(c)].root),
              !.candidate        = (@ \ CandidateAt(b, HeightOf(c))) \cup {c},
              !.candidate_beacon = {x \in @ : x[1] # HeightOf(c)} \cup {<<HeightOf(c), b.last_macro_hash>>}]

\* The book with the candidate that the ring gives put into it.
WithCandidate(b, c) ==
    [b EXCEPT !.micro_ring       = << >>,
              !.candidate        = (@ \ CandidateAt(b, HeightOf(c))) \cup {c},
              !.candidate_beacon = {x \in @ : x[1] # HeightOf(c)} \cup {<<HeightOf(c), b.last_macro_hash>>}]

\* on_local_micro_qcs, when m fills the window: a new candidate for the next
\* height replaces the one that is there.
BuildCandidate(n, m) ==
    LET b == book[n]
        h == b.next_height
        c == build(h, b.last_macro_hash, Append(b.micro_ring, m))
        w == WithCandidate(b, c)
    IN  /\ Len(b.micro_ring) + 1 >= W
        /\ h <= MaxHeight
        /\ \/ /\ IsPrimary(w, n, h)
              /\ proposals' = proposals \cup
                     {[checkpoint |-> c, proposer |-> n, beacon |-> BeaconFor(w, h)]}
              /\ book' = [book EXCEPT ![n] = [w EXCEPT !.proposal_seen = @ \cup {h},
                                                      !.mode_b_timers = @ \cup {h}]]
           \/ /\ ~IsPrimary(w, n, h)
              /\ book' = [book EXCEPT ![n] =
                     [w EXCEPT !.backup_timers = IF IsBackup(w, n, h) THEN @ \cup {h} ELSE @,
                               !.mode_b_timers = @ \cup {h}]]
              /\ UNCHANGED proposals
        /\ UNCHANGED <<partials, qcs, evidence>>

\* L2 emits the MicroQc of m, once (its EmittedSet), and hands it over.
on_local_micro_qcs(n, m) ==
    /\ m \notin emitted[n]
    /\ emitted' = [emitted EXCEPT ![n] = @ \cup {m}]
    /\ PushMicro(n, m) \/ BuildCandidate(n, m)

\* The book of n when proposal p comes in: the beacon of its height is frozen.
Frozen(n, p) ==
    LET h == HeightOf(p.checkpoint)
    IN  [book[n] EXCEPT !.candidate_beacon =
            IF \E x \in @ : x[1] = h THEN @ ELSE @ \cup {<<h, book[n].last_macro_hash>>}]

\* verify_proposal: the VRF proof was made for the beacon the receiver has frozen.
Verified(n, p) == BeaconFor(Frozen(n, p), HeightOf(p.checkpoint)) = p.beacon

RejectProposal(n, p) ==
    /\ ~Verified(n, p)
    /\ book' = [book EXCEPT ![n] = Frozen(n, p)]
    /\ UNCHANGED <<emitted, proposals, partials, qcs, evidence>>

SeenOf(n, p) == {q \in book[n].proposals_seen :
                    q.proposer = p.proposer /\ HeightOf(q.checkpoint) = HeightOf(p.checkpoint)}

\* A second checkpoint of one proposer at one height.
ReportEquivocation(n, p) ==
    /\ Verified(n, p)
    /\ \E q \in SeenOf(n, p) :
         /\ q.checkpoint # p.checkpoint
         /\ evidence' = evidence \cup
                {[kind |-> "MacroEquivocation", offender |-> p.proposer,
                  first |-> q.checkpoint, second |-> p.checkpoint]}
    /\ UNCHANGED <<emitted, book, proposals, partials, qcs>>

\* Mutant: the parent is not compared with the last adopted checkpoint, nor the
\* checkpoint with the local candidate.
VotableUnlessLocked(n, p) == MayLock(book[n], p.checkpoint)

\* n is willing to sign the checkpoint of p.
Votable(n, p) ==
    LET b == Frozen(n, p)
        h == HeightOf(p.checkpoint)
    IN  /\ \/ h \in b.mode_b_active
           \/ IsPrimary(b, p.proposer, h)
           \/ IsBackup(b, p.proposer, h)
        /\ ParentOf(p.checkpoint) = b.last_macro_hash
        /\ p.checkpoint \in CandidateAt(b, h)
        /\ MayLock(b, p.checkpoint)

\* The proposal is remembered, and with it every later copy is dropped: it is not
\* scheduled, not built here (yet), or the lock forbids it.
IgnoreProposal(n, p) ==
    /\ Verified(n, p)
    /\ SeenOf(n, p) = {}
    /\ ~Votable(n, p)
    /\ book' = [book EXCEPT ![n] = [Frozen(n, p) EXCEPT !.proposals_seen = @ \cup {p}]]
    /\ UNCHANGED <<emitted, proposals, partials, qcs, evidence>>

\* The VoteBook of n holds its own votes only.
record(votes, c) == votes \cup {c}
votes_of(n) == book[n].votes

\* A vote for height h has source h - 1 (0 for height 0) and target h.
Source(c) == IF HeightOf(c) = 0 THEN 0 ELSE HeightOf(c) - 1
surrounds(c, d) == Source(c) < Source(d) /\ Source(d) <= HeightOf(d) /\ HeightOf(d) < HeightOf(c)

\* What the scans find when c joins the old votes of n.
scan_for_surround(n, old, c) ==
    {[kind |-> "Surround", offender |-> n, first |-> d, second |-> c] :
        d \in {d \in old : surrounds(c, d) \/ surrounds(d, c)}}
scan_for_double_vote(n, old, c) ==
    {[kind |-> "DoubleVote", offender |-> n, first |-> d, second |-> c] :
        d \in {d \in old : HeightOf(d) = HeightOf(c) /\ d # c}}

VoteForProposal(n, p) ==
    LET c == p.checkpoint
        h == HeightOf(c)
    IN  /\ Verified(n, p)
        /\ SeenOf(n, p) = {}
        /\ Votable(n, p)
        /\ book' = [book EXCEPT ![n] =
               [adopt(Frozen(n, p), c) EXCEPT
                    !.proposals_seen = @ \cup {p},
                    !.lock           = {c},
                    !.proposal_seen  = @ \cup {h},
                    !.backup_timers  = @ \ {h},
                    !.partials       = @ \cup {<<c, n>>},
                    !.votes          = record(@, c),
                    !.blob_status    = SetTier(@, {c}, "SoftConfirmed")]]
        /\ partials' = partials \cup {[checkpoint |-> c, voter |-> n]}
        /\ evidence' = evidence \cup scan_for_surround(n, votes_of(n), c)
                              \cup scan_for_double_vote(n, votes_of(n), c)
        /\ UNCHANGED <<emitted, proposals, qcs>>

\* Gossip does not deliver a proposal to its sender.
on_macro_proposal(n, p) ==
    /\ p.proposer # n
    /\ \/ RejectProposal(n, p)
       \/ ReportEquivocation(n, p)
       \/ IgnoreProposal(n, p)
       \/ VoteForProposal(n, p)

\* The book of n with the partial of m for c put into it.
Collected(n, c, m) == [book[n] EXCEPT !.partials = @ \cup {<<c, m>>}]

\* A partial for a candidate that is not adopted yet.
NewPartial(n, c, m) == /\ m \in Signers(c) \ {n}
                       /\ c \in book[n].candidate
                       /\ c \notin book[n].emitted_macro_qc

Assembles(n, signers) == should_assemble_qc(n, signers) /\ Cardinality(signers) >= quorum

CollectPartial(n, c, m) ==
    /\ NewPartial(n, c, m)
    /\ ~Assembles(n, SignersIn(Collected(n, c, m), c))
    /\ book' = [book EXCEPT ![n] = Collected(n, c, m)]
    /\ UNCHANGED <<emitted, proposals, partials, qcs, evidence>>

AssembleQc(n, c, m) ==
    LET b == Collected(n, c, m)
    IN  /\ NewPartial(n, c, m)
        /\ Assembles(n, SignersIn(b, c))
        /\ book' = [book EXCEPT ![n] = Adopted(b, c, SignersIn(b, c))]
        /\ qcs' = qcs \cup {c}
        /\ UNCHANGED <<emitted, proposals, partials, evidence>>

on_bls_partial(n, c, m) == CollectPartial(n, c, m) \/ AssembleQc(n, c, m)

\* verify_macro_qc: c was signed.  It does not ask by how many; that a quorum has
\* signed is the assembler's test.
verify_macro_qc(c) == Signers(c) # {}

on_macro_qc_received(n, c) ==
    /\ c \in book[n].candidate
    /\ c \notin book[n].emitted_macro_qc
    /\ verify_macro_qc(c)
    /\ book' = [book EXCEPT ![n] = Adopted(@, c, SignersIn(@, c))]
    /\ UNCHANGED <<emitted, proposals, partials, qcs, evidence>>

\* on_timer_fired with the backup timer of height h.
BackupTimerFired(n, h) ==
    LET b == [book[n] EXCEPT !.backup_timers = @ \ {h}]
        takes_over == h \notin b.proposal_seen /\ CandidateAt(b, h) # {} /\ IsBackup(b, n, h)
    IN  /\ h \in book[n].backup_timers
        /\ \/ /\ takes_over
              /\ proposals' = proposals \cup
                     {[checkpoint |-> c, proposer |-> n, beacon |-> BeaconFor(b, h)] : c \in CandidateAt(b, h)}
              /\ book' = [book EXCEPT ![n] = [b EXCEPT !.proposal_seen = @ \cup {h}]]
           \/ /\ ~takes_over
              /\ book' = [book EXCEPT ![n] = b]
              /\ UNCHANGED proposals
        /\ UNCHANGED <<emitted, partials, qcs, evidence>>

\* The book of n once the Mode B deadline of height h has passed.
Leaderless(n, h) ==
    [book[n] EXCEPT
        !.mode_b_timers = @ \ {h},
        !.mode_b_active = IF CandidateAt(book[n], h) \cap book[n].emitted_macro_qc = {}
                          THEN @ \cup {h} ELSE @]

\* Mutant: only a proposal that was accepted is signed.
ModeBSignsProposed(n, h) ==
    {c \in CandidateAt(book[n], h) : h \in book[n].proposal_seen /\ MayLock(book[n], c)}

\* Whoever has a candidate and may lock it signs it.
ModeBSigns(n, h) ==
    {c \in CandidateAt(book[n], h) : h \in Leaderless(n, h).mode_b_active /\ MayLock(book[n], c)}

\* on_timer_fired with the Mode B deadline of height h.
ModeBTimerFired(n, h) ==
    LET b == Leaderless(n, h)
        signs == ModeBSigns(n, h)
    IN  /\ h \in book[n].mode_b_timers
        /\ book' = [book EXCEPT ![n] =
               [b EXCEPT !.lock = IF signs # {} THEN signs ELSE @,
                         !.partials = @ \cup (signs \X {n})]]
        /\ partials' = partials \cup {[checkpoint |-> c, voter |-> n] : c \in signs}
        /\ UNCHANGED <<emitted, proposals, qcs, evidence>>

on_timer_fired(n, h) == BackupTimerFired(n, h) \/ ModeBTimerFired(n, h)

-----------------------------------------------------------------------------
\* A forgetful validator assembles a MacroQc from a quorum of partials, as
\* on_bls_partial does; its book is not followed.
ForgetfulAssemble(c) ==
    /\ Forgetful # {}
    /\ Cardinality(Signers(c)) >= quorum
    /\ qcs' = qcs \cup {c}
    /\ UNCHANGED <<emitted, book, proposals, partials, evidence>>

-----------------------------------------------------------------------------
MicroStep(n) == \E m \in Micro : on_local_micro_qcs(n, m)
ProposalStep(n) == \E p \in proposals \cup ForgetfulProposal : on_macro_proposal(n, p)
PartialStep(n) == \E c \in book[n].candidate, m \in Validator : on_bls_partial(n, c, m)
QcStep(n) == \E c \in qcs : on_macro_qc_received(n, c)
TimerStep(n) == \E h \in Height : on_timer_fired(n, h)

HonestNext(n) ==
    MicroStep(n) \/ ProposalStep(n) \/ PartialStep(n) \/ QcStep(n) \/ TimerStep(n)

Next == \/ \E n \in Honest : HonestNext(n)
        \/ \E n \in Honest : \E c \in book[n].candidate : ForgetfulAssemble(c)

Spec == Init /\ [][Next]_vars

-----------------------------------------------------------------------------
(***************************************************************************)
(* Properties.                                                             *)
(***************************************************************************)

\* A book's maps have one entry per height, its options one value at most.
IsMap(cs) == \A c, d \in cs : HeightOf(c) = HeightOf(d) => c = d
IsOption(S) == \A x, y \in S : x = y

\* Every piece of state has the shape the code gives it.
TypeOK == /\ emitted \in [Honest -> SUBSET Micro]
          /\ book \in [Honest -> MacroBook]
          /\ proposals \subseteq Proposal
          /\ partials \subseteq Partial
          /\ qcs \subseteq Hash \ {Genesis}
          /\ evidence \subseteq Evidence
          /\ \A n \in Honest :
                 /\ IsMap(book[n].candidate) /\ IsMap(book[n].adopted) /\ IsMap(book[n].votes)
                 /\ \A x, y \in book[n].candidate_beacon : x[1] = y[1] => x = y
                 /\ IsOption(book[n].lock)
                 /\ IsOption(book[n].justified_head)
                 /\ IsOption(book[n].finalized_head)

\* The lock_macro invariant: an honest validator never signs two checkpoints of
\* one height, although on_local_micro_qcs replaces its candidate, votes are
\* given both for proposals and by Mode B, and the lock remembers one height only.
OneVotePerHeight ==
    \A x, y \in partials :
        x.voter = y.voter /\ HeightOf(x.checkpoint) = HeightOf(y.checkpoint)
            => x.checkpoint = y.checkpoint

\* No two checkpoints of one height ever have a MacroQc.
MacroAgreement == \A c, d \in qcs : HeightOf(c) = HeightOf(d) => c = d

\* The log that the MacroQcs, the last adopted checkpoints and the finalized
\* heads of the books make up.
Log == INSTANCE MacroLog WITH
           Reader    <- Honest,
           certified <- qcs,
           view      <- [n \in Honest |-> book[n].last_macro_hash],
           final     <- [n \in Honest |-> IF book[n].finalized_head = {} THEN Genesis
                                          ELSE CHOOSE d \in book[n].finalized_head : TRUE]

\* Macro-finality implements the log: checkpoints are certified one on top of the
\* other and never beside each other, every validator adopts them in this order
\* and without a gap, and what it calls final is below what it has adopted and is
\* never taken back, although candidates are replaced, a vote enters the two-chain
\* rule before its MacroQc, and MacroQcs arrive in any order.
ImplementsLog == Log!Spec

\* Finality is agreed on: of any two checkpoints that two honest validators call
\* final or have adopted last, one is an ancestor of the other, although each
\* validator follows its own books, assembles from the partials it happened to see,
\* and never hears what another one has finalized.
Heads(n) == book[n].finalized_head \cup {book[n].last_macro_hash}
FinalsAgree ==
    \A m, n \in Honest : \A c \in Heads(m), d \in Heads(n) :
        Log!Prefix(c, d) \/ Log!Prefix(d, c)

\* Every checkpoint covers W micro checkpoints, and no micro checkpoint is covered
\* twice along its chain, however often candidates are replaced.
NoMicroTwice ==
    \A n \in Honest : \A c \in book[n].candidate :
        /\ \A i \in DOMAIN c : Len(c[i].root) = W
        /\ \A i, j \in DOMAIN c : \A k, l \in 1 .. W :
               c[i].root[k] = c[j].root[l] => i = j /\ k = l

\* verify_evidence, on signatures: an honest proposer has signed what it has
\* proposed, an honest voter what it has voted for, a forgetful one anything.
ProposerSigned(v, c) == v \in Forgetful \/ \E p \in proposals : p.proposer = v /\ p.checkpoint = c
VoteSigned(v, c) == v \in Forgetful \/ (v \in Honest /\ c \in votes_of(v))
verify_evidence(e) ==
    LET v == e.offender
        c == e.first
        d == e.second
    IN  CASE e.kind = "MacroEquivocation" ->
                HeightOf(c) = HeightOf(d) /\ c # d /\ ProposerSigned(v, c) /\ ProposerSigned(v, d)
          [] e.kind = "DoubleVote" -> c # d /\ VoteSigned(v, c) /\ VoteSigned(v, d)
          [] e.kind = "Surround" ->
                (surrounds(c, d) \/ surrounds(d, c)) /\ VoteSigned(v, c) /\ VoteSigned(v, d)

\* surround::scan and double_vote::scan, which every vote runs on the validator's
\* own votes, never find anything, and the equivocations that receivers report pass
\* the verifier that slashes with them.
VotesNeverSlashable ==
    \A e \in evidence : e.kind = "MacroEquivocation" /\ verify_evidence(e)

\* unfinalized_windows counts the adoptions since the last one that finalized
\* something: it measures how far finality lags behind.
LeakMeasuresLag ==
    \A n \in Honest :
        LET b == book[n]
        IN  /\ b.finalized_head = {} => b.unfinalized_windows = b.next_height
            /\ \A d \in b.finalized_head : HeightOf(d) + 2 + b.unfinalized_windows = b.next_height
            /\ b.leak_notified <=> b.unfinalized_windows >= LeakTrigger

\* The tier of a checkpoint, as persisted by UpdateBlobStatus, only ever rises.
Rank(b, c) == IF <<c, "Finalized">> \in b.blob_status THEN 3
              ELSE IF <<c, "Justified">> \in b.blob_status THEN 2
              ELSE IF <<c, "SoftConfirmed">> \in b.blob_status THEN 1 ELSE 0
TierNeverFalls ==
    [][\A n \in Honest : \A x \in book[n].blob_status :
            Rank(book'[n], x[1]) >= Rank(book[n], x[1])]_vars

=============================================================================
