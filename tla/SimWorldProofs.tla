--------------------------- MODULE SimWorldProofs ---------------------------
(***************************************************************************)
(* Theorems about Mode A on the simulator's bus, for any number of         *)
(* validators, any assignment to subnets, any partition and any losses,    *)
(* duplicates and delays: a MacroQc names a quorum of validators that have *)
(* all signed, everybody stores the same one, and the bus never leaves a   *)
(* message behind.                                                         *)
(***************************************************************************)
EXTENDS SimWorld, FiniteSetTheorems, SequenceTheorems, WellFoundedInduction, TLAPS

-----------------------------------------------------------------------------
(***************************************************************************)
(* Sequences.                                                              *)
(***************************************************************************)

\* A non-empty set of numbers has a least one.
LEMMA LeastNumber ==
    ASSUME NEW T \in SUBSET Nat, T # {}
    PROVE  \E x \in T : \A y \in T : x <= y
  <1> DEFINE R == OpToRel(<, Nat)
  <1>1. IsWellFoundedOn(R, Nat)
    BY NatLessThanWellFounded
  <1> HIDE DEF R
  <1>2. PICK x \in T : \A y \in T : ~ (<<y, x>> \in R)
    BY <1>1, WFMin
  <1>3. \A y \in T : ~(y < x)
    BY <1>2 DEF R, OpToRel
  <1> QED BY <1>2, <1>3

LEMMA SeqGrows ==
    ASSUME NEW S, NEW T, S \subseteq T, NEW q \in Seq(S)
    PROVE  q \in Seq(T)
  OBVIOUS

LEMMA ConcatType ==
    ASSUME NEW S, NEW q \in Seq(S), NEW r \in Seq(S)
    PROVE  q \o r \in Seq(S)
  OBVIOUS

LEMMA ElementIn ==
    ASSUME NEW S, NEW q \in Seq(S), NEW i \in 1 .. Len(q)
    PROVE  q[i] \in S
  OBVIOUS

LEMMA HeadTail ==
    ASSUME NEW S, NEW q \in Seq(S), q # << >>
    PROVE  Head(q) \in S /\ Tail(q) \in Seq(S)
  OBVIOUS

-----------------------------------------------------------------------------
(***************************************************************************)
(* What is said in the world while the validators in L have signed and the *)
(* primary's MacroQc is Q ({}: none).                                      *)
(***************************************************************************)

Locked(bs) == {v \in Validator : bs[v].locked}
Certified(bs) == bs[Primary].macro_qc

Qcs(Q) == {Q} \ {{}}
Message(L, Q) == [type : {"MacroProposal"}, from : Validator]
                   \cup [type : {"BlsPartial"}, from : L]
                   \cup [type : {"SubnetAggregate"}, subnet : Subnet, signers : SUBSET L]
                   \cup [type : {"MacroQc"}, signers : Qcs(Q)]
Event(L, Q) == Message(L, Q)
                 \cup [type : {"CertifiedVertex"}, round : Nat, author : Validator]
                 \cup [type : {"TimerFired"}, id : Nat]
Action(L, Q) == Message(L, Q)
                  \cup [type : {"PersistMacroQc"}, signers : Qcs(Q)]
                  \cup {BackupTimer}
Item(L, Q) == [do : {"step"}, v : Validator, e : Event(L, Q)]
                \cup [do : {"apply"}, v : Validator, e : Action(L, Q)]
                \cup [do : {"send"}, v : Validator, r : Validator, e : Message(L, Q)]
Flight(L, Q) == [recipient : Validator, event : Message(L, Q), deliver_at : Nat]

\* A later state of the world: more have signed, a MacroQc stays what it is.
Later(L, Q, M, R) == L \subseteq M /\ (Q # {} => R = Q)

LEMMA MessagesGrow ==
    ASSUME NEW L, NEW Q, NEW M, NEW R, Later(L, Q, M, R)
    PROVE  /\ Message(L, Q) \subseteq Message(M, R)
           /\ Event(L, Q) \subseteq Event(M, R)
           /\ Action(L, Q) \subseteq Action(M, R)
  <1>1. Qcs(Q) \subseteq Qcs(R) /\ L \subseteq M
    BY DEF Later, Qcs
  <1>2. Message(L, Q) \subseteq Message(M, R)
    BY <1>1 DEF Message
  <1>3. [type : {"PersistMacroQc"}, signers : Qcs(Q)] \subseteq [type : {"PersistMacroQc"}, signers : Qcs(R)]
    BY <1>1
  <1> QED BY <1>2, <1>3 DEF Event, Action

LEMMA ItemsGrow ==
    ASSUME NEW L, NEW Q, NEW M, NEW R, Later(L, Q, M, R)
    PROVE  Item(L, Q) \subseteq Item(M, R) /\ Flight(L, Q) \subseteq Flight(M, R)
  <1>1. /\ Message(L, Q) \subseteq Message(M, R)
        /\ Event(L, Q) \subseteq Event(M, R)
        /\ Action(L, Q) \subseteq Action(M, R)
    BY MessagesGrow
  <1> QED BY <1>1 DEF Item, Flight

\* A book holds signatures that were given, and adopts the primary's MacroQc.
BookIn(b, L, Q) == /\ b \in MacroBook
                   /\ b.partial_sigs \subseteq L
                   /\ b.partials \subseteq L
                   /\ \A s \in Subnet : b.subnet_aggs[s] \subseteq L
                   /\ b.macro_qc \in {{}, Q}

\* The primary's MacroQc has a quorum of signers.
QcIn(L, Q) == Q # {} => Q \subseteq L /\ Cardinality(Q) >= need(N)

LEMMA BookGrows ==
    ASSUME NEW L, NEW Q, NEW M, NEW R, Later(L, Q, M, R), NEW b, BookIn(b, L, Q)
    PROVE  BookIn(b, M, R)
  BY DEF Later, BookIn

\* What the step r of validator v makes of L and Q.
LockedBy(v, r, L) == IF r.book.locked THEN L \cup {v} ELSE L
CertifiedBy(v, r, Q) == IF v = Primary THEN r.book.macro_qc ELSE Q

StepIn(v, r, L, Q) ==
    /\ Later(L, Q, LockedBy(v, r, L), CertifiedBy(v, r, Q))
    /\ BookIn(r.book, LockedBy(v, r, L), CertifiedBy(v, r, Q))
    /\ QcIn(LockedBy(v, r, L), CertifiedBy(v, r, Q))
    /\ v \in L => r.book.locked
    /\ r.actions \in Seq(Action(LockedBy(v, r, L), CertifiedBy(v, r, Q)))

\* Validator v with book b, in a world where L have signed and Q is certified.
Before(v, b, L, Q) == /\ v \in Validator
                      /\ L \subseteq Validator
                      /\ BookIn(b, L, Q)
                      /\ QcIn(L, Q)
                      /\ v \in L <=> b.locked
                      /\ v = Primary => b.macro_qc = Q

\* A step that leaves the lock and the MacroQc alone.
LEMMA KeepStep ==
    ASSUME NEW v, NEW b, NEW L, NEW Q, Before(v, b, L, Q),
           NEW c, BookIn(c, L, Q), c.locked = b.locked, c.macro_qc = b.macro_qc,
           NEW as \in Seq(Action(L, Q))
    PROVE  StepIn(v, Result(c, as), L, Q)
  <1> DEFINE r == Result(c, as)
  <1>1. r.book = c /\ r.actions = as
    BY DEF Result
  <1>2. LockedBy(v, r, L) = L /\ CertifiedBy(v, r, Q) = Q
    BY <1>1 DEF LockedBy, CertifiedBy, Before
  <1> HIDE DEF r
  <1>3. StepIn(v, r, L, Q)
    BY <1>1, <1>2 DEF StepIn, Before, Later
  <1> QED BY <1>3 DEF r

\* A step in which v signs.
LEMMA SignStep ==
    ASSUME NEW v, NEW b, NEW L, NEW Q, Before(v, b, L, Q),
           NEW c, BookIn(c, L \cup {v}, Q), c.locked, c.macro_qc = b.macro_qc,
           NEW as \in Seq(Action(L \cup {v}, Q))
    PROVE  StepIn(v, Result(c, as), L, Q)
  <1> DEFINE r == Result(c, as)
  <1>1. r.book = c /\ r.actions = as
    BY DEF Result
  <1>2. LockedBy(v, r, L) = L \cup {v} /\ CertifiedBy(v, r, Q) = Q
    BY <1>1 DEF LockedBy, CertifiedBy, Before
  <1> HIDE DEF r
  <1>3. StepIn(v, r, L, Q)
    BY <1>1, <1>2 DEF StepIn, Before, Later, QcIn
  <1> QED BY <1>3 DEF r

LEMMA NoActions ==
    ASSUME NEW L, NEW Q
    PROVE  << >> \in Seq(Action(L, Q))
  OBVIOUS

LEMMA MicroStep ==
    ASSUME NEW v, NEW b, NEW L, NEW Q, Before(v, b, L, Q)
    PROVE  StepIn(v, on_local_micro_qcs(b, v), L, Q)
  <1> DEFINE c == [b EXCEPT !.candidate = TRUE]
             p == [c EXCEPT !.proposal_seen = TRUE]
             t == [c EXCEPT !.backup_timer = TRUE]
  <1>1. v \in Validator /\ b \in MacroBook /\ BookIn(b, L, Q)
    BY DEF Before, BookIn
  <1>2. BookIn(c, L, Q) /\ c.locked = b.locked /\ c.macro_qc = b.macro_qc
    BY <1>1 DEF MacroBook, BookIn
  <1>3. BookIn(p, L, Q) /\ p.locked = b.locked /\ p.macro_qc = b.macro_qc
    BY <1>1 DEF MacroBook, BookIn
  <1>4. BookIn(t, L, Q) /\ t.locked = b.locked /\ t.macro_qc = b.macro_qc
    BY <1>1 DEF MacroBook, BookIn
  <1>5. <<Proposal(v)>> \in Seq(Action(L, Q))
    <2>1. Proposal(v) \in Action(L, Q)
      BY <1>1 DEF Proposal, Action, Message
    <2> QED BY <2>1
  <1>6. <<BackupTimer>> \in Seq(Action(L, Q))
    BY DEF Action
  <1>7. on_local_micro_qcs(b, v) = CASE v = Primary -> Result(p, <<Proposal(v)>>)
                                     [] v = Backup  -> Result(t, <<BackupTimer>>)
                                     [] OTHER       -> Result(c, << >>)
    BY DEF on_local_micro_qcs
  <1>8. Backup # Primary
    BY ModeAAssumption
  <1> HIDE DEF c, p, t
  <1>9. CASE v = Primary
    <2>1. on_local_micro_qcs(b, v) = Result(p, <<Proposal(v)>>)
      BY <1>7, <1>8, <1>9
    <2>2. StepIn(v, Result(p, <<Proposal(v)>>), L, Q)
      BY <1>3, <1>5, KeepStep
    <2> QED BY <2>1, <2>2
  <1>10. CASE v = Backup
    <2>1. on_local_micro_qcs(b, v) = Result(t, <<BackupTimer>>)
      BY <1>7, <1>8, <1>10
    <2>2. StepIn(v, Result(t, <<BackupTimer>>), L, Q)
      BY <1>4, <1>6, KeepStep
    <2> QED BY <2>1, <2>2
  <1>11. CASE v # Primary /\ v # Backup
    <2>1. on_local_micro_qcs(b, v) = Result(c, << >>)
      BY <1>7, <1>11
    <2>2. StepIn(v, Result(c, << >>), L, Q)
      BY <1>2, NoActions, KeepStep
    <2> QED BY <2>1, <2>2
  <1> QED BY <1>9, <1>10, <1>11

LEMMA TimerStep ==
    ASSUME NEW v, NEW b, NEW L, NEW Q, Before(v, b, L, Q)
    PROVE  StepIn(v, on_timer_fired(b, v), L, Q)
  <1> DEFINE c == [b EXCEPT !.backup_timer = FALSE]
             p == [c EXCEPT !.proposal_seen = TRUE]
  <1>1. v \in Validator /\ b \in MacroBook /\ BookIn(b, L, Q)
    BY DEF Before, BookIn
  <1>2. BookIn(c, L, Q) /\ c.locked = b.locked /\ c.macro_qc = b.macro_qc
    BY <1>1 DEF MacroBook, BookIn
  <1>3. BookIn(p, L, Q) /\ p.locked = b.locked /\ p.macro_qc = b.macro_qc
    BY <1>1 DEF MacroBook, BookIn
  <1>4. <<Proposal(v)>> \in Seq(Action(L, Q))
    <2>1. Proposal(v) \in Action(L, Q)
      BY <1>1 DEF Proposal, Action, Message
    <2> QED BY <2>1
  <1>5. \/ on_timer_fired(b, v) = Result(b, << >>)
        \/ on_timer_fired(b, v) = Result(c, << >>)
        \/ on_timer_fired(b, v) = Result(p, <<Proposal(v)>>)
    BY DEF on_timer_fired
  <1> HIDE DEF c, p
  <1>6. StepIn(v, Result(b, << >>), L, Q)
    BY <1>1, NoActions, KeepStep
  <1>7. StepIn(v, Result(c, << >>), L, Q)
    BY <1>2, NoActions, KeepStep
  <1>8. StepIn(v, Result(p, <<Proposal(v)>>), L, Q)
    BY <1>3, <1>4, KeepStep
  <1> QED BY <1>5, <1>6, <1>7, <1>8

\* What a subnet's aggregator says names validators that have signed.
LEMMA SubnetActionIn ==
    ASSUME NEW b, NEW L, NEW Q, BookIn(b, L, Q), NEW v, NEW s \in Subnet
    PROVE  SubnetAction(b, v, s) \in Seq(Action(L, Q))
  <1> DEFINE signers == SubnetSigners(b, s)
  <1>1. signers \subseteq L
    BY DEF SubnetSigners, BookIn
  <1>2. Aggregate(s, signers) \in Action(L, Q)
    BY <1>1 DEF Aggregate, Action, Message
  <1>3. SubnetAction(b, v, s) = <<Aggregate(s, signers)>> \/ SubnetAction(b, v, s) = << >>
    BY DEF SubnetAction
  <1>4. <<Aggregate(s, signers)>> \in Seq(Action(L, Q))
    BY <1>2
  <1> QED BY <1>3, <1>4, NoActions

LEMMA ProposalStep ==
    ASSUME NEW v, NEW b, NEW L, NEW Q, Before(v, b, L, Q), NEW p, p.from \in Validator
    PROVE  StepIn(v, on_macro_proposal(b, v, p), L, Q)
  <1> DEFINE seen == [b EXCEPT !.proposals_seen = @ \cup {p.from}]
             signed == [seen EXCEPT !.locked = TRUE,
                                    !.proposal_seen = TRUE,
                                    !.backup_timer = FALSE,
                                    !.partials = @ \cup {v},
                                    !.partial_sigs = @ \cup {v}]
             as == <<Partial(v)>> \o SubnetAction(signed, v, Assign[v])
  <1>1. v \in Validator /\ b \in MacroBook /\ BookIn(b, L, Q)
    BY DEF Before, BookIn
  <1>2. BookIn(seen, L, Q) /\ seen.locked = b.locked /\ seen.macro_qc = b.macro_qc
    BY <1>1 DEF MacroBook, BookIn
  <1>3. BookIn(signed, L \cup {v}, Q) /\ signed.locked /\ signed.macro_qc = b.macro_qc
    BY <1>1 DEF MacroBook, BookIn
  <1>4. \/ on_macro_proposal(b, v, p) = Result(signed, as)
        \/ on_macro_proposal(b, v, p) = Result(seen, << >>)
    BY DEF on_macro_proposal
  <1> HIDE DEF seen, signed
  <1>5. as \in Seq(Action(L \cup {v}, Q))
    <2>1. Partial(v) \in Action(L \cup {v}, Q)
      BY DEF Partial, Action, Message
    <2>2. <<Partial(v)>> \in Seq(Action(L \cup {v}, Q))
      BY <2>1
    <2>3. Assign[v] \in Subnet
      BY <1>1 DEF Subnet
    <2>4. SubnetAction(signed, v, Assign[v]) \in Seq(Action(L \cup {v}, Q))
      BY <1>3, <2>3, SubnetActionIn
    <2> QED BY <2>2, <2>4, ConcatType
  <1> HIDE DEF as
  <1>6. StepIn(v, Result(signed, as), L, Q)
    BY <1>3, <1>5, SignStep
  <1>7. StepIn(v, Result(seen, << >>), L, Q)
    BY <1>2, NoActions, KeepStep
  <1> QED BY <1>4, <1>6, <1>7

\* The adoption of Q by somebody else than the primary.
LEMMA ReceivedStep ==
    ASSUME NEW v, NEW b, NEW L, NEW Q, Before(v, b, L, Q), NEW e, e.signers \in Qcs(Q)
    PROVE  StepIn(v, on_macro_qc_received(b, e), L, Q)
  <1> DEFINE c == Adopt(b, e.signers)
             as == <<PersistQc(e.signers)>>
  <1>1. v \in Validator /\ b \in MacroBook /\ BookIn(b, L, Q)
    BY DEF Before, BookIn
  <1>2. e.signers = Q /\ Q # {} /\ Q \subseteq Validator
    BY DEF Qcs, Before, QcIn
  <1>3. as \in Seq(Action(L, Q))
    BY DEF PersistQc, Action
  <1>4. CASE b.candidate /\ b.macro_qc = {} /\ verify_macro_qc(e)
    <2>1. on_macro_qc_received(b, e) = Result(c, as)
      BY <1>4 DEF on_macro_qc_received
    <2>2. v # Primary
      BY <1>2, <1>4 DEF Before
    <2>3. BookIn(c, L, Q) /\ c.locked = b.locked
      BY <1>1, <1>2 DEF MacroBook, BookIn, Adopt
    <2> HIDE DEF c, as
    <2> DEFINE r == Result(c, as)
    <2>4. r.book = c /\ r.actions = as
      BY DEF Result
    <2>5. LockedBy(v, r, L) = L /\ CertifiedBy(v, r, Q) = Q
      BY <2>2, <2>3, <2>4 DEF LockedBy, CertifiedBy, Before
    <2> HIDE DEF r
    <2>6. StepIn(v, r, L, Q)
      BY <1>3, <2>3, <2>4, <2>5 DEF StepIn, Before, Later
    <2> QED BY <2>1, <2>6 DEF r
  <1>5. CASE ~(b.candidate /\ b.macro_qc = {} /\ verify_macro_qc(e))
    <2>1. on_macro_qc_received(b, e) = Result(b, << >>)
      BY <1>5 DEF on_macro_qc_received
    <2> QED BY <1>1, <2>1, NoActions, KeepStep
  <1> QED BY <1>4, <1>5

\* The primary unites the subnet aggregates, if together they are a quorum.
LEMMA EmitStep ==
    ASSUME NEW v, NEW b, NEW L, NEW Q, Before(v, b, L, Q)
    PROVE  StepIn(v, try_emit_mode_a_qc(b, v), L, Q)
  <1> DEFINE signers == try_finalize_mode_a(b)
             c == Adopt(b, signers)
             as == <<Qc(signers), PersistQc(signers)>>
  <1>1. v \in Validator /\ b \in MacroBook /\ BookIn(b, L, Q) /\ L \subseteq Validator
    BY DEF Before, BookIn
  <1>2. signers # {} => signers \subseteq L /\ Cardinality(signers) >= need(N)
    BY <1>1 DEF try_finalize_mode_a, BookIn
  <1>3. CASE v = Primary /\ signers # {} /\ b.macro_qc = {}
    <2>1. try_emit_mode_a_qc(b, v) = Result(c, as)
      BY <1>3 DEF try_emit_mode_a_qc
    <2>2. Q = {}
      BY <1>3 DEF Before
    <2> HIDE DEF signers
    <2>3. BookIn(c, L, signers) /\ c.locked = b.locked /\ c.macro_qc = signers
      BY <1>1, <1>2, <1>3 DEF MacroBook, BookIn, Adopt
    <2>4. as \in Seq(Action(L, signers))
      BY <1>3 DEF PersistQc, Qc, Action, Message, Qcs
    <2> HIDE DEF c, as
    <2> DEFINE r == Result(c, as)
    <2>5. r.book = c /\ r.actions = as
      BY DEF Result
    <2>6. LockedBy(v, r, L) = L /\ CertifiedBy(v, r, Q) = signers
      BY <1>3, <2>3, <2>5 DEF LockedBy, CertifiedBy, Before
    <2> HIDE DEF r
    <2>7. StepIn(v, r, L, Q)
      BY <1>2, <2>2, <2>3, <2>4, <2>5, <2>6 DEF StepIn, Before, Later, QcIn
    <2> QED BY <2>1, <2>7 DEF r
  <1>4. CASE ~(v = Primary /\ signers # {} /\ b.macro_qc = {})
    <2>1. try_emit_mode_a_qc(b, v) = Result(b, << >>)
      BY <1>4 DEF try_emit_mode_a_qc
    <2> QED BY <1>1, <2>1, NoActions, KeepStep
  <1> QED BY <1>3, <1>4

\* Signatures and aggregates of validators that have signed are kept.
LEMMA StoredBefore ==
    ASSUME NEW v, NEW b, NEW L, NEW Q, Before(v, b, L, Q),
           NEW c, BookIn(c, L, Q), c.locked = b.locked, c.macro_qc = b.macro_qc
    PROVE  Before(v, c, L, Q)
  BY DEF Before

LEMMA PartialStep ==
    ASSUME NEW v, NEW b, NEW L, NEW Q, Before(v, b, L, Q), NEW e, e.from \in L
    PROVE  StepIn(v, on_bls_partial(b, v, e), L, Q)
  <1> DEFINE kept == [b EXCEPT !.partial_sigs = @ \cup {e.from}]
             counted == [kept EXCEPT !.partials = @ \cup {e.from}]
             emit == try_emit_mode_a_qc(counted, v)
             as == SubnetAction(counted, v, Assign[e.from])
  <1>1. /\ v \in Validator /\ b \in MacroBook /\ BookIn(b, L, Q)
        /\ L \subseteq Validator /\ e.from \in Validator
    BY DEF Before, BookIn
  <1>2. BookIn(kept, L, Q) /\ kept.locked = b.locked /\ kept.macro_qc = b.macro_qc
    BY <1>1 DEF MacroBook, BookIn
  <1>3. BookIn(counted, L, Q) /\ counted.locked = b.locked /\ counted.macro_qc = b.macro_qc
    BY <1>1 DEF MacroBook, BookIn
  <1>4. \/ on_bls_partial(b, v, e) = Result(b, << >>)
        \/ on_bls_partial(b, v, e) = Result(kept, << >>)
        \/ on_bls_partial(b, v, e) = Result(emit.book, as \o emit.actions)
    BY DEF on_bls_partial
  <1> HIDE DEF kept, counted
  <1>5. StepIn(v, emit, L, Q)
    BY <1>3, StoredBefore, EmitStep
  <1>6. as \in Seq(Action(L, Q))
    <2>1. Assign[e.from] \in Subnet
      BY <1>1 DEF Subnet
    <2> QED BY <1>3, <2>1, SubnetActionIn
  <1> HIDE DEF emit, as
  <1>7. StepIn(v, Result(emit.book, as \o emit.actions), L, Q)
    <2> DEFINE r == Result(emit.book, as \o emit.actions)
    <2>1. r.book = emit.book /\ r.actions = as \o emit.actions
      BY DEF Result
    <2> HIDE DEF r
    <2>2. LockedBy(v, r, L) = LockedBy(v, emit, L) /\ CertifiedBy(v, r, Q) = CertifiedBy(v, emit, Q)
      BY <2>1 DEF LockedBy, CertifiedBy
    <2> DEFINE M == LockedBy(v, emit, L)
               R == CertifiedBy(v, emit, Q)
    <2>3. emit.actions \in Seq(Action(M, R)) /\ Later(L, Q, M, R)
      BY <1>5 DEF StepIn
    <2>4. as \in Seq(Action(M, R))
      <3> HIDE DEF M, R
      <3>1. Action(L, Q) \subseteq Action(M, R)
        BY <2>3, MessagesGrow
      <3> QED BY <1>6, <3>1, SeqGrows
    <2>5. as \o emit.actions \in Seq(Action(M, R))
      <3> HIDE DEF M, R
      <3> QED BY <2>3, <2>4, ConcatType
    <2>6. StepIn(v, r, L, Q)
      BY <1>5, <2>1, <2>2, <2>5 DEF StepIn
    <2> QED BY <2>6 DEF r
  <1>8. StepIn(v, Result(b, << >>), L, Q)
    BY <1>1, NoActions, KeepStep
  <1>9. StepIn(v, Result(kept, << >>), L, Q)
    BY <1>2, NoActions, KeepStep
  <1> QED BY <1>4, <1>7, <1>8, <1>9

LEMMA AggregateStep ==
    ASSUME NEW v, NEW b, NEW L, NEW Q, Before(v, b, L, Q),
           NEW e, e.subnet \in Subnet, e.signers \subseteq L
    PROVE  StepIn(v, on_subnet_aggregate(b, v, e), L, Q)
  <1> DEFINE c == [b EXCEPT !.subnet_aggs[e.subnet] = e.signers]
  <1>1. v \in Validator /\ b \in MacroBook /\ BookIn(b, L, Q) /\ L \subseteq Validator
    BY DEF Before, BookIn
  <1>2. BookIn(c, L, Q) /\ c.locked = b.locked /\ c.macro_qc = b.macro_qc
    <2>1. b.subnet_aggs \in [Subnet -> SUBSET Validator]
      BY <1>1 DEF MacroBook
    <2> DEFINE a == [b.subnet_aggs EXCEPT ![e.subnet] = e.signers]
    <2>2. a \in [Subnet -> SUBSET Validator] /\ \A s \in Subnet : a[s] \subseteq L
      BY <1>1, <2>1 DEF BookIn
    <2>3. c = [b EXCEPT !.subnet_aggs = a]
      BY <1>1 DEF MacroBook
    <2> HIDE DEF a
    <2> QED BY <1>1, <2>2, <2>3 DEF MacroBook, BookIn
  <1>3. \/ on_subnet_aggregate(b, v, e) = Result(b, << >>)
        \/ on_subnet_aggregate(b, v, e) = try_emit_mode_a_qc(c, v)
    BY DEF on_subnet_aggregate
  <1> HIDE DEF c
  <1>4. StepIn(v, try_emit_mode_a_qc(c, v), L, Q)
    BY <1>2, StoredBefore, EmitStep
  <1>5. StepIn(v, Result(b, << >>), L, Q)
    BY <1>1, NoActions, KeepStep
  <1> QED BY <1>3, <1>4, <1>5

-----------------------------------------------------------------------------
(***************************************************************************)
(* The invariant of the signatures.                                        *)
(***************************************************************************)

World(bs, st, ag, pd) ==
    /\ bs \in [Validator -> MacroBook]
    /\ st \in [Validator -> SUBSET Validator]
    /\ \A v \in Validator : BookIn(bs[v], Locked(bs), Certified(bs))
    /\ QcIn(Locked(bs), Certified(bs))
    /\ \A v \in Validator : st[v] \in {{}, Certified(bs)}
    /\ ag \in Seq(Item(Locked(bs), Certified(bs)))
    /\ pd \in Seq(Flight(Locked(bs), Certified(bs)))

SignInv == /\ World(books, stored, agenda, pending)
           /\ now \in Nat /\ virtual_round \in Nat

LEMMA SignInit == Init => SignInv
  <1> SUFFICES ASSUME Init PROVE SignInv
    OBVIOUS
  <1>1. NewBook \in MacroBook
    BY DEF NewBook, MacroBook
  <1>2. books \in [Validator -> MacroBook] /\ \A v \in Validator : books[v] = NewBook
    BY <1>1 DEF Init
  <1>3. Certified(books) = {}
    BY <1>2, ModeAAssumption DEF Certified, NewBook
  <1>4. \A v \in Validator : BookIn(books[v], Locked(books), Certified(books))
    BY <1>1, <1>2, <1>3 DEF BookIn, NewBook
  <1>5. World(books, stored, agenda, pending)
    BY <1>2, <1>3, <1>4 DEF World, Init, QcIn
  <1> QED BY <1>5 DEF SignInv, Init

\* Any event a validator hears of is answered by a step in the sense of StepIn.
LEMMA AnyStep ==
    ASSUME NEW v, NEW L, NEW Q, Before(v, books[v], L, Q), NEW e \in Event(L, Q)
    PROVE  StepIn(v, Stepped(v, e), L, Q)
  <1>1. BookIn(books[v], L, Q)
    BY DEF Before
  <1>2. StepIn(v, Result(books[v], << >>), L, Q)
    BY <1>1, NoActions, KeepStep
  <1>3. CASE e \in [type : {"MacroProposal"}, from : Validator]
    <2>1. Stepped(v, e) = IF e.from \in suppress_macro_proposer THEN Result(books[v], << >>)
                          ELSE on_macro_proposal(books[v], v, e)
      BY <1>3 DEF Stepped
    <2>2. StepIn(v, on_macro_proposal(books[v], v, e), L, Q)
      BY <1>3, ProposalStep
    <2> QED BY <1>2, <2>1, <2>2
  <1>4. CASE e \in [type : {"BlsPartial"}, from : L]
    <2>1. Stepped(v, e) = on_bls_partial(books[v], v, e)
      BY <1>4 DEF Stepped
    <2> QED BY <1>4, <2>1, PartialStep
  <1>5. CASE e \in [type : {"SubnetAggregate"}, subnet : Subnet, signers : SUBSET L]
    <2>1. Stepped(v, e) = on_subnet_aggregate(books[v], v, e)
      BY <1>5 DEF Stepped
    <2>2. e.subnet \in Subnet /\ e.signers \subseteq L
      BY <1>5
    <2> QED BY <2>1, <2>2, AggregateStep
  <1>6. CASE e \in [type : {"MacroQc"}, signers : Qcs(Q)]
    <2>1. Stepped(v, e) = on_macro_qc_received(books[v], e)
      BY <1>6 DEF Stepped
    <2> QED BY <1>6, <2>1, ReceivedStep
  <1>7. CASE e \in [type : {"TimerFired"}, id : Nat]
    <2>1. Stepped(v, e) = on_timer_fired(books[v], v)
      BY <1>7 DEF Stepped
    <2> QED BY <2>1, TimerStep
  <1>8. CASE e \in [type : {"CertifiedVertex"}, round : Nat, author : Validator]
    <2>1. Stepped(v, e) = IF FillsWindow(books[v], e) THEN on_local_micro_qcs(books[v], v)
                          ELSE Result(books[v], << >>)
      BY <1>8 DEF Stepped
    <2> QED BY <1>2, <2>1, MicroStep
  <1> QED BY <1>3, <1>4, <1>5, <1>6, <1>7, <1>8 DEF Event, Message

LEMMA HeadTailWork ==
    ASSUME NEW L, NEW Q, agenda \in Seq(Item(L, Q)), agenda # << >>
    PROVE  Head(agenda) \in Item(L, Q) /\ Tail(agenda) \in Seq(Item(L, Q))
  <1> DEFINE S == Item(L, Q)
  <1> HIDE DEF S
  <1>1. agenda \in Seq(S) => Head(agenda) \in S /\ Tail(agenda) \in Seq(S)
    BY HeadTail
  <1> QED BY <1>1 DEF S

\* The kind of work tells what it carries.
LEMMA ItemKinds ==
    ASSUME NEW L, NEW Q, NEW w \in Item(L, Q)
    PROVE  /\ w.v \in Validator
           /\ w.do = "step" => w.e \in Event(L, Q)
           /\ w.do = "apply" => w.e \in Action(L, Q)
           /\ w.do = "send" => w.r \in Validator /\ w.e \in Message(L, Q)
  BY DEF Item

LEMMA ActionKinds ==
    ASSUME NEW L, NEW Q, NEW a \in Action(L, Q)
    PROVE  /\ a.type \in {"MacroProposal", "BlsPartial", "SubnetAggregate", "MacroQc"}
                => a \in Message(L, Q)
           /\ a.type \in {"MacroQc", "PersistMacroQc"} => a.signers \in Qcs(Q)
  BY DEF Action, Message, BackupTimer

LEMMA StepWork ==
    ASSUME SignInv, agenda # << >>, StepValidator
    PROVE  SignInv'
  <1> DEFINE L == Locked(books)
             Q == Certified(books)
             w == Head(agenda)
             r == Stepped(w.v, w.e)
             M == LockedBy(w.v, r, L)
             R == CertifiedBy(w.v, r, Q)
  <1>1. /\ books \in [Validator -> MacroBook]
        /\ stored \in [Validator -> SUBSET Validator]
        /\ \A v \in Validator : BookIn(books[v], L, Q)
        /\ QcIn(L, Q)
        /\ \A v \in Validator : stored[v] \in {{}, Q}
        /\ agenda \in Seq(Item(L, Q))
        /\ pending \in Seq(Flight(L, Q))
    BY DEF SignInv, World
  <1>2. w \in Item(L, Q) /\ Tail(agenda) \in Seq(Item(L, Q))
    BY <1>1, HeadTailWork
  <1>3. w.v \in Validator /\ w.e \in Event(L, Q)
    BY <1>2, ItemKinds DEF StepValidator
  <1>4. Before(w.v, books[w.v], L, Q)
    BY <1>1, <1>3 DEF Before, Locked, Certified, MacroBook
  <1>5. StepIn(w.v, r, L, Q)
    <2> HIDE DEF L, Q, w
    <2> QED BY <1>3, <1>4, AnyStep
  <1>6. books' = [books EXCEPT ![w.v] = r.book] /\ agenda' = Applies(w.v, r.actions) \o Tail(agenda)
        /\ stored' = stored /\ pending' = pending /\ now' = now /\ virtual_round' = virtual_round
    BY DEF StepValidator
  <1> HIDE DEF w, r
  <1>7. /\ r.book \in MacroBook
        /\ Later(L, Q, M, R) /\ BookIn(r.book, M, R) /\ QcIn(M, R)
        /\ r.actions \in Seq(Action(M, R))
        /\ w.v \in L => r.book.locked
    BY <1>5 DEF StepIn, BookIn
  <1>8. books' \in [Validator -> MacroBook]
    BY <1>1, <1>3, <1>6, <1>7
  <1>9. Locked(books') = M /\ Certified(books') = R
    <2>1. Certified(books') = R
      BY <1>1, <1>3, <1>6, ModeAAssumption DEF Certified, CertifiedBy
    <2>2. Locked(books') = M
      BY <1>1, <1>3, <1>6, <1>7 DEF Locked, LockedBy
    <2> QED BY <2>1, <2>2
  <1> HIDE DEF L, Q, M, R
  <1>10. \A v \in Validator : BookIn(books'[v], M, R)
    <2> SUFFICES ASSUME NEW v \in Validator PROVE BookIn(books'[v], M, R)
      OBVIOUS
    <2>1. CASE v = w.v
      BY <1>1, <1>3, <1>6, <1>7, <2>1
    <2>2. CASE v # w.v
      <3>1. books'[v] = books[v]
        BY <1>1, <1>3, <1>6, <2>2
      <3>2. BookIn(books[v], M, R)
        BY <1>1, <1>7, BookGrows
      <3> QED BY <3>1, <3>2
    <2> QED BY <2>1, <2>2
  <1>11. \A v \in Validator : stored'[v] \in {{}, R}
    BY <1>1, <1>6, <1>7 DEF Later
  <1>12. Item(L, Q) \subseteq Item(M, R) /\ Flight(L, Q) \subseteq Flight(M, R)
    BY <1>7, ItemsGrow
  <1>13. pending' \in Seq(Flight(M, R))
    BY <1>1, <1>6, <1>12, SeqGrows
  <1>14. agenda' \in Seq(Item(M, R))
    <2>1. Tail(agenda) \in Seq(Item(M, R))
      BY <1>2, <1>12, SeqGrows
    <2>2. Applies(w.v, r.actions) \in Seq(Item(M, R))
      <3>1. r.actions \in Seq(Action(M, R))
        BY <1>7
      <3>2. \A i \in 1 .. Len(r.actions) : r.actions[i] \in Action(M, R)
        BY <3>1
      <3>3. \A a \in Action(M, R) : Apply(w.v, a) \in Item(M, R)
        BY <1>3 DEF Apply, Item
      <3>4. DOMAIN r.actions = 1 .. Len(r.actions) /\ Len(r.actions) \in Nat
        BY <3>1
      <3>5. Applies(w.v, r.actions) = [i \in 1 .. Len(r.actions) |-> Apply(w.v, r.actions[i])]
        BY <3>4 DEF Applies
      <3>6. \A i \in 1 .. Len(r.actions) : Apply(w.v, r.actions[i]) \in Item(M, R)
        BY <3>2, <3>3
      <3> QED BY <3>4, <3>5, <3>6
    <2> QED BY <1>6, <2>1, <2>2, ConcatType
  <1>15. World(books', stored', agenda', pending')
    BY <1>1, <1>6, <1>7, <1>8, <1>9, <1>10, <1>11, <1>13, <1>14 DEF World
  <1> QED BY <1>6, <1>15 DEF SignInv

-----------------------------------------------------------------------------
(***************************************************************************)
(* The bus.                                                                *)
(***************************************************************************)

InOrder(q) == \A i, j \in DOMAIN q : i < j => q[i].deliver_at <= q[j].deliver_at

\* Where enqueue puts a message: behind the first p of the queue.
Place(q, m) == Cardinality({i \in DOMAIN q : q[i].deliver_at <= m.deliver_at})
Placed(q, m, p) == [i \in 1 .. Len(q) + 1 |->
                        IF i <= p THEN q[i] ELSE IF i = p + 1 THEN m ELSE q[i - 1]]

LEMMA CountTo ==
    ASSUME NEW n \in Nat
    PROVE  IsFiniteSet(1 .. n) /\ Cardinality(1 .. n) = n
  BY FS_Interval

LEMMA PlaceIn ==
    ASSUME NEW S, NEW q \in Seq(S), NEW m
    PROVE  Place(q, m) \in 0 .. Len(q)
  <1> DEFINE T == {i \in DOMAIN q : q[i].deliver_at <= m.deliver_at}
  <1>1. T \subseteq 1 .. Len(q) /\ Len(q) \in Nat
    OBVIOUS
  <1>2. IsFiniteSet(1 .. Len(q)) /\ Cardinality(1 .. Len(q)) = Len(q)
    <2> DEFINE n == Len(q)
    <2>1. n \in Nat
      BY <1>1
    <2> HIDE DEF n
    <2>2. IsFiniteSet(1 .. n) /\ Cardinality(1 .. n) = n
      BY <2>1, CountTo
    <2> QED BY <2>2 DEF n
  <1> HIDE DEF T
  <1>3. Cardinality(T) <= Len(q) /\ IsFiniteSet(T)
    BY <1>1, <1>2, FS_Subset
  <1>4. Cardinality(T) \in Nat
    BY <1>3, FS_CardinalityType
  <1> QED BY <1>1, <1>3, <1>4 DEF Place, T

LEMMA EnqueueIs ==
    ASSUME NEW S, NEW q \in Seq(S), NEW m \in S
    PROVE  /\ enqueue(q, m) = Placed(q, m, Place(q, m))
           /\ enqueue(q, m) \in Seq(S)
           /\ Len(enqueue(q, m)) = Len(q) + 1
  <1> DEFINE p == Place(q, m)
             a == SubSeq(q, 1, p)
             z == SubSeq(q, p + 1, Len(q))
  <1>1. p \in 0 .. Len(q) /\ Len(q) \in Nat
    BY PlaceIn
  <1>2. enqueue(q, m) = a \o <<m>> \o z
    BY DEF enqueue, Place
  <1> HIDE DEF p
  <1>3. a \in Seq(S) /\ Len(a) = p /\ \A i \in 1 .. p : a[i] = q[i]
    BY <1>1
  <1>4. z \in Seq(S) /\ Len(z) = Len(q) - p /\ \A i \in 1 .. Len(q) - p : z[i] = q[p + i]
    BY <1>1
  <1> HIDE DEF a, z
  <1> DEFINE y == a \o <<m>>
             r == y \o z
  <1>5. y \in Seq(S) /\ Len(y) = p + 1 /\ y[p + 1] = m /\ \A i \in 1 .. p : y[i] = q[i]
    BY <1>1, <1>3
  <1> HIDE DEF y
  <1>6. r \in Seq(S) /\ Len(r) = Len(q) + 1
    <2>1. r \in Seq(S)
      BY <1>4, <1>5, ConcatType
    <2>2. Len(r) = Len(y) + Len(z)
      BY <1>4, <1>5, ConcatProperties
    <2> QED BY <1>1, <1>4, <1>5, <2>1, <2>2
  <1>8. ASSUME NEW i \in 1 .. Len(q) + 1
        PROVE  r[i] = Placed(q, m, p)[i]
    <2>1. CASE i <= p
      <3>1. r[i] = y[i] /\ i \in 1 .. p
        BY <1>1, <1>4, <1>5, <2>1
      <3> QED BY <1>1, <1>5, <2>1, <3>1 DEF Placed
    <2>2. CASE i = p + 1
      <3>1. r[i] = y[i] /\ ~(i <= p)
        BY <1>1, <1>4, <1>5, <2>2
      <3> QED BY <1>1, <1>5, <2>2, <3>1 DEF Placed
    <2>3. CASE i > p + 1
      <3>1. i - (p + 1) \in 1 .. Len(q) - p
        BY <1>1, <2>3
      <3>2. r[i] = z[i - (p + 1)]
        BY <1>1, <1>4, <1>5, <2>3, <3>1
      <3>3. z[i - (p + 1)] = q[p + (i - (p + 1))]
        BY <1>4, <3>1
      <3>4. p + (i - (p + 1)) = i - 1 /\ ~(i <= p) /\ i # p + 1
        BY <1>1, <2>3
      <3>5. Placed(q, m, p)[i] = q[i - 1]
        BY <3>4 DEF Placed
      <3> QED BY <3>2, <3>3, <3>4, <3>5
    <2>4. i <= p \/ i = p + 1 \/ i > p + 1
      BY <1>1
    <2> QED BY <2>1, <2>2, <2>3, <2>4
  <1>7. r = Placed(q, m, p)
    <2>1. r = [i \in 1 .. Len(q) + 1 |-> r[i]]
      <3> HIDE DEF r
      <3>1. DOMAIN r = 1 .. Len(r) /\ r = [i \in DOMAIN r |-> r[i]]
        BY <1>6
      <3> QED BY <1>6, <3>1
    <2> HIDE DEF r
    <2> QED BY <1>8, <2>1 DEF Placed
  <1> QED BY <1>2, <1>6, <1>7 DEF p, y

\* In a queue that is in order, the messages due no later are the first ones.
LEMMA PlaceSplits ==
    ASSUME NEW S, NEW q \in Seq(S), \A x \in S : x.deliver_at \in Nat, InOrder(q),
           NEW m \in S
    PROVE  \A i \in 1 .. Len(q) : i <= Place(q, m) <=> q[i].deliver_at <= m.deliver_at
  <1> DEFINE T == {i \in DOMAIN q : q[i].deliver_at <= m.deliver_at}
             U == {i \in DOMAIN q : ~(q[i].deliver_at <= m.deliver_at)}
  <1>1. /\ DOMAIN q = 1 .. Len(q) /\ Len(q) \in Nat /\ m.deliver_at \in Nat
        /\ \A i \in 1 .. Len(q) : q[i].deliver_at \in Nat
    OBVIOUS
  <1>2. PICK n \in 0 .. Len(q) : T = 1 .. n
    <2>1. CASE U = {}
      <3>1. T = 1 .. Len(q)
        BY <1>1, <2>1
      <3> QED BY <1>1, <3>1
    <2>2. CASE U # {}
      <3>1. U \in SUBSET Nat
        BY <1>1
      <3>2. PICK u \in U : \A k \in U : u <= k
        <4> HIDE DEF U
        <4> QED BY <2>2, <3>1, LeastNumber
      <3>3. \A i \in DOMAIN q : i \in T <=> i < u
        BY <1>1, <3>2 DEF InOrder
      <3>4. T = 1 .. u - 1 /\ u - 1 \in 0 .. Len(q)
        BY <1>1, <3>2, <3>3
      <3> QED BY <3>4
    <2> QED BY <2>1, <2>2
  <1>3. Place(q, m) = n
    <2>1. Cardinality(1 .. n) = n
      BY <1>2, FS_Interval
    <2> QED BY <1>2, <2>1 DEF Place
  <1> QED BY <1>1, <1>2, <1>3

LEMMA EnqueueInOrder ==
    ASSUME NEW S, NEW q \in Seq(S), \A x \in S : x.deliver_at \in Nat, InOrder(q),
           NEW m \in S
    PROVE  InOrder(enqueue(q, m))
  <1> DEFINE p == Place(q, m)
             r == Placed(q, m, p)
  <1>1. enqueue(q, m) = r
    BY EnqueueIs
  <1>2. p \in 0 .. Len(q) /\ Len(q) \in Nat
    BY PlaceIn
  <1>3. \A i \in 1 .. Len(q) : i <= p <=> q[i].deliver_at <= m.deliver_at
    BY PlaceSplits
  <1>4. /\ m.deliver_at \in Nat /\ \A i \in 1 .. Len(q) : q[i].deliver_at \in Nat
        /\ DOMAIN q = 1 .. Len(q)
    OBVIOUS
  <1> HIDE DEF p
  <1>5. DOMAIN r = 1 .. Len(q) + 1
    BY DEF Placed
  <1>6. ASSUME NEW i \in 1 .. Len(q) + 1, NEW j \in 1 .. Len(q) + 1, i < j
        PROVE  r[i].deliver_at <= r[j].deliver_at
    <2>1. CASE j <= p
      BY <1>2, <1>4, <1>6, <2>1 DEF Placed, InOrder
    <2>2. CASE j = p + 1
      BY <1>2, <1>3, <1>4, <1>6, <2>2 DEF Placed, InOrder
    <2>3. CASE j > p + 1 /\ i <= p
      <3>1. i < j - 1 \/ i = j - 1
        BY <1>2, <1>6, <2>3
      <3>2. i \in 1 .. Len(q) /\ j - 1 \in 1 .. Len(q)
        BY <1>2, <1>6, <2>3
      <3>3. q[i].deliver_at <= q[j - 1].deliver_at
        <4>1. CASE i = j - 1
          BY <1>4, <3>2, <4>1
        <4>2. CASE i < j - 1
          BY <1>4, <3>2, <4>2 DEF InOrder
        <4> QED BY <3>1, <4>1, <4>2
      <3>4. r[i] = q[i] /\ r[j] = q[j - 1]
        BY <1>2, <2>3 DEF Placed
      <3> QED BY <3>3, <3>4
    <2>4. CASE j > p + 1 /\ i = p + 1
      <3>1. j - 1 \in 1 .. Len(q) /\ ~(j - 1 <= p)
        BY <1>2, <2>4
      <3>2. ~(q[j - 1].deliver_at <= m.deliver_at)
        BY <1>3, <3>1
      <3> QED BY <1>2, <1>4, <2>4, <3>1, <3>2 DEF Placed
    <2>5. CASE j > p + 1 /\ i > p + 1
      <3>1. i - 1 \in 1 .. Len(q) /\ j - 1 \in 1 .. Len(q) /\ i - 1 < j - 1
        BY <1>2, <1>6, <2>5
      <3>2. q[i - 1].deliver_at <= q[j - 1].deliver_at
        BY <1>4, <3>1 DEF InOrder
      <3>3. r[i] = q[i - 1] /\ r[j] = q[j - 1]
        BY <1>2, <2>5 DEF Placed
      <3> QED BY <3>2, <3>3
    <2> QED BY <1>2, <2>1, <2>2, <2>3, <2>4, <2>5
  <1> QED BY <1>1, <1>5, <1>6 DEF InOrder

\* Everything on the bus is due after t, or at t if messages take no time.
After(q, t) == \A i \in DOMAIN q : /\ q[i].deliver_at >= t
                                   /\ BaseDelay > 0 => q[i].deliver_at > t

LEMMA EnqueueAfter ==
    ASSUME NEW S, NEW q \in Seq(S), NEW m \in S, NEW t, After(q, t),
           m.deliver_at >= t, BaseDelay > 0 => m.deliver_at > t
    PROVE  After(enqueue(q, m), t)
  <1> DEFINE p == Place(q, m)
  <1>1. enqueue(q, m) = Placed(q, m, p)
    BY EnqueueIs
  <1>2. p \in 0 .. Len(q) /\ Len(q) \in Nat /\ DOMAIN q = 1 .. Len(q)
    BY PlaceIn
  <1> HIDE DEF p
  <1>3. \A i \in 1 .. Len(q) + 1 : /\ Placed(q, m, p)[i].deliver_at >= t
                                   /\ BaseDelay > 0 => Placed(q, m, p)[i].deliver_at > t
    BY <1>2 DEF Placed, After
  <1> QED BY <1>1, <1>3 DEF After, Placed

\* drain_due stops at the first message that is not due.
LEMMA DrainStops ==
    ASSUME NEW S, NEW q \in Seq(S), \A x \in S : x.deliver_at \in Nat, now \in Nat
    PROVE  /\ drain_due(q) \in 0 .. Len(q)
           /\ \A i \in 1 .. drain_due(q) : q[i].deliver_at <= now
           /\ drain_due(q) < Len(q) => q[drain_due(q) + 1].deliver_at > now
  <1> DEFINE U == {i \in DOMAIN q : q[i].deliver_at > now}
             Stops(n) == /\ \A i \in 1 .. n : q[i].deliver_at <= now
                         /\ n < Len(q) => q[n + 1].deliver_at > now
  <1>1. /\ DOMAIN q = 1 .. Len(q) /\ Len(q) \in Nat
        /\ \A i \in 1 .. Len(q) : q[i].deliver_at \in Nat
    OBVIOUS
  <1>2. \E n \in 0 .. Len(q) : Stops(n)
    <2>1. CASE U = {}
      <3>1. Stops(Len(q))
        BY <1>1, <2>1
      <3> QED BY <1>1, <3>1
    <2>2. CASE U # {}
      <3>1. U \in SUBSET Nat
        BY <1>1
      <3>2. PICK u \in U : \A k \in U : u <= k
        <4> HIDE DEF U
        <4> QED BY <2>2, <3>1, LeastNumber
      <3>4. u \in 1 .. Len(q) /\ q[u].deliver_at > now /\ u - 1 + 1 = u
        BY <1>1, <3>2
      <3>5. ASSUME NEW i \in 1 .. u - 1 PROVE q[i].deliver_at <= now
        <4>1. i \in DOMAIN q /\ i \notin U
          BY <1>1, <3>2, <3>4
        <4> QED BY <1>1, <4>1
      <3>3. Stops(u - 1) /\ u - 1 \in 0 .. Len(q)
        BY <1>1, <3>4, <3>5
      <3> QED BY <3>3
    <2> QED BY <2>1, <2>2
  <1>3. drain_due(q) = CHOOSE n \in 0 .. Len(q) : Stops(n)
    BY DEF drain_due
  <1> HIDE DEF Stops
  <1>4. drain_due(q) \in 0 .. Len(q) /\ Stops(drain_due(q))
    BY <1>2, <1>3, Zenon
  <1> QED BY <1>4 DEF Stops

LEMMA DrainParts ==
    ASSUME NEW S, NEW q \in Seq(S), \A x \in S : x.deliver_at \in Nat, now \in Nat
    PROVE  /\ Due(q) \in Seq(S) /\ NotDue(q) \in Seq(S)
           /\ InOrder(q) => InOrder(NotDue(q)) /\ After(NotDue(q), now)
  <1> DEFINE d == drain_due(q)
             z == NotDue(q)
  <1>1. d \in 0 .. Len(q) /\ (d < Len(q) => q[d + 1].deliver_at > now)
    BY DrainStops
  <1>2. /\ DOMAIN q = 1 .. Len(q) /\ Len(q) \in Nat
        /\ \A i \in 1 .. Len(q) : q[i].deliver_at \in Nat
    OBVIOUS
  <1>3. Due(q) = SubSeq(q, 1, d) /\ z = SubSeq(q, d + 1, Len(q))
    BY DEF Due, NotDue
  <1> HIDE DEF d, z
  <1>4. Due(q) \in Seq(S)
    BY <1>1, <1>2, <1>3
  <1>5. z \in Seq(S) /\ Len(z) = Len(q) - d /\ \A i \in 1 .. Len(q) - d : z[i] = q[d + i]
    <2>1. z \in Seq(S) /\ Len(z) = Len(q) - d
      <3>1. d + 1 \in 1 .. Len(q) + 1 /\ Len(q) \in 1 .. Len(q) \cup {0}
        BY <1>1, <1>2
      <3>2. z \in Seq(S)
        BY <1>1, <1>2, <1>3, <3>1
      <3>3. Len(z) = IF d + 1 <= Len(q) THEN Len(q) - (d + 1) + 1 ELSE 0
        <4>1. d + 1 \in Int /\ Len(q) \in Int /\ \A i \in d + 1 .. Len(q) : q[i] \in S
          BY <1>1, <1>2
        <4> DEFINE k == d + 1
                   n == Len(q)
        <4> HIDE DEF k, n
        <4>2. Len(SubSeq(q, k, n)) = IF k <= n THEN n - k + 1 ELSE 0
          BY <4>1, SubSeqProperties DEF k, n
        <4> QED BY <1>3, <4>2 DEF k, n
      <3>4. d \in Nat /\ Len(q) \in Nat /\ d <= Len(q)
        BY <1>1, <1>2
      <3>5. Len(z) = Len(q) - d
        <4> DEFINE n == Len(q)
                   k == Len(z)
        <4> HIDE DEF n, k
        <4>1. n \in Nat /\ d <= n /\ k = IF d + 1 <= n THEN n - (d + 1) + 1 ELSE 0
          BY <3>3, <3>4 DEF n, k
        <4>2. k = n - d
          BY <3>4, <4>1
        <4> QED BY <4>2 DEF n, k
      <3> QED BY <3>2, <3>5
    <2>2. ASSUME NEW i \in 1 .. Len(q) - d PROVE z[i] = q[d + i]
      <3>1. z[i] = q[(d + 1) + i - 1]
        BY <1>1, <1>2, <1>3
      <3>2. (d + 1) + i - 1 = d + i
        BY <1>1, <1>2
      <3> QED BY <3>1, <3>2
    <2> QED BY <2>1, <2>2
  <1>6. ASSUME InOrder(q) PROVE InOrder(z) /\ After(z, now)
    <2>1. DOMAIN z = 1 .. Len(q) - d
      BY <1>5
    <2>2. InOrder(z)
      <3> SUFFICES ASSUME NEW i \in 1 .. Len(q) - d, NEW j \in 1 .. Len(q) - d, i < j
                   PROVE  z[i].deliver_at <= z[j].deliver_at
        BY <2>1 DEF InOrder
      <3>1. d + i \in 1 .. Len(q) /\ d + j \in 1 .. Len(q) /\ d + i < d + j
        BY <1>1, <1>2
      <3>2. q[d + i].deliver_at <= q[d + j].deliver_at
        BY <1>2, <1>6, <3>1 DEF InOrder
      <3> QED BY <1>5, <3>2
    <2>3. After(z, now)
      <3> SUFFICES ASSUME NEW i \in 1 .. Len(q) - d PROVE z[i].deliver_at > now
        <4>1. \A i \in 1 .. Len(q) - d : z[i].deliver_at \in Nat
          BY <1>1, <1>2, <1>5
        <4> QED BY <2>1, <4>1 DEF After
      <3>1. d < Len(q) /\ d + 1 \in 1 .. Len(q) /\ d + i \in 1 .. Len(q) /\ d + 1 <= d + i
        BY <1>1, <1>2
      <3>2. q[d + 1].deliver_at <= q[d + i].deliver_at
        BY <1>2, <1>6, <3>1 DEF InOrder
      <3> QED BY <1>1, <1>2, <1>5, <3>1, <3>2
    <2> QED BY <2>2, <2>3
  <1> QED BY <1>4, <1>5, <1>6 DEF z

-----------------------------------------------------------------------------
(***************************************************************************)
(* The other steps.                                                        *)
(***************************************************************************)

\* A step that leaves the books alone.
LEMMA QuietStep ==
    ASSUME SignInv, books' = books, now' \in Nat, virtual_round' \in Nat,
           stored' \in [Validator -> SUBSET Validator],
           \A v \in Validator : stored'[v] \in {{}, Certified(books)},
           agenda' \in Seq(Item(Locked(books), Certified(books))),
           pending' \in Seq(Flight(Locked(books), Certified(books)))
    PROVE  SignInv'
  <1>1. World(books, stored', agenda', pending')
    BY DEF SignInv, World
  <1>2. World(books', stored', agenda', pending')
    BY <1>1
  <1> QED BY <1>2 DEF SignInv

LEMMA OthersAre ==
    ASSUME NEW v \in Validator, NEW i \in 1 .. N - 1
    PROVE  Others(v)[i] \in Validator
  BY ModeAAssumption DEF Others, Validator

LEMMA SendsIn ==
    ASSUME NEW L, NEW Q, NEW v \in Validator, NEW a \in Message(L, Q)
    PROVE  Sends(v, a) \in Seq(Item(L, Q))
  <1>1. \A i \in 1 .. N - 1 : Send(v, Others(v)[i], a) \in Item(L, Q)
    BY OthersAre DEF Send, Item
  <1>2. N - 1 \in Nat
    BY ModeAAssumption
  <1> QED BY <1>1, <1>2 DEF Sends

\* The facts about the first thing on the agenda.
LEMMA WorkFacts ==
    ASSUME SignInv, agenda # << >>
    PROVE  /\ Head(agenda) \in Item(Locked(books), Certified(books))
           /\ Tail(agenda) \in Seq(Item(Locked(books), Certified(books)))
           /\ pending \in Seq(Flight(Locked(books), Certified(books)))
           /\ stored \in [Validator -> SUBSET Validator]
           /\ \A v \in Validator : stored[v] \in {{}, Certified(books)}
           /\ Certified(books) \subseteq Validator
  <1>1. agenda \in Seq(Item(Locked(books), Certified(books)))
    BY DEF SignInv, World
  <1>2. Certified(books) \subseteq Validator
    BY ModeAAssumption DEF SignInv, World, Certified, MacroBook
  <1> QED BY <1>1, <1>2, HeadTailWork DEF SignInv, World

LEMMA ProposalWork ==
    ASSUME SignInv, agenda # << >>, ApplyProposal
    PROVE  SignInv'
  <1> DEFINE L == Locked(books)
             Q == Certified(books)
             w == Head(agenda)
             x == <<Step(w.v, w.e)>>
             y == Sends(w.v, w.e)
  <1>1. /\ w \in Item(L, Q) /\ Tail(agenda) \in Seq(Item(L, Q))
        /\ pending \in Seq(Flight(L, Q))
        /\ stored \in [Validator -> SUBSET Validator]
        /\ \A v \in Validator : stored[v] \in {{}, Q}
    BY WorkFacts
  <1>2. w.v \in Validator /\ w.e \in Action(L, Q)
    BY <1>1, ItemKinds DEF ApplyProposal
  <1>3. w.e \in Message(L, Q)
    BY <1>2, ActionKinds DEF ApplyProposal
  <1>4. /\ agenda' = Tail(agenda) \/ agenda' = x \o y \o Tail(agenda)
        /\ books' = books /\ stored' = stored /\ pending' = pending
        /\ now' = now /\ virtual_round' = virtual_round
    BY DEF ApplyProposal
  <1> HIDE DEF L, Q, w
  <1>5. x \in Seq(Item(L, Q))
    BY <1>2, <1>3 DEF Step, Item, Event
  <1>6. y \in Seq(Item(L, Q))
    BY <1>2, <1>3, SendsIn
  <1> HIDE DEF x, y
  <1>7. agenda' \in Seq(Item(L, Q))
    BY <1>1, <1>4, <1>5, <1>6, ConcatType
  <1> QED BY <1>1, <1>4, <1>7, QuietStep DEF L, Q, SignInv

LEMMA BroadcastWork ==
    ASSUME SignInv, agenda # << >>, ApplyBroadcast
    PROVE  SignInv'
  <1> DEFINE L == Locked(books)
             Q == Certified(books)
             w == Head(agenda)
             y == Sends(w.v, w.e)
  <1>1. /\ w \in Item(L, Q) /\ Tail(agenda) \in Seq(Item(L, Q))
        /\ pending \in Seq(Flight(L, Q))
        /\ stored \in [Validator -> SUBSET Validator]
        /\ \A v \in Validator : stored[v] \in {{}, Q}
    BY WorkFacts
  <1>2. w.v \in Validator /\ w.e \in Action(L, Q)
    BY <1>1, ItemKinds DEF ApplyBroadcast
  <1>3. w.e \in Message(L, Q)
    BY <1>2, ActionKinds DEF ApplyBroadcast
  <1>4. /\ agenda' = y \o Tail(agenda)
        /\ books' = books /\ stored' = stored /\ pending' = pending
        /\ now' = now /\ virtual_round' = virtual_round
    BY DEF ApplyBroadcast
  <1> HIDE DEF L, Q, w
  <1>6. y \in Seq(Item(L, Q))
    BY <1>2, <1>3, SendsIn
  <1> HIDE DEF y
  <1>7. agenda' \in Seq(Item(L, Q))
    BY <1>1, <1>4, <1>6, ConcatType
  <1> QED BY <1>1, <1>4, <1>7, QuietStep DEF L, Q, SignInv

\* A MacroQc that is stored is the primary's.
LEMMA QcWork ==
    ASSUME SignInv, agenda # << >>, ApplyMacroQc
    PROVE  SignInv'
  <1> DEFINE L == Locked(books)
             Q == Certified(books)
             w == Head(agenda)
             y == Sends(w.v, w.e)
  <1>1. /\ w \in Item(L, Q) /\ Tail(agenda) \in Seq(Item(L, Q))
        /\ pending \in Seq(Flight(L, Q))
        /\ stored \in [Validator -> SUBSET Validator]
        /\ \A v \in Validator : stored[v] \in {{}, Q}
        /\ Q \subseteq Validator
    BY WorkFacts
  <1>2. w.v \in Validator /\ w.e \in Action(L, Q)
    BY <1>1, ItemKinds DEF ApplyMacroQc
  <1>3. (w.e.type = "MacroQc" => w.e \in Message(L, Q)) /\ w.e.signers \in Qcs(Q)
    BY <1>2, ActionKinds DEF ApplyMacroQc
  <1>4. /\ agenda' = IF w.e.type = "MacroQc" THEN y \o Tail(agenda) ELSE Tail(agenda)
        /\ stored' = [stored EXCEPT ![w.v] = w.e.signers]
        /\ books' = books /\ pending' = pending
        /\ now' = now /\ virtual_round' = virtual_round
    BY DEF ApplyMacroQc, store_macro_qc
  <1> HIDE DEF L, Q, w
  <1>5. w.e.signers = Q
    BY <1>3 DEF Qcs
  <1>6. w.e.type = "MacroQc" => y \in Seq(Item(L, Q))
    BY <1>2, <1>3, SendsIn
  <1> HIDE DEF y
  <1>7. agenda' \in Seq(Item(L, Q))
    BY <1>1, <1>4, <1>6, ConcatType
  <1>8. stored' \in [Validator -> SUBSET Validator] /\ \A v \in Validator : stored'[v] \in {{}, Q}
    BY <1>1, <1>2, <1>4, <1>5
  <1> QED BY <1>1, <1>4, <1>7, <1>8, QuietStep DEF L, Q, SignInv

LEMMA ScheduleWork ==
    ASSUME SignInv, agenda # << >>, ApplySchedule
    PROVE  SignInv'
  <1>1. /\ agenda' = Tail(agenda)
        /\ books' = books /\ stored' = stored /\ pending' = pending
        /\ now' = now /\ virtual_round' = virtual_round
    BY DEF ApplySchedule
  <1> QED BY <1>1, WorkFacts, QuietStep DEF SignInv

\* What Deliver makes of the bus: nothing, or the message once or twice.
LEMMA DeliverIs ==
    ASSUME NEW w, Deliver(w)
    PROVE  \E delay \in 0 .. 2 * MaxDelay :
              \/ pending' = pending
              \/ pending' = enqueue(pending, InFlight(w, delay))
              \/ pending' = enqueue(enqueue(pending, InFlight(w, delay)), InFlight(w, delay))
  <1>1. 0 \in 0 .. 2 * MaxDelay /\ 1 .. 2 * MaxDelay \subseteq 0 .. 2 * MaxDelay
    BY WorldAssumption
  <1> QED BY <1>1 DEF Deliver

LEMMA FlightIn ==
    ASSUME NEW L, NEW Q, now \in Nat, NEW w, w.r \in Validator, w.e \in Message(L, Q),
           NEW delay \in 0 .. 2 * MaxDelay
    PROVE  InFlight(w, delay) \in Flight(L, Q) /\ InFlight(w, delay).deliver_at >= now + BaseDelay
  <1>1. now + BaseDelay + delay \in Nat /\ now + BaseDelay + delay >= now + BaseDelay
    BY WorldAssumption
  <1> QED BY <1>1 DEF InFlight, Flight

LEMMA SendWork ==
    ASSUME SignInv, agenda # << >>, SendMessage
    PROVE  SignInv'
  <1> DEFINE L == Locked(books)
             Q == Certified(books)
             w == Head(agenda)
  <1>1. /\ w \in Item(L, Q) /\ Tail(agenda) \in Seq(Item(L, Q))
        /\ pending \in Seq(Flight(L, Q))
        /\ stored \in [Validator -> SUBSET Validator]
        /\ \A v \in Validator : stored[v] \in {{}, Q}
    BY WorkFacts
  <1>2. w.r \in Validator /\ w.e \in Message(L, Q)
    BY <1>1, ItemKinds DEF SendMessage
  <1>3. /\ agenda' = Tail(agenda) /\ Deliver(w)
        /\ books' = books /\ stored' = stored
        /\ now' = now /\ virtual_round' = virtual_round
    BY DEF SendMessage
  <1>4. now \in Nat /\ virtual_round \in Nat
    BY DEF SignInv
  <1>5. PICK delay \in 0 .. 2 * MaxDelay :
              \/ pending' = pending
              \/ pending' = enqueue(pending, InFlight(w, delay))
              \/ pending' = enqueue(enqueue(pending, InFlight(w, delay)), InFlight(w, delay))
    BY <1>3, DeliverIs
  <1> HIDE DEF L, Q, w
  <1> DEFINE m == InFlight(w, delay)
             S == Flight(L, Q)
  <1>6. m \in S
    BY <1>2, <1>4, FlightIn
  <1> HIDE DEF m, S
  <1>7. enqueue(pending, m) \in Seq(S) /\ pending \in Seq(S)
    BY <1>1, <1>6, EnqueueIs DEF S
  <1>8. enqueue(enqueue(pending, m), m) \in Seq(S)
    BY <1>6, <1>7, EnqueueIs
  <1>9. pending' \in Seq(Flight(L, Q))
    BY <1>5, <1>7, <1>8 DEF m, S
  <1> QED BY <1>1, <1>3, <1>4, <1>9, QuietStep DEF L, Q

LEMMA FlightTimes ==
    ASSUME NEW L, NEW Q
    PROVE  \A x \in Flight(L, Q) : x.deliver_at \in Nat
  BY DEF Flight

LEMMA NetTick ==
    ASSUME SignInv, drain_net_and_apply
    PROVE  SignInv'
  <1> DEFINE L == Locked(books)
             Q == Certified(books)
             S == Flight(L, Q)
             due == Due(pending)
             ag == [i \in DOMAIN due |-> Step(due[i].recipient, due[i].event)]
  <1>1. /\ pending \in Seq(S) /\ now \in Nat /\ virtual_round \in Nat
        /\ stored \in [Validator -> SUBSET Validator]
        /\ \A v \in Validator : stored[v] \in {{}, Q}
    BY DEF SignInv, World
  <1>2. /\ agenda' = ag /\ pending' = NotDue(pending)
        /\ books' = books /\ stored' = stored
        /\ now' = now /\ virtual_round' = virtual_round
    BY DEF drain_net_and_apply
  <1>3. \A x \in S : x.deliver_at \in Nat /\ Step(x.recipient, x.event) \in Item(L, Q)
    BY DEF Flight, Step, Item, Event
  <1> HIDE DEF L, Q, S
  <1>4. due \in Seq(S) /\ NotDue(pending) \in Seq(S)
    BY <1>1, <1>3, DrainParts
  <1> HIDE DEF due
  <1>5. ag \in Seq(Item(L, Q))
    <2>1. DOMAIN due = 1 .. Len(due) /\ Len(due) \in Nat /\ \A i \in 1 .. Len(due) : due[i] \in S
      BY <1>4
    <2>2. \A i \in 1 .. Len(due) : Step(due[i].recipient, due[i].event) \in Item(L, Q)
      BY <1>3, <2>1
    <2> QED BY <2>1, <2>2
  <1> HIDE DEF ag
  <1> QED BY <1>1, <1>2, <1>4, <1>5, QuietStep DEF L, Q, S

LEMMA DivMod ==
    ASSUME NEW n \in Nat \ {0}, NEW a \in Nat
    PROVE  a % n \in 0 .. n - 1 /\ a \div n \in Nat /\ a >= n * (a \div n)
  <1>1. a % n \in 0 .. n - 1
    OBVIOUS
  <1>2. a \div n \in Nat
    OBVIOUS
  <1>3. a >= n * (a \div n)
    OBVIOUS
  <1> QED BY <1>1, <1>2, <1>3

LEMMA DivBound ==
    ASSUME NEW n \in Nat \ {0}, NEW m \in Nat, NEW a \in Nat, a < m * n
    PROVE  a \div n < m
  <1> DEFINE d == a \div n
  <1>1. d \in Nat /\ a >= n * d
    BY DivMod
  <1> HIDE DEF d
  <1>2. d >= m => n * d >= n * m
    BY <1>1
  <1>3. n * m = m * n /\ n * d \in Nat /\ n * m \in Nat
    BY <1>1
  <1> QED BY <1>1, <1>2, <1>3 DEF d

LEMMA ToEveryoneIn ==
    ASSUME NEW L, NEW Q,
           NEW batch \in Seq([type : {"CertifiedVertex"}, round : Nat, author : Validator])
    PROVE  ToEveryone(batch) \in Seq(Item(L, Q))
  <1>1. N \in Nat \ {0} /\ Len(batch) \in Nat
    BY ModeAAssumption
  <1>2. Len(batch) * N \in Nat
    BY <1>1
  <1>3. ASSUME NEW k \in 1 .. Len(batch) * N
        PROVE  Step((k - 1) % N, batch[(k - 1) \div N + 1]) \in Item(L, Q)
    <2>1. k - 1 \in Nat /\ k - 1 < Len(batch) * N
      BY <1>2
    <2>2. (k - 1) % N \in Validator /\ (k - 1) \div N \in Nat
      BY <1>1, <2>1, DivMod DEF Validator
    <2>3. (k - 1) \div N < Len(batch)
      BY <1>1, <2>1, DivBound
    <2>4. (k - 1) \div N + 1 \in 1 .. Len(batch)
      BY <1>1, <2>2, <2>3
    <2>5. batch[(k - 1) \div N + 1] \in Event(L, Q)
      <3> DEFINE j == (k - 1) \div N + 1
      <3>1. j \in 1 .. Len(batch)
        BY <2>4
      <3> HIDE DEF j
      <3>2. batch[j] \in [type : {"CertifiedVertex"}, round : Nat, author : Validator]
        BY <3>1, ElementIn
      <3> QED BY <3>2 DEF Event, j
    <2> QED BY <2>2, <2>5 DEF Step, Item
  <1> QED BY <1>2, <1>3 DEF ToEveryone

LEMMA VertexTick ==
    ASSUME SignInv, produce_vertex_tick
    PROVE  SignInv'
  <1> DEFINE V == [type : {"CertifiedVertex"}, round : Nat, author : Validator]
             all == Batch(virtual_round)
             i0 == CHOOSE i \in Withheld(all) : TRUE
             batch == IF Withheld(all) = {} THEN all ELSE RemoveAt(all, i0)
  <1>1. /\ pending \in Seq(Flight(Locked(books), Certified(books)))
        /\ now \in Nat /\ virtual_round \in Nat
        /\ stored \in [Validator -> SUBSET Validator]
        /\ \A v \in Validator : stored[v] \in {{}, Certified(books)}
    BY DEF SignInv, World
  <1>2. /\ agenda' = ToEveryone(batch) /\ pending' = pending
        /\ books' = books /\ stored' = stored
        /\ now' = now /\ virtual_round' = virtual_round
    BY DEF produce_vertex_tick
  <1>3. all \in Seq(V)
    <2>1. N \in Nat \ {0} /\ need(N) \in Nat
      BY ModeAAssumption DEF need
    <2>2. ASSUME NEW i \in 1 .. need(N)
          PROVE  Vertex(virtual_round, Author(virtual_round, i - 1)) \in V
      <3>1. virtual_round + (i - 1) \in Nat
        BY <1>1, <2>1
      <3>2. Author(virtual_round, i - 1) \in Validator
        BY <2>1, <3>1, DivMod DEF Author, Validator
      <3> QED BY <1>1, <3>2 DEF Vertex
    <2> HIDE DEF V
    <2>3. [i \in 1 .. need(N) |-> Vertex(virtual_round, Author(virtual_round, i - 1))] \in Seq(V)
      BY <2>1, <2>2
    <2> QED BY <2>3 DEF Batch
  <1> HIDE DEF all, V
  <1>4. batch \in Seq(V)
    <2>1. CASE Withheld(all) # {}
      <3>1. i0 \in DOMAIN all
        BY <2>1 DEF Withheld
      <3>2. i0 \in 1 .. Len(all) /\ Len(all) \in Nat
        BY <1>3, <3>1
      <3> HIDE DEF i0
      <3>3. SubSeq(all, 1, i0 - 1) \in Seq(V)
        BY <1>3, <3>2
      <3>4. SubSeq(all, i0 + 1, Len(all)) \in Seq(V)
        BY <1>3, <3>2
      <3> QED BY <2>1, <3>3, <3>4, ConcatType DEF RemoveAt
    <2> QED BY <1>3, <2>1
  <1> HIDE DEF batch
  <1>5. agenda' \in Seq(Item(Locked(books), Certified(books)))
    BY <1>2, <1>4, ToEveryoneIn DEF V
  <1> QED BY <1>1, <1>2, <1>5, QuietStep

LEMMA TimerTick ==
    ASSUME SignInv, drain_timers_and_apply
    PROVE  SignInv'
  <1> DEFINE L == Locked(books)
             Q == Certified(books)
             ag == [i \in 1 .. N |-> Step(i - 1, TimerFired(0))]
  <1>1. /\ pending \in Seq(Flight(L, Q)) /\ now \in Nat /\ virtual_round \in Nat
        /\ stored \in [Validator -> SUBSET Validator]
        /\ \A v \in Validator : stored[v] \in {{}, Q}
    BY DEF SignInv, World
  <1>2. /\ agenda' = << >> \/ agenda' = ag
        /\ pending' = pending /\ books' = books /\ stored' = stored
        /\ now' = now /\ virtual_round' = virtual_round
    BY DEF drain_timers_and_apply
  <1> HIDE DEF L, Q
  <1>3. ag \in Seq(Item(L, Q))
    <2>1. \A i \in 1 .. N : i - 1 \in Validator
      BY ModeAAssumption DEF Validator
    <2>2. \A i \in 1 .. N : Step(i - 1, TimerFired(0)) \in Item(L, Q)
      BY <2>1 DEF Step, TimerFired, Item, Event
    <2> QED BY <2>2, ModeAAssumption
  <1>4. << >> \in Seq(Item(L, Q))
    OBVIOUS
  <1> HIDE DEF ag
  <1> QED BY <1>1, <1>2, <1>3, <1>4, QuietStep DEF L, Q

LEMMA ClockTick ==
    ASSUME SignInv, Advance
    PROVE  SignInv'
  <1>1. /\ now' \in Nat /\ virtual_round' \in Nat
        /\ pending' = pending /\ books' = books /\ stored' = stored /\ agenda' = agenda
    BY WorldAssumption DEF SignInv, Advance
  <1> QED BY <1>1, QuietStep DEF SignInv, World

LEMMA SignNext == SignInv /\ [Next]_vars => SignInv'
  <1> SUFFICES ASSUME SignInv, [Next]_vars PROVE SignInv'
    OBVIOUS
  <1>1. CASE Work
    BY <1>1, StepWork, ProposalWork, BroadcastWork, QcWork, ScheduleWork, SendWork DEF Work
  <1>2. CASE tick_round
    BY <1>2, NetTick, VertexTick, TimerTick, ClockTick DEF tick_round
  <1>3. CASE UNCHANGED vars
    BY <1>3 DEF vars, SignInv
  <1> QED BY <1>1, <1>2, <1>3 DEF Next

LEMMA SignInvariant == Spec => []SignInv
  BY SignInit, SignNext, PTL DEF Spec

-----------------------------------------------------------------------------
\* A MacroQc that any validator stores names a quorum of all the validators,
\* however they are divided into subnets, and everybody it names has signed.
THEOREM QuorumNamed == Spec => []QcHasQuorum
  <1>1. SignInv => QcHasQuorum
    <2> SUFFICES ASSUME SignInv, NEW v \in Validator, stored[v] # {}
                 PROVE  /\ Cardinality(stored[v]) >= need(N)
                        /\ \A w \in stored[v] : books[w].locked
      BY DEF QcHasQuorum
    <2>1. stored[v] = Certified(books) /\ QcIn(Locked(books), Certified(books))
      BY DEF SignInv, World
    <2> QED BY <2>1 DEF QcIn, Locked
  <1> QED BY <1>1, SignInvariant, PTL

\* Any two validators have stored the same MacroQc for the checkpoint, whatever
\* the bus loses, duplicates or delays.
THEOREM OneQc == Spec => []OneQcPerCheckpoint
  <1>1. SignInv => OneQcPerCheckpoint
    BY DEF SignInv, World, OneQcPerCheckpoint, conflicting
  <1> QED BY <1>1, SignInvariant, PTL

-----------------------------------------------------------------------------
(***************************************************************************)
(* The order of the bus.                                                   *)
(***************************************************************************)

\* Until the clock moves on, what is on the bus was left by the last delivery or
\* sent since.
BusInv == /\ SignInv
          /\ InOrder(pending)
          /\ After(pending, now - RoundLength)
          /\ phase # "net" => After(pending, now)
          /\ phase = "net" => agenda = << >>

LEMMA BusInit == Init => BusInv
  <1> SUFFICES ASSUME Init PROVE BusInv
    OBVIOUS
  <1>1. pending = << >> /\ phase = "net" /\ agenda = << >>
    BY DEF Init
  <1> QED BY <1>1, SignInit DEF BusInv, InOrder, After

LEMMA SendBus ==
    ASSUME BusInv, agenda # << >>, SendMessage
    PROVE  InOrder(pending') /\ After(pending', now)
  <1> DEFINE L == Locked(books)
             Q == Certified(books)
             w == Head(agenda)
  <1>1. SignInv /\ InOrder(pending) /\ After(pending, now) /\ now \in Nat
    BY DEF BusInv, SignInv
  <1>2. w \in Item(L, Q) /\ pending \in Seq(Flight(L, Q))
    BY <1>1, WorkFacts
  <1>3. w.r \in Validator /\ w.e \in Message(L, Q) /\ Deliver(w)
    BY <1>2, ItemKinds DEF SendMessage
  <1>4. PICK delay \in 0 .. 2 * MaxDelay :
              \/ pending' = pending
              \/ pending' = enqueue(pending, InFlight(w, delay))
              \/ pending' = enqueue(enqueue(pending, InFlight(w, delay)), InFlight(w, delay))
    BY <1>3, DeliverIs
  <1> HIDE DEF L, Q, w
  <1> DEFINE m == InFlight(w, delay)
             S == Flight(L, Q)
             p == enqueue(pending, m)
  <1>5. m \in S /\ m.deliver_at >= now + BaseDelay
    BY <1>1, <1>3, FlightIn
  <1>6. \A x \in S : x.deliver_at \in Nat
    BY FlightTimes
  <1>7. pending \in Seq(S)
    BY <1>2
  <1> HIDE DEF m, S
  <1>8. m.deliver_at >= now /\ (BaseDelay > 0 => m.deliver_at > now)
    <2>1. m.deliver_at \in Nat
      BY <1>5, <1>6
    <2> QED BY <1>1, <1>5, <2>1, WorldAssumption
  <1>9. p \in Seq(S) /\ InOrder(p) /\ After(p, now)
    BY <1>1, <1>5, <1>6, <1>7, <1>8, EnqueueIs, EnqueueInOrder, EnqueueAfter
  <1> HIDE DEF p
  <1>10. InOrder(enqueue(p, m)) /\ After(enqueue(p, m), now)
    BY <1>5, <1>6, <1>8, <1>9, EnqueueInOrder, EnqueueAfter
  <1>11. \/ pending' = pending
         \/ pending' = p
         \/ pending' = enqueue(p, m)
    BY <1>4 DEF p, m
  <1> QED BY <1>1, <1>9, <1>10, <1>11

LEMMA AfterEarlier ==
    ASSUME NEW S, NEW q \in Seq(S), \A x \in S : x.deliver_at \in Nat,
           NEW t \in Int, NEW u \in Int, u <= t, After(q, t)
    PROVE  After(q, u)
  <1>1. \A i \in DOMAIN q : q[i].deliver_at \in Nat
    OBVIOUS
  <1> QED BY <1>1 DEF After

LEMMA BusNext == BusInv /\ [Next]_vars => BusInv'
  <1> SUFFICES ASSUME BusInv, [Next]_vars PROVE BusInv'
    OBVIOUS
  <1>1. SignInv /\ SignInv'
    BY SignNext DEF BusInv
  <1> DEFINE S == Flight(Locked(books), Certified(books))
             T == Flight(Locked(books'), Certified(books'))
  <1>2. /\ now \in Nat /\ now' \in Nat /\ RoundLength \in Nat
        /\ pending \in Seq(S) /\ pending' \in Seq(T)
        /\ \A x \in S : x.deliver_at \in Nat
        /\ \A x \in T : x.deliver_at \in Nat
    BY <1>1, WorldAssumption, FlightTimes DEF SignInv, World
  <1> HIDE DEF S, T
  <1>3. CASE Work
    <2>1. phase # "net" /\ agenda # << >> /\ After(pending, now) /\ InOrder(pending)
      BY <1>3 DEF Work, BusInv
    <2>2. phase' = phase /\ now' = now
      BY <1>3 DEF Work, StepValidator, ApplyProposal, ApplyBroadcast, ApplyMacroQc, ApplySchedule,
                  SendMessage
    <2>3. InOrder(pending') /\ After(pending', now)
      <3>1. CASE SendMessage
        BY <2>1, <3>1, SendBus
      <3>2. CASE pending' = pending
        BY <2>1, <3>2
      <3> QED BY <1>3, <3>1, <3>2 DEF Work, StepValidator, ApplyProposal, ApplyBroadcast,
                                      ApplyMacroQc, ApplySchedule
    <2>4. After(pending', now')
      BY <2>2, <2>3
    <2>5. After(pending', now' - RoundLength)
      BY <1>2, <2>4, AfterEarlier
    <2> QED BY <1>1, <2>1, <2>2, <2>3, <2>4, <2>5 DEF BusInv
  <1>4. CASE tick_round
    <2>1. CASE drain_net_and_apply
      <3>1. pending' = NotDue(pending) /\ phase' = "vertices" /\ now' = now
        BY <2>1 DEF drain_net_and_apply
      <3>2. InOrder(pending') /\ After(pending', now)
        BY <1>2, <3>1, DrainParts DEF BusInv
      <3>3. After(pending', now')
        BY <3>1, <3>2
      <3>4. After(pending', now' - RoundLength)
        BY <1>2, <3>3, AfterEarlier
      <3> QED BY <1>1, <3>1, <3>2, <3>3, <3>4 DEF BusInv
    <2>2. CASE produce_vertex_tick
      <3>1. /\ pending' = pending /\ phase' = "timers" /\ now' = now /\ phase = "vertices"
        BY <2>2 DEF produce_vertex_tick
      <3> QED BY <1>1, <3>1 DEF BusInv
    <2>3. CASE drain_timers_and_apply
      <3>1. /\ pending' = pending /\ phase' = "clock" /\ now' = now /\ phase = "timers"
        BY <2>3 DEF drain_timers_and_apply
      <3> QED BY <1>1, <3>1 DEF BusInv
    <2>4. CASE Advance
      <3>1. /\ pending' = pending /\ phase' = "net" /\ now' = now + RoundLength
            /\ phase = "clock" /\ agenda' = agenda /\ agenda = << >>
        BY <1>4, <2>4 DEF Advance, tick_round
      <3>2. now' - RoundLength = now
        BY <1>2, <3>1
      <3> QED BY <1>1, <3>1, <3>2 DEF BusInv
    <2> QED BY <1>4, <2>1, <2>2, <2>3, <2>4 DEF tick_round
  <1>5. CASE UNCHANGED vars
    BY <1>1, <1>5 DEF vars, BusInv
  <1> QED BY <1>3, <1>4, <1>5 DEF Next

\* The bus is always in the order of delivery, although delays differ and messages
\* are duplicated, and a tick delivers whatever is due: nothing that was due in an
\* earlier tick is still on it.
THEOREM BusOrdered == Spec => []NothingOverdue
  <1>1. BusInv => NothingOverdue
    <2> SUFFICES ASSUME BusInv PROVE NothingOverdue
      OBVIOUS
    <2> DEFINE S == Flight(Locked(books), Certified(books))
    <2>1. /\ now \in Nat /\ RoundLength \in Nat /\ BaseDelay \in Nat
          /\ pending \in Seq(S) /\ \A x \in S : x.deliver_at \in Nat
      BY WorldAssumption, FlightTimes DEF BusInv, SignInv, World
    <2> HIDE DEF S
    <2>2. \A i \in DOMAIN pending : ~ Overdue(pending[i])
      BY <2>1 DEF BusInv, After, Overdue
    <2> QED BY <2>2 DEF BusInv, InOrder, NothingOverdue
  <1> QED BY <1>1, BusInit, BusNext, PTL DEF Spec

=============================================================================
