------------------------------- MODULE ModeA -------------------------------
(***************************************************************************)
(* Mode A of L3: a macro checkpoint is signed by subnets.  Every validator *)
(* that accepts the proposal signs a partial tagged with its subnet; the   *)
(* aggregator of a subnet sends the partials it has collected as a subnet  *)
(* aggregate, again whenever there is one more; the primary unites the     *)
(* subnet aggregates into the MacroQc.                                     *)
(*                                                                         *)
(* The module defines what each handler makes of a book and which actions  *)
(* it returns; SimWorld runs the books.  One height with one candidate: the*)
(* chain of checkpoints, conflicting proposals, Mode 0 and Mode B are in   *)
(* MacroFin.  Signatures are genuine, so that a bitmap is a set of signers.*)
(***************************************************************************)
EXTENDS Integers, Sequences, FiniteSets

CONSTANTS N,              \* number of validators; their ids are ordered like their numbers
          Assign,         \* SubnetAssign::index_for: the subnet of each validator
          Primary, Backup, \* the proposer schedule of the height
          BackupDelay     \* t_macropropose

Validator == 0 .. N - 1
Subnet == {Assign[v] : v \in Validator}

ASSUME ModeAAssumption ==
    /\ N \in Nat \ {0}
    /\ Assign \in [Validator -> Nat]
    /\ Primary \in Validator
    /\ Backup \in Validator \ {Primary}
    /\ BackupDelay \in Nat

\* The smallest number of signatures that n validators accept as a quorum.
need(n) == 2 * ((n - 1) \div 3) + 1

Members(s) == {v \in Validator : Assign[v] = s}
aggregator_for(s) == CHOOSE v \in Members(s) : \A w \in Members(s) : v <= w

\* What L3 keeps of the height.
MacroBook ==
    [candidate      : BOOLEAN,                 \* the window is full
     proposal_seen  : BOOLEAN,
     proposals_seen : SUBSET Validator,        \* whose proposal has been looked at
     backup_timer   : BOOLEAN,
     locked         : BOOLEAN,                 \* this validator has signed
     partial_sigs   : SUBSET Validator,
     partials       : SUBSET Validator,
     subnet_aggs    : [Subnet -> SUBSET Validator],   \* {}: none
     macro_qc       : SUBSET Validator]        \* signers of the adopted MacroQc, {}: none

NewBook == [candidate |-> FALSE, proposal_seen |-> FALSE, proposals_seen |-> {},
            backup_timer |-> FALSE, locked |-> FALSE, partial_sigs |-> {}, partials |-> {},
            subnet_aggs |-> [s \in Subnet |-> {}], macro_qc |-> {}]

Proposal(v) == [type |-> "MacroProposal", from |-> v]
Partial(v) == [type |-> "BlsPartial", from |-> v]
Aggregate(s, signers) == [type |-> "SubnetAggregate", subnet |-> s, signers |-> signers]
Qc(signers) == [type |-> "MacroQc", signers |-> signers]
PersistQc(signers) == [type |-> "PersistMacroQc", signers |-> signers]
BackupTimer == [type |-> "ScheduleTimer", id |-> 0, delay |-> BackupDelay]

\* A handler's result: the new book and the actions, in order.
Result(b, as) == [book |-> b, actions |-> as]

SubnetSigners(b, s) == b.partials \cap Members(s)

\* try_build_aggregate, and who may send what it builds.
SubnetAction(b, v, s) ==
    LET signers == SubnetSigners(b, s)
    IN  IF /\ Cardinality(signers) >= need(Cardinality(Members(s)))
           /\ signers \subseteq b.partial_sigs
           /\ v = aggregator_for(s)
        THEN <<Aggregate(s, signers)>>
        ELSE <<>>

\* Mutant: the primary is content when every subnet has sent something.
EverySubnetSent(b) == IF \E s \in Subnet : b.subnet_aggs[s] # {} THEN UNION {b.subnet_aggs[s] : s \in Subnet} ELSE {}

\* try_finalize_mode_a: the signers of the MacroQc that the subnet aggregates
\* make together, {} if they are too few or one's signature is missing.
try_finalize_mode_a(b) ==
    LET signers == UNION {b.subnet_aggs[s] : s \in Subnet}
    IN  IF Cardinality(signers) >= need(N) /\ signers \subseteq b.partial_sigs THEN signers ELSE {}

\* finish_macro_qc_adoption and on_macro_qc_received agree on the book.
Adopt(b, signers) == [b EXCEPT !.macro_qc = signers, !.proposal_seen = TRUE, !.backup_timer = FALSE]

\* Mutant: whoever has the aggregates makes the MacroQc.
AnyoneEmits(b, v) ==
    LET signers == try_finalize_mode_a(b)
    IN  IF signers # {} /\ b.macro_qc = {}
        THEN Result(Adopt(b, signers), <<Qc(signers), PersistQc(signers)>>)
        ELSE Result(b, <<>>)

try_emit_mode_a_qc(b, v) ==
    LET signers == try_finalize_mode_a(b)
    IN  IF v = Primary /\ signers # {} /\ b.macro_qc = {}
        THEN Result(Adopt(b, signers), <<Qc(signers), PersistQc(signers)>>)
        ELSE Result(b, <<>>)

-----------------------------------------------------------------------------
(***************************************************************************)
(* The handlers, for validator v with book b.                              *)
(***************************************************************************)

\* The window has filled: L2 has pushed the last MicroQc of it on the ring.
on_local_micro_qcs(b, v) ==
    LET c == [b EXCEPT !.candidate = TRUE]
    IN  CASE v = Primary -> Result([c EXCEPT !.proposal_seen = TRUE], <<Proposal(v)>>)
          [] v = Backup  -> Result([c EXCEPT !.backup_timer = TRUE], <<BackupTimer>>)
          [] OTHER       -> Result(c, <<>>)

on_macro_proposal(b, v, p) ==
    LET seen == [b EXCEPT !.proposals_seen = @ \cup {p.from}]
        signed == [seen EXCEPT !.locked = TRUE,
                               !.proposal_seen = TRUE,
                               !.backup_timer = FALSE,
                               !.partials = @ \cup {v},
                               !.partial_sigs = @ \cup {v}]
        votes == /\ p.from \notin b.proposals_seen
                 /\ p.from \in {Primary, Backup}
                 /\ b.candidate
                 /\ b.macro_qc = {}      \* otherwise the checkpoint is not a child of last_macro_hash
    IN  IF votes
        THEN Result(signed, <<Partial(v)>> \o SubnetAction(signed, v, Assign[v]))
        ELSE Result(seen, <<>>)

on_bls_partial(b, v, bp) ==
    LET stored == [b EXCEPT !.partial_sigs = @ \cup {bp.from}]
        counted == [stored EXCEPT !.partials = @ \cup {bp.from}]
        emit == try_emit_mode_a_qc(counted, v)
    IN  CASE ~ b.candidate     -> Result(b, <<>>)
          [] b.macro_qc # {}   -> Result(stored, <<>>)
          [] OTHER -> Result(emit.book, SubnetAction(counted, v, Assign[bp.from]) \o emit.actions)

\* verify_subnet_agg: a validator accepts only signers whose partials it holds.
verify_subnet_agg(b, a) == a.signers # {} /\ a.signers \subseteq b.partial_sigs

on_subnet_aggregate(b, v, a) ==
    IF b.candidate /\ verify_subnet_agg(b, a)
    THEN try_emit_mode_a_qc([b EXCEPT !.subnet_aggs[a.subnet] = a.signers], v)
    ELSE Result(b, <<>>)

\* verify_macro_qc: the aggregate is that of the signers named, one at least.
verify_macro_qc(qc) == qc.signers # {}

on_macro_qc_received(b, qc) ==
    IF b.candidate /\ b.macro_qc = {} /\ verify_macro_qc(qc)
    THEN Result(Adopt(b, qc.signers), <<PersistQc(qc.signers)>>)
    ELSE Result(b, <<>>)

on_timer_fired(b, v) ==
    IF b.backup_timer
    THEN LET c == [b EXCEPT !.backup_timer = FALSE]
         IN  IF b.proposal_seen \/ v # Backup THEN Result(c, <<>>)
             ELSE Result([c EXCEPT !.proposal_seen = TRUE], <<Proposal(v)>>)
    ELSE Result(b, <<>>)
=============================================================================
