-------------------------- MODULE MacroDeliveryProofs --------------------------
(***************************************************************************)
(* MacroDelivery implements MacroFin: a network that delivers what was     *)
(* broadcast, once and to everybody, is one of those that MacroFin allows. *)
(* MacroFin lets any proposal, signature or MacroQc there is reach anyone  *)
(* at any time; here it has to be shown that what is on its way is there.  *)
(***************************************************************************)
EXTENDS MacroDelivery, MacroLogProofs

\* Message x is the broadcast of something that has happened.
Sent(x) == /\ x \in Message
           /\ x.kind = "proposal" => AsProposal(x) \in proposals
           /\ x.kind \in {"vote", "mode_b"} => [checkpoint |-> x.checkpoint, voter |-> x.from] \in partials
           /\ x.kind = "qc" => x.checkpoint \in qcs

\* Nothing is on its way that nobody has sent.
NothingInvented == \A n \in Honest : \A x \in inbox[n] : Sent(x)

DeliveryInv == /\ SafeInv
               /\ inbox \in [Honest -> SUBSET Message]
               /\ NothingInvented

LEMMA DeliveryStarts == DeliveryInit => DeliveryInv
  BY SafeInit DEF DeliveryInit, DeliveryInv, NothingInvented

\* What a step of n adds to the proposals and to the signatures is its own.
OwnWork(n) ==
    /\ proposals \subseteq proposals' /\ partials \subseteq partials' /\ qcs \subseteq qcs'
    /\ \A p \in proposals' \ proposals : p.proposer = n
    /\ \A x \in partials' \ partials : x.voter = n

LEMMA MicroOwn ==
    ASSUME NEW n, NEW m, on_local_micro_qcs(n, m)
    PROVE  OwnWork(n)
  BY DEF on_local_micro_qcs, PushMicro, BuildCandidate, OwnWork

LEMMA ProposalOwn ==
    ASSUME NEW n, NEW p, on_macro_proposal(n, p)
    PROVE  OwnWork(n)
  BY DEF on_macro_proposal, RejectProposal, ReportEquivocation, IgnoreProposal, VoteForProposal, OwnWork

LEMMA PartialOwn ==
    ASSUME NEW n, NEW c, NEW m, on_bls_partial(n, c, m)
    PROVE  OwnWork(n)
  BY DEF on_bls_partial, CollectPartial, AssembleQc, OwnWork

LEMMA QcOwn ==
    ASSUME NEW n, NEW c, on_macro_qc_received(n, c)
    PROVE  OwnWork(n)
  BY DEF on_macro_qc_received, OwnWork

LEMMA TimerOwn ==
    ASSUME NEW n, NEW h, on_timer_fired(n, h)
    PROVE  OwnWork(n)
  <1>1. CASE BackupTimerFired(n, h)
    BY <1>1 DEF BackupTimerFired, OwnWork
  <1>2. CASE ModeBTimerFired(n, h)
    BY <1>2 DEF ModeBTimerFired, OwnWork
  <1> QED BY <1>1, <1>2 DEF on_timer_fired

LEMMA IdleOwn ==
    ASSUME NEW n, UNCHANGED vars
    PROVE  OwnWork(n)
  BY DEF vars, OwnWork

\* What was sent stays sent.
LEMMA SentStays ==
    ASSUME NEW n, OwnWork(n), NEW x, Sent(x)
    PROVE  Sent(x)'
  BY DEF OwnWork, Sent, AsProposal

\* What Broadcast puts on its way has happened: it is read off the step.
LEMMA BroadcastSent ==
    ASSUME SafeInv', NEW n \in Honest, OwnWork(n), NEW x \in Broadcast(n)
    PROVE  Sent(x)'
  <1>0. /\ book' \in [Honest -> MacroBook] /\ proposals' \subseteq Proposal
        /\ partials' \subseteq Partial /\ qcs' \subseteq Hash \ {Genesis}
        /\ book'[n].emitted_macro_qc \subseteq qcs'
    BY DEF SafeInv, Types, BookOf, ChainOf
  <1>1. ASSUME NEW p \in proposals' \ proposals, x = message("proposal", n, p.checkpoint, p.beacon)
        PROVE  Sent(x)'
    <2>1. p = [checkpoint |-> p.checkpoint, proposer |-> p.proposer, beacon |-> p.beacon]
          /\ p.checkpoint \in Hash \ {Genesis} /\ p.beacon \in Hash
      BY <1>0 DEF Proposal
    <2>2. p.proposer = n
      BY DEF OwnWork
    <2>3. /\ x.kind = "proposal" /\ x.from = n /\ x.checkpoint = p.checkpoint /\ x.beacon = p.beacon
          /\ x \in Message
      BY <1>1, <2>1 DEF message, Message
    <2>4. AsProposal(x) = p
      BY <2>1, <2>2, <2>3 DEF AsProposal
    <2> QED BY <2>3, <2>4 DEF Sent, AsProposal
  <1>2. ASSUME NEW y \in partials' \ partials, x = message("vote", n, y.checkpoint, Genesis)
        PROVE  Sent(x)'
    <2>1. y = [checkpoint |-> y.checkpoint, voter |-> y.voter] /\ y.checkpoint \in Hash \ {Genesis}
      BY <1>0 DEF Partial
    <2>2. y.voter = n
      BY DEF OwnWork
    <2>3. Genesis \in Hash
      BY DEF Hash, Genesis
    <2>4. x.kind = "vote" /\ x.from = n /\ x.checkpoint = y.checkpoint /\ x \in Message
      BY <1>2, <2>1, <2>3 DEF message, Message
    <2> QED BY <2>1, <2>2, <2>4 DEF Sent
  <1>3. ASSUME NEW c \in book'[n].emitted_macro_qc \ book[n].emitted_macro_qc, x = message("qc", n, c, Genesis)
        PROVE  Sent(x)'
    <2>1. c \in qcs' /\ c \in Hash \ {Genesis}
      BY <1>0
    <2>2. Genesis \in Hash
      BY DEF Hash, Genesis
    <2>3. x.kind = "qc" /\ x.checkpoint = c /\ x \in Message
      BY <1>3, <2>1, <2>2 DEF message, Message
    <2> QED BY <2>1, <2>3 DEF Sent
  <1> QED BY <1>1, <1>2, <1>3 DEF Broadcast

\* Mode B sends signatures that it has put among the partials.
LEMMA ModeBSent ==
    ASSUME SafeInv', NEW n \in Honest, NEW h, ModeBTimerFired(n, h), NEW c \in ModeBSigns(n, h)
    PROVE  Sent(message("mode_b", n, c, Genesis))'
  <1> DEFINE x == message("mode_b", n, c, Genesis)
             y == [checkpoint |-> c, voter |-> n]
  <1>1. y \in partials'
    BY DEF ModeBTimerFired
  <1>2. y \in Partial
    BY <1>1 DEF SafeInv, Types
  <1>3. c \in Hash \ {Genesis}
    BY <1>2 DEF Partial
  <1>4. Genesis \in Hash
    BY DEF Hash, Genesis
  <1>5. x \in Message /\ x.kind = "mode_b" /\ x.from = n /\ x.checkpoint = c
    BY <1>3, <1>4 DEF message, Message
  <1> QED BY <1>1, <1>5 DEF Sent

\* A step of n whose messages have been sent keeps the invariant.
LEMMA InboxStep ==
    ASSUME DeliveryInv, SafeInv', NEW n \in Honest, OwnWork(n),
           NEW msgs, \A x \in msgs : Sent(x)', NEW gone,
           inbox' = [m \in Honest |-> IF m = n THEN inbox[m] \ gone ELSE inbox[m] \cup msgs]
    PROVE  DeliveryInv'
  <1>1. \A m \in Honest : \A x \in inbox[m] : x \in Message /\ Sent(x)'
    BY SentStays DEF DeliveryInv, NothingInvented, Sent
  <1>2. \A x \in msgs : x \in Message
    BY DEF Sent
  <1>3. ASSUME NEW m \in Honest, NEW x \in inbox'[m] PROVE x \in Message /\ Sent(x)'
    BY <1>1, <1>2
  <1>4. NothingInvented'
    BY <1>3 DEF NothingInvented
  <1>5. inbox' \in [Honest -> SUBSET Message]
    BY <1>3
  <1> QED BY <1>4, <1>5 DEF DeliveryInv

\* Every step of the network is one of MacroFin's, or none: what arrives is a copy
\* of something that MacroFin lets arrive.
LEMMA DeliveryStep ==
    ASSUME DeliveryInv, DeliveryNext
    PROVE  [Next]_vars /\ DeliveryInv'
  <1>0. PICK n \in Honest : Emit(n) \/ Deliver(n) \/ Fire(n)
    BY DEF DeliveryNext
  <1>1. ASSUME HonestNext(n) PROVE [Next]_vars /\ SafeInv'
    <2>1. Next
      BY <1>1 DEF Next
    <2> QED BY <2>1, SafeNext DEF DeliveryInv
  <1>2. ASSUME UNCHANGED vars PROVE [Next]_vars /\ SafeInv'
    BY <1>2, SafeNext DEF DeliveryInv
  <1>3. ASSUME OwnWork(n), SafeInv', Send(n, Broadcast(n)) PROVE DeliveryInv'
    <2> DEFINE msgs == Broadcast(n)
    <2>1. \A x \in msgs : Sent(x)'
      BY <1>3, BroadcastSent
    <2>2. inbox' = [m \in Honest |-> IF m = n THEN inbox[m] \ {} ELSE inbox[m] \cup msgs]
      BY <1>3 DEF Send
    <2> HIDE DEF msgs
    <2> QED BY <1>3, <2>1, <2>2, InboxStep
  <1>4. ASSUME OwnWork(n), SafeInv', NEW x, Receive(n, x, Broadcast(n)) PROVE DeliveryInv'
    <2> DEFINE msgs == Broadcast(n)
    <2>1. \A y \in msgs : Sent(y)'
      BY <1>4, BroadcastSent
    <2>2. inbox' = [m \in Honest |-> IF m = n THEN inbox[m] \ {x} ELSE inbox[m] \cup msgs]
      BY <1>4 DEF Receive
    <2> HIDE DEF msgs
    <2> QED BY <1>4, <2>1, <2>2, InboxStep
  <1>5. CASE Emit(n)
    <2>1. PICK m \in Micro : on_local_micro_qcs(n, m)
      BY <1>5 DEF Emit
    <2>2. HonestNext(n)
      BY <2>1 DEF HonestNext, MicroStep
    <2>3. OwnWork(n) /\ Send(n, Broadcast(n))
      BY <1>5, <2>1, MicroOwn DEF Emit
    <2> QED BY <1>1, <1>3, <2>2, <2>3
  <1>6. ASSUME NEW x \in inbox[n], DeliverProposal(n, x) PROVE [Next]_vars /\ DeliveryInv'
    <2>1. AsProposal(x) \in proposals
      BY <1>6 DEF DeliverProposal, DeliveryInv, NothingInvented, Sent
    <2>2. UNCHANGED vars \/ on_macro_proposal(n, AsProposal(x))
      BY <1>6 DEF DeliverProposal
    <2>3. on_macro_proposal(n, AsProposal(x)) => HonestNext(n)
      BY <2>1 DEF HonestNext, ProposalStep
    <2>4. OwnWork(n)
      BY <2>2, ProposalOwn, IdleOwn
    <2>5. Receive(n, x, Broadcast(n))
      BY <1>6 DEF DeliverProposal
    <2> QED BY <1>1, <1>2, <1>4, <2>2, <2>3, <2>4, <2>5
  <1>7. ASSUME NEW x \in inbox[n], DeliverPartial(n, x) PROVE [Next]_vars /\ DeliveryInv'
    <2>1. x.from \in Validator
      BY ValidatorAssumption DEF DeliveryInv, NothingInvented, Sent, Message
    <2>2. UNCHANGED vars \/ /\ on_bls_partial(n, x.checkpoint, x.from)
                            /\ x.checkpoint \in book[n].candidate
      BY <1>7 DEF DeliverPartial, NewPartial
    <2>3. UNCHANGED vars \/ HonestNext(n)
      BY <2>1, <2>2 DEF HonestNext, PartialStep
    <2>4. OwnWork(n)
      BY <2>2, PartialOwn, IdleOwn
    <2>5. Receive(n, x, Broadcast(n))
      BY <1>7 DEF DeliverPartial
    <2> QED BY <1>1, <1>2, <1>4, <2>3, <2>4, <2>5
  <1>8. ASSUME NEW x \in inbox[n], DeliverQc(n, x) PROVE [Next]_vars /\ DeliveryInv'
    <2>1. x.checkpoint \in qcs
      BY <1>8 DEF DeliverQc, DeliveryInv, NothingInvented, Sent
    <2>2. UNCHANGED vars \/ on_macro_qc_received(n, x.checkpoint)
      BY <1>8 DEF DeliverQc
    <2>3. UNCHANGED vars \/ HonestNext(n)
      BY <2>1, <2>2 DEF HonestNext, QcStep
    <2>4. OwnWork(n)
      BY <2>2, QcOwn, IdleOwn
    <2>5. inbox' = [m \in Honest |-> IF m = n THEN inbox[m] \ {x} ELSE inbox[m] \cup {}]
      BY <1>8 DEF DeliverQc, Receive
    <2>6. \A y \in {} : Sent(y)'
      OBVIOUS
    <2>7. [Next]_vars /\ SafeInv'
      BY <1>1, <1>2, <2>3
    <2> QED BY <2>4, <2>5, <2>6, <2>7, InboxStep
  <1>9. ASSUME NEW h \in Height, BackupTimerFired(n, h), Send(n, Broadcast(n))
        PROVE  [Next]_vars /\ DeliveryInv'
    <2>1. on_timer_fired(n, h)
      BY <1>9 DEF on_timer_fired
    <2>2. HonestNext(n) /\ OwnWork(n)
      BY <2>1, TimerOwn DEF HonestNext, TimerStep
    <2> QED BY <1>1, <1>3, <1>9, <2>2
  <1>10. ASSUME NEW h \in Height, ModeBTimerFired(n, h),
                Send(n, {message("mode_b", n, c, Genesis) : c \in ModeBSigns(n, h)})
         PROVE  [Next]_vars /\ DeliveryInv'
    <2> DEFINE msgs == {message("mode_b", n, c, Genesis) : c \in ModeBSigns(n, h)}
    <2>1. on_timer_fired(n, h)
      BY <1>10 DEF on_timer_fired
    <2>2. HonestNext(n) /\ OwnWork(n)
      BY <2>1, TimerOwn DEF HonestNext, TimerStep
    <2>3. [Next]_vars /\ SafeInv'
      BY <1>1, <2>2
    <2>4. \A c \in ModeBSigns(n, h) : Sent(message("mode_b", n, c, Genesis))'
      BY <1>10, <2>3, ModeBSent
    <2>5. \A x \in msgs : Sent(x)'
      BY <2>4
    <2>6. inbox' = [m \in Honest |-> IF m = n THEN inbox[m] \ {} ELSE inbox[m] \cup msgs]
      BY <1>10 DEF Send
    <2> HIDE DEF msgs
    <2> QED BY <2>2, <2>3, <2>5, <2>6, InboxStep
  <1>11. CASE Deliver(n)
    BY <1>6, <1>7, <1>8, <1>11 DEF Deliver
  <1>12. CASE Fire(n)
    BY <1>9, <1>10, <1>12 DEF Fire
  <1> QED BY <1>0, <1>5, <1>11, <1>12

LEMMA DeliveryIdle ==
    ASSUME DeliveryInv, UNCHANGED deliveryVars
    PROVE  [Next]_vars /\ DeliveryInv'
  <1>1. UNCHANGED vars /\ inbox' = inbox
    BY DEF deliveryVars, vars
  <1>2. SafeInv'
    BY <1>1, SafeNext DEF DeliveryInv
  <1>3. NothingInvented'
    BY <1>1 DEF DeliveryInv, NothingInvented, Sent, AsProposal, vars
  <1> QED BY <1>1, <1>2, <1>3 DEF DeliveryInv

LEMMA DeliveryInvariant == DeliverySpec => []DeliveryInv /\ [][Next]_vars
  <1>1. DeliveryInv /\ [DeliveryNext]_deliveryVars => [Next]_vars /\ DeliveryInv'
    BY DeliveryStep, DeliveryIdle
  <1> QED BY <1>1, DeliveryStarts, PTL DEF DeliverySpec

\* A MacroFin validator that hears every broadcast once is still a MacroFin
\* validator: the network of the liveness runs delivers only what on_macro_proposal,
\* on_bls_partial and on_macro_qc_received are handed in MacroFin too, and the copies
\* that the handlers drop are steps that change nothing.  So the stall that one of
\* those runs exhibits is a behaviour of MacroFin, and what is proved of MacroFin
\* holds there.
THEOREM DeliveryImplementsMacroFin == DeliverySpec => Spec
  <1>1. DeliveryInit => Init
    BY DEF DeliveryInit
  <1> QED BY <1>1, DeliveryInvariant, PTL DEF DeliverySpec, Spec

\* Every message on its way was sent: its proposal has been made by its sender, its
\* vote signed by its sender, and its MacroQc assembled.
THEOREM MessagesWereSent == DeliverySpec => []NothingInvented
  <1>1. DeliveryInv => NothingInvented
    BY DEF DeliveryInv
  <1> QED BY <1>1, DeliveryInvariant, PTL

\* In particular the validators that nothing is lost for agree on what is final, in
\* every interleaving of deliveries, of the backup timers and of the Mode B deadlines.
THEOREM DeliveredFinalsAgree ==
    ASSUME Cardinality(Validator) = 3 * F + 1
    PROVE  DeliverySpec => []FinalsAgree
  <1>1. Cardinality(Forgetful) <= F
    <2>1. Cardinality(Forgetful) = 0
      BY NobodyForgets, FS_EmptySet
    <2>2. Cardinality(Validator) \in Nat
      BY ValidatorAssumption, FS_CardinalityType
    <2> QED BY <2>1, <2>2 DEF F
  <1>2. Spec => []FinalsAgree
    BY <1>1, FinalityAgreed
  <1> QED BY <1>2, DeliveryImplementsMacroFin, PTL

=============================================================================
