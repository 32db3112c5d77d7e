---------------------------- MODULE MacroDelivery ----------------------------
(***************************************************************************)
(* MacroFin over a network that loses nothing and repeats nothing: every   *)
(* broadcast is delivered to every other live validator exactly once, in   *)
(* any order.  This is the best that gossip does, so what stalls here has  *)
(* stalled for good.  Nobody restarts; validators that are not in Honest   *)
(* are down.  L2 is taken at its best too: every validator emits the same  *)
(* micro checkpoints, in the same order.                                   *)
(***************************************************************************)
EXTENDS MacroFin

ASSUME OrderAssumption == Micro \subseteq Nat
ASSUME NobodyForgets == Forgetful = {}

VARIABLE inbox   \* inbox[n]: the messages on their way to n

deliveryVars == <<emitted, book, proposals, partials, qcs, evidence, inbox>>

\* A partial is sent by a vote and once more by Mode B: two messages.  Only a
\* proposal has a beacon.
Message == [kind : {"proposal", "vote", "mode_b", "qc"}, from : Honest,
            checkpoint : Hash \ {Genesis}, beacon : Hash]

message(kind, n, c, beacon) ==
    [kind |-> kind, from |-> n, checkpoint |-> c, beacon |-> beacon]

AsProposal(x) == [checkpoint |-> x.checkpoint, proposer |-> x.from, beacon |-> x.beacon]

\* What the step of n broadcasts, apart from Mode B.
Broadcast(n) ==
    {message("proposal", n, p.checkpoint, p.beacon) : p \in proposals' \ proposals}
    \cup {message("vote", n, x.checkpoint, Genesis) : x \in partials' \ partials}
    \cup {message("qc", n, c, Genesis) : c \in book'[n].emitted_macro_qc \ book[n].emitted_macro_qc}

Send(n, msgs) == inbox' = [m \in Honest |-> IF m = n THEN inbox[m] ELSE inbox[m] \cup msgs]

\* n takes x and sends msgs.
Receive(n, x, msgs) ==
    inbox' = [m \in Honest |-> IF m = n THEN inbox[m] \ {x} ELSE inbox[m] \cup msgs]

DeliveryInit == Init /\ inbox = [n \in Honest |-> {}]

\* L2 of n emits the next micro checkpoint.
Emit(n) ==
    /\ \E m \in Micro : /\ \A k \in Micro : k < m => k \in emitted[n]
                        /\ on_local_micro_qcs(n, m)
    /\ Send(n, Broadcast(n))

\* A copy of a proposal that n has seen is dropped.
DeliverProposal(n, x) ==
    LET p == AsProposal(x)
        again == Verified(n, p) /\ \E q \in SeenOf(n, p) : q.checkpoint = p.checkpoint
    IN  /\ x.kind = "proposal"
        /\ (again /\ UNCHANGED vars) \/ (~again /\ on_macro_proposal(n, p))
        /\ Receive(n, x, Broadcast(n))

\* A partial for a checkpoint that n has not built, or has adopted, is dropped.
DeliverPartial(n, x) ==
    LET new == NewPartial(n, x.checkpoint, x.from)
    IN  /\ x.kind \in {"vote", "mode_b"}
        /\ (~new /\ UNCHANGED vars) \/ (new /\ on_bls_partial(n, x.checkpoint, x.from))
        /\ Receive(n, x, Broadcast(n))

\* So is a MacroQc; one that was received is not sent on.
DeliverQc(n, x) ==
    LET new == x.checkpoint \in book[n].candidate \ book[n].emitted_macro_qc
    IN  /\ x.kind = "qc"
        /\ (~new /\ UNCHANGED vars) \/ (new /\ on_macro_qc_received(n, x.checkpoint))
        /\ Receive(n, x, {})

Deliver(n) == \E x \in inbox[n] : DeliverProposal(n, x) \/ DeliverPartial(n, x) \/ DeliverQc(n, x)

\* A timer fires; Mode B sends its partial even if it was sent before.
Fire(n) ==
    \E h \in Height :
        \/ BackupTimerFired(n, h) /\ Send(n, Broadcast(n))
        \/ /\ ModeBTimerFired(n, h)
           /\ Send(n, {message("mode_b", n, c, Genesis) : c \in ModeBSigns(n, h)})

DeliveryNext == \E n \in Honest : Emit(n) \/ Deliver(n) \/ Fire(n)

(***************************************************************************)
(* Fairness.  Whatever is on its way arrives; a timer that was armed fires *)
(* (the host sleeps for its delay and sends the event); L1 and L2 go on.   *)
(* Finitely many messages are sent, so that to go on delivering is to      *)
(* deliver each of them.                                                   *)
(***************************************************************************)
DeliverySpec ==
    /\ DeliveryInit
    /\ [][DeliveryNext]_deliveryVars
    /\ \A n \in Honest : /\ WF_deliveryVars(Emit(n))
                         /\ WF_deliveryVars(Deliver(n))
                         /\ WF_deliveryVars(Fire(n))

-----------------------------------------------------------------------------
\* n has built a candidate for height h, and has neither signed nor adopted one.
OwesVote(n, h) ==
    /\ CandidateAt(book[n], h) # {}
    /\ h >= book[n].next_height
    /\ ~\E x \in partials : x.voter = n /\ HeightOf(x.checkpoint) = h

\* A height for which a validator has built a candidate does not stay without its
\* vote: it signs a checkpoint of that height, or it adopts one, whatever happens
\* to the primary, to the backup and to the candidate (the Mode B deadline).
EveryHeightVoted == []<>(\A n \in Honest, h \in Height : ~OwesVote(n, h))

\* With a quorum of validators live and correct, some checkpoint gets a MacroQc.
SomeQc == <>(qcs # {})
=============================================================================
