------------------------------ MODULE VertexLoss ------------------------------
(***************************************************************************)
(* VertexCert over links that lose messages.  A copy of a broadcast is     *)
(* addressed to one validator; a lost copy is never delivered, and only    *)
(* what the code broadcasts again gets a new copy: the round timer sends   *)
(* the proposal of the current round again, a partial or a certificate is  *)
(* sent once.  Nobody is faulty; who is not in Honest is down.             *)
(***************************************************************************)
EXTENDS VertexCert

CONSTANTS MaxLoss,   \* bound: how many copies the network loses
          Lossy      \* the kinds of messages that may get lost

ASSUME NobodyFaulty == Faulty = {}
ASSUME MaxLossAssumption == MaxLoss \in Nat
ASSUME LossyAssumption == Lossy \subseteq {"proposal", "partial", "cert"}

VARIABLES lost,    \* lost copies: what was sent, and to whom
          losses   \* how many were lost so far

lossVars == <<book, proposals, partials, certs, evidence, lost, losses>>

\* What was sent: a proposal, a partial (with its voter) or a certificate.
ProposalCopy(p, n)  == <<"proposal", p.vertex, n>>
PartialCopy(v, m)   == <<"partial", v, m>>
CertCopy(v, n)      == <<"cert", v, n>>

Sent == {ProposalCopy(p, n) : p \in proposals, n \in Honest}
        \cup {PartialCopy(x.vertex, x.voter) : x \in partials}
        \cup {CertCopy(v, n) : v \in certs, n \in Honest}

LossInit == Init /\ lost = {} /\ losses = 0

Lose(c) == /\ losses < MaxLoss
           /\ c[1] \in Lossy
           /\ lost' = lost \cup {c}
           /\ losses' = losses + 1
           /\ UNCHANGED vars

\* Mutant: the timer is re-armed but nothing is sent.
RebroadcastNothing(n) == {}

\* The copies that on_timer_fired of n sends anew.
Rebroadcast(n) ==
    {ProposalCopy(p, m) : p \in {q \in proposals : /\ q.vertex \in book[n].my_proposals
                                                   /\ q.vertex.round = book[n].current_round},
                          m \in Honest}

\* The fallback timer of n fires in a stalled round.
LossyTimer(n) == /\ on_timer_fired(n)
                 /\ lost' = IF HasQuorum(book[n], book[n].current_round)
                            THEN lost ELSE lost \ Rebroadcast(n)
                 /\ UNCHANGED losses

\* A bound: what belongs to the last round of the model is not delivered.
Deliverable(v) == v.round < MaxRound

Deliver(n) ==
    /\ \/ genesis_propose(n)
       \/ \E p \in proposals : /\ Deliverable(p.vertex)
                               /\ ProposalCopy(p, n) \notin lost
                               /\ on_vertex_proposal(n, p)
       \/ \E p \in proposals, m \in Validator : /\ Deliverable(p.vertex)
                                                /\ PartialCopy(p.vertex, m) \notin lost
                                                /\ on_vertex_partial(n, p.vertex, m)
       \/ \E v \in certs : /\ Deliverable(v)
                           /\ CertCopy(v, n) \notin lost
                           /\ on_certified_vertex(n, v)
    /\ UNCHANGED <<lost, losses>>

LossNext == \/ \E n \in Honest : Deliver(n) \/ LossyTimer(n)
            \/ \E c \in Sent \ lost : Lose(c)

\* Whatever was not lost is delivered, and an armed timer fires.  A step of
\* either that changes anything is progress that is never undone, and there are
\* finitely many of them, so fairness of their disjunction is fairness of each.
LossSpec == /\ LossInit
            /\ [][LossNext]_lossVars
            /\ WF_lossVars(\E n \in Honest : Deliver(n) \/ LossyTimer(n))

-----------------------------------------------------------------------------
\* Loss recovery: however few messages are lost, the timers' re-broadcasts get
\* every honest validator to the last round of the model.
RecoversFromLoss == <>(\A n \in Honest : book[n].current_round = MaxRound)

=============================================================================
