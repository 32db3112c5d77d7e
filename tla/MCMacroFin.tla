----------------------------- MODULE MCMacroFin -----------------------------
(***************************************************************************)
(* Instances of MacroFin for TLC: four validators, so that a quorum is     *)
(* three of them.                                                          *)
(***************************************************************************)
EXTENDS MacroFin, TLC

\* Micro checkpoints are told apart and nothing else.
MicroSymmetry == Permutations(Micro)

\* The sortition: a round robin that moves on with the height and with what
\* validator 1 earned, so that reputations which differ give different schedules.
Turn(h, reputation) == 1 + ((h + reputation[1]) % Cardinality(Validator))
After(v, k) == 1 + ((v - 1 + k) % Cardinality(Validator))

PrimaryByTurn(h, beacon, reputation) == Turn(h, reputation)
NextInTurn(h, beacon, reputation) == After(Turn(h, reputation), 1)

NoProposals == {}

\* A peer proposes one chain of checkpoints, each on top of the one before, over
\* the micro checkpoints 1, 2, 3, ... in this order.
Windows == [i \in 1 .. MaxHeight + 1 |->
               [height |-> i - 1, root |-> [k \in 1 .. W |-> (i - 1) * W + k]]]
PeerProposesChain ==
    {[checkpoint |-> SubSeq(Windows, 1, i), proposer |-> 2, beacon |-> SubSeq(Windows, 1, i - 1)] :
        i \in DOMAIN Windows}

\* Another peer proposes the second window for height 0.
PeersDisagree ==
    PeerProposesChain \cup
    {[checkpoint |-> build(0, Genesis, Windows[2].root), proposer |-> 3, beacon |-> Genesis]}
=============================================================================
