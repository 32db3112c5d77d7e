----------------------------- MODULE MCBullshark -----------------------------
(***************************************************************************)
(* Instances of Bullshark for TLC: four validators, all of which have a    *)
(* vertex in each of the rounds of two waves.  The hashes of a round are   *)
(* in the order of the authors.                                            *)
(***************************************************************************)
EXTENDS Bullshark

CONSTANT MaxRound   \* bound: the last round

AllVertices == [round : 0 .. MaxRound, author : Validator]
AuthorBefore(u, v) == u.author < v.author

\* The anchor is the vertex of author 1, and of author 2 once the beacon has moved.
AnchorByBeacon(w, b) == 1 + b

\* Everybody references the whole round below, except that the authors
\* leaves[r] of round r leave out one author.
DagOf(leaves) ==
    [v \in Vertex |->
        {p \in Vertex : /\ p.round = v.round - 1
                        /\ v.round \in DOMAIN leaves /\ v.author \in leaves[v.round].authors
                               => p.author # leaves[v.round].out}]

Skip(S, a) == [authors |-> S, out |-> a]
Full == << >>

\* The anchor in round s wins one supporter in each of the three rounds above it.
OneByOne(s) == [r \in s + 1 .. s + 3 |->
                   CASE r = s + 1 -> Skip({2, 3, 4}, 1)
                     [] r = s + 2 -> Skip({1, 3, 4}, 1)
                     [] r = s + 3 -> Skip({1, 2, 4}, 2)]

\* It wins two in the first and the others in the second.
InTwoRounds(s) == [r \in {s + 1} |-> Skip({3, 4}, 1)]

\* Author a references its own vertices only, which takes a list that repeats the
\* one parent: its vertices miss what the shortcut commits.
Alone(a) ==
    [v \in Vertex |-> {p \in Vertex : /\ p.round = v.round - 1
                                      /\ v.author = a => p.author = a}]

FewDags == {DagOf(l) : l \in {Full, OneByOne(0), OneByOne(4), InTwoRounds(4)}} \cup {Alone(4)}
=============================================================================
