------------------------------ MODULE MacroLog ------------------------------
(***************************************************************************)
(* What macro-finality promises to those who read it: a log of checkpoints *)
(* that only ever grows at its end.  Each validator has adopted a prefix   *)
(* of the log and calls a shorter prefix final, and neither ever shrinks.  *)
(*                                                                         *)
(* A checkpoint stands for the log up to and including it.                 *)
(***************************************************************************)
EXTENDS Integers, Sequences, FiniteSets

CONSTANT Reader         \* the validators that follow the log

VARIABLES certified,    \* the checkpoints of the log
          view,         \* view[n]: the last checkpoint n has adopted
          final         \* final[n]: the last checkpoint n calls final

vars == <<certified, view, final>>

Prefix(s, t) == Len(s) <= Len(t) /\ s = SubSeq(t, 1, Len(s))

Init == /\ certified = {}
        /\ view = [n \in Reader |-> << >>]
        /\ final = [n \in Reader |-> << >>]

\* The log is extended by the one checkpoint of its next height.
Certify == \E c \in certified' \ certified :
               /\ certified' = certified \cup {c}
               /\ Len(c) = Cardinality(certified) + 1
               /\ SubSeq(c, 1, Len(c) - 1) \in certified \cup {<< >>}

\* A reader takes over the next checkpoint of the log.  What it calls final may
\* move on with it, and stays behind it.
Adopt(n) == \E c \in certified' :
                /\ Len(c) = Len(view[n]) + 1
                /\ Prefix(view[n], c)
                /\ view' = [view EXCEPT ![n] = c]
                /\ final' = [final EXCEPT ![n] = final'[n]]
                /\ Prefix(final[n], final'[n]) /\ Prefix(final'[n], view[n])

Next == \/ Certify /\ UNCHANGED <<view, final>>
        \/ \E n \in Reader : Adopt(n) /\ (Certify \/ UNCHANGED certified)

Spec == Init /\ [][Next]_vars
=============================================================================
