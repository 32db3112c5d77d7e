--------------------------- MODULE MCMacroDelivery ---------------------------
(***************************************************************************)
(* Instances of MacroDelivery for TLC.  The sortition is a round robin by  *)
(* height: validator 1 first, then 2.                                      *)
(***************************************************************************)
EXTENDS MacroDelivery

PrimaryByHeight(h, beacon, reputation) == 1 + (h % Cardinality(Validator))
BackupByHeight(h, beacon, reputation) == 1 + ((h + 1) % Cardinality(Validator))
NoProposals == {}

\* Nothing is on its way, and no timer is armed.
Quiet == \A n \in Honest : /\ inbox[n] = {}
                           /\ book[n].backup_timers = {}
                           /\ book[n].mode_b_timers = {}

\* A bound on the search for counterexamples: windows after the first are slower
\* than everything the first one starts.  Such a behaviour is one of DeliverySpec,
\* and as fair.
Paced(n) == emitted[n] = {} \/ Quiet
PacedNext == \E n \in Honest : (Paced(n) /\ Emit(n)) \/ Deliver(n) \/ Fire(n)
PacedSpec ==
    /\ DeliveryInit
    /\ [][PacedNext]_deliveryVars
    /\ \A n \in Honest : /\ WF_deliveryVars(Emit(n))
                         /\ WF_deliveryVars(Deliver(n))
                         /\ WF_deliveryVars(Fire(n))
=============================================================================
