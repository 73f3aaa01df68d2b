--------------------------- MODULE DecisionRegister ---------------------------
(***************************************************************************)
(* What the issue lifecycle promises about decisions: an abstract register *)
(* that is written once for each lineage of proposals.  The effect of a    *)
(* result may be asked for many times and under two identities; whatever   *)
(* is asked, a lineage has one decision, it never changes, and             *)
(* an implementation starts only for a generation (an updated_at) in which *)
(* some lineage was approved.                                              *)
(***************************************************************************)
EXTENDS TransitionVersion

VARIABLES
    decided,   \* the decisions taken: records of a lineage and a decision
    started    \* the generations for which an implementation was started

Decide(lineage, decision) ==
    /\ \A d \in decided : d.lineage # lineage
    /\ decided' = decided \cup {[lineage |-> lineage, decision |-> decision]}
    /\ UNCHANGED started

Start(generation) ==
    /\ \E d \in decided : d.decision = "approve" /\ d.lineage.updated_at = generation
    /\ started' = started \cup {generation}
    /\ UNCHANGED decided

RegisterInit == decided = {} /\ started = {}

RegisterNext ==
    \/ \E d \in decided' : Decide(d.lineage, d.decision)
    \/ \E g \in started' : Start(g)

RegisterSpec == RegisterInit /\ [][RegisterNext]_<<decided, started>>

=============================================================================
