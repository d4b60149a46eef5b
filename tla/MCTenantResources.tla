------------------------ MODULE MCTenantResources ------------------------
(* Instances of TenantResources for TLC. *)
EXTENDS TenantResources, TLC

CONSTANTS a, b, r1, r2, r3, r4, t1, t2

Symmetry == Permutations(Org) \cup Permutations(Id) \cup Permutations(Tx)

(* Two organizations are busy only while nobody changes a plan.            *)
Busy(o) ==
  \/ \E i \in Id : Live(i) /\ rows[i].org = o
  \/ \E t \in Tx : tx[t] # Nil /\ tx[t].org = o
PlansChangeAlone ==
  \/ \A o \in Org : peakLimit[o] = cameraLimit[o]
  \/ Cardinality({o \in Org : Busy(o)}) <= 1

(* The fourth row is there for the tables that refer to two others; states *)
(* with four rows of the shallower tables are not explored further.        *)
FourthRowRefers ==
  (\E i \in Id : ~Live(i)) \/
  (\E i \in Id : rows[i].table \in {"ai_rules", "monitored_objects"})
=============================================================================
