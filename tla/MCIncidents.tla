---------------------------- MODULE MCIncidents ----------------------------
(* Instances of Incidents for TLC. *)
EXTENDS Incidents, TLC

CONSTANTS r1, r2, r3, c1, c2, n1, n2, v1

Minimum == [n \in Rule |-> IF n = n1 THEN 2 ELSE 1]

(* Bounds: two ingests, of one correlation id, and one change by an        *)
(* operator at most, while no rule is missing; the dashboard is read while *)
(* cameras are deleted and nothing else happens.  The second rule and the  *)
(* low severity, for which one of the rules is not due, come with a single *)
(* request, and that rule is not deleted.                                  *)
TwoIngests ==
  /\ Cardinality(Of(Ingest)) <= 2
  /\ \A r, s \in Of(Ingest) : r # s => SameCorrelation(r, s)
OneOperator ==
  /\ Cardinality(Of({"status", "note"})) <= 1
  /\ Of({"status", "note"}) # {} => rules = {n1}
DashboardApart ==
  Of(Ingest \cup {"status", "note"}) # {} \/ rules # {} =>
    clock = 0 /\ cache = Nil /\ \A v \in Viewer : view[v] = Idle
RulesAlone ==
  n2 \in rules \/ (\E r \in Of(Ingest) : req[r].severity = 1) =>
    Cardinality(Of(Kind)) <= 1
SecondStays == n2 \in rules => n2 \in rules'

Symmetry == Permutations(Request) \cup Permutations(Camera)
=============================================================================
