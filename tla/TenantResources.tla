-------------------------- MODULE TenantResources --------------------------
(***************************************************************************)
(* The configuration rows of the organizations (sites, zones, cameras,     *)
(* rules, models, schedules, monitored objects) and the requests that      *)
(* create and delete them.  A request runs in one transaction on one       *)
(* connection of the pool, bound to its organization (withTenant); it      *)
(* checks the rows it refers to under row level security, writes one row,  *)
(* appends an audit row and commits.  PostgreSQL runs READ COMMITTED: a    *)
(* statement sees what was committed when it starts, a foreign key holds a *)
(* share lock on the row it points at until the end of the transaction,    *)
(* and a DELETE waits for those locks and holds the rows it removes.       *)
(*                                                                         *)
(* A row has at most one ON DELETE CASCADE reference (its owner) and some  *)
(* ON DELETE SET NULL references (its links).  One statement takes all its *)
(* locks in one step.  Columns that refer to no row, and the UPDATEs,      *)
(* which change only such columns, are left out.                           *)
(***************************************************************************)
EXTENDS Integers, FiniteSets, Sequences

CONSTANTS
  Org,        \* organizations
  Id,         \* primary keys
  Tx,         \* connections of the pool: transactions that can be open
  Limit,      \* camera limits of the plans
  Nil

ASSUME IdsAssumption == Nil \notin Id /\ IsFiniteSet(Id)
ASSUME TxAssumption == IsFiniteSet(Tx) /\ Tx # {}
ASSUME LimitAssumption == Limit \subseteq Nat

VARIABLES
  rows,        \* [Id -> row or Nil]: what is committed
  tx,          \* [Tx -> open transaction or Nil]
  cameraLimit, \* subscriptions.camera_limit of each organization
  peakLimit    \* history: the largest camera limit an organization has had

vars == <<rows, tx, cameraLimit, peakLimit>>

----------------------------------------------------------------------------
(* The schema: the table an owner is in and the tables links point into.   *)

Table == {"sites", "zones", "cameras", "ai_rules", "ai_models",
          "zone_schedules", "monitored_objects"}

OwnerTable == [table \in Table |->
  CASE table \in {"zones", "cameras"}              -> "sites"
    [] table \in {"ai_rules", "monitored_objects"} -> "cameras"
    [] table = "zone_schedules"                    -> "zones"
    [] OTHER                                       -> Nil]

LinkTable == [table \in Table |->
  CASE table \in {"cameras", "monitored_objects"} -> {"zones"}
    [] table = "ai_rules"                         -> {"zones", "ai_models"}
    [] OTHER                                      -> {}]

RowOf(o) ==
  [org : {o}, table : Table, owner : Id \cup {Nil}, links : SUBSET Id]

ASSUME NilAssumption == Nil \notin Table /\ \A o \in Org : Nil \notin RowOf(o)

(* An open transaction of an organization: the references it still passes  *)
(* to requireTenantResource, in order, and how far it is.                  *)
RequestOf(o) ==
  [org : {o}, kind : {"create", "delete"}, unchecked : Seq(Table \X Id),
   row : RowOf(o) \cup {Nil},   \* the row a create inserts
   id : Id \cup {Nil},          \* the row a delete removes
   phase : {"open", "counted", "wrote"}]

Live(i) == i \in Id /\ rows[i] # Nil

(* [mutant] a table without the policy. *)
VisibleToAll(t, i) == Live(i)

(* app.org_visible with app.current_org set to the organization of the     *)
(* transaction and the platform bypass off.                                *)
Visible(t, i) == Live(i) /\ rows[i].org = tx[t].org

Owner(i) == IF Live(i) THEN rows[i].owner ELSE Nil

(* The rows a DELETE of row i removes: the cascade is at most two deep.    *)
Doomed(i) == {j \in Id : Live(j) /\ i \in {j, Owner(j), Owner(Owner(j))}}

Writing(t, kind) ==
  tx[t] # Nil /\ tx[t].kind = kind /\ tx[t].phase = "wrote"

RefersTo(row) == row.links \cup (IF row.owner = Nil THEN {} ELSE {row.owner})

(* Rows another transaction removes, or holds a foreign key share lock on. *)
Removing(t) ==
  UNION {Doomed(tx[u].id) : u \in {v \in Tx \ {t} : Writing(v, "delete")}}
Pinned(t) ==
  UNION {RefersTo(tx[u].row) : u \in {v \in Tx \ {t} : Writing(v, "create")}}

CamerasOf(o) ==
  {i \in Id : Live(i) /\ rows[i].table = "cameras" /\ rows[i].org = o}

----------------------------------------------------------------------------
Init ==
  /\ rows = [i \in Id |-> Nil]
  /\ tx = [t \in Tx |-> Nil]
  /\ cameraLimit \in [Org -> Limit]
  /\ peakLimit = cameraLimit

----------------------------------------------------------------------------
(* withTenant takes a free connection and opens the transaction.           *)
Open(t, request) ==
  /\ tx[t] = Nil
  /\ tx' = [tx EXCEPT ![t] = request]
  /\ UNCHANGED <<rows, cameraLimit, peakLimit>>

(* A creating route names the owner and the links of its row, and passes   *)
(* each of them to requireTenantResource.                                  *)
Ref(table, i) == IF i = Nil THEN <<>> ELSE << <<table, i>> >>

Create(t, o, table, owner, links) ==
  Open(t, [org |-> o, kind |-> "create",
           unchecked |-> Ref(OwnerTable[table], owner) \o links,
           row |-> [org |-> o, table |-> table, owner |-> owner,
                    links |-> {links[k][2] : k \in DOMAIN links}],
           id |-> Nil, phase |-> "open"])

CreateSite(t, o)    == Create(t, o, "sites", Nil, <<>>)
CreateAiModel(t, o) == Create(t, o, "ai_models", Nil, <<>>)
CreateZone(t, o, site)     == Create(t, o, "zones", site, <<>>)
CreateSchedule(t, o, zone) == Create(t, o, "zone_schedules", zone, <<>>)
CreateCamera(t, o, site, zone) ==
  Create(t, o, "cameras", site, Ref("zones", zone))
CreateMonitoredObject(t, o, camera, zone) ==
  Create(t, o, "monitored_objects", camera, Ref("zones", zone))
CreateAiRule(t, o, camera, zone, model) ==
  Create(t, o, "ai_rules", camera, Ref("zones", zone) \o Ref("ai_models", model))

(* A DELETE route checks the row it was asked to remove.                   *)
Delete(t, o, table, i) ==
  Open(t, [org |-> o, kind |-> "delete", unchecked |-> Ref(table, i),
           row |-> Nil, id |-> i, phase |-> "open"])

DeleteSite(t, o, i)     == Delete(t, o, "sites", i)
DeleteAiModel(t, o, i)  == Delete(t, o, "ai_models", i)
DeleteZone(t, o, i)     == Delete(t, o, "zones", i)
DeleteSchedule(t, o, i) == Delete(t, o, "zone_schedules", i)
DeleteCamera(t, o, i)   == Delete(t, o, "cameras", i)
DeleteMonitoredObject(t, o, i) == Delete(t, o, "monitored_objects", i)
DeleteAiRule(t, o, i)   == Delete(t, o, "ai_rules", i)

(* requireTenantResource, one SELECT on one table: no visible row answers  *)
(* 404 and rolls back.                                                     *)
Check(t) ==
  /\ tx[t] # Nil
  /\ tx[t].unchecked # <<>>
  /\ LET ref == Head(tx[t].unchecked) IN
     tx' = [tx EXCEPT ![t] =
              IF Visible(t, ref[2]) /\ rows[ref[2]].table = ref[1]
              THEN [tx[t] EXCEPT !.unchecked = Tail(@)]
              ELSE Nil]
  /\ UNCHANGED <<rows, cameraLimit, peakLimit>>

(* [mutant] the last camera of the plan counts as free. *)
CountCamerasInclusive(t) ==
  /\ tx[t] # Nil
  /\ tx[t].kind = "create" /\ tx[t].row.table = "cameras"
  /\ tx[t].phase = "open" /\ tx[t].unchecked = <<>>
  /\ tx' = [tx EXCEPT ![t] =
              IF Cardinality(CamerasOf(tx[t].org)) > cameraLimit[tx[t].org]
              THEN Nil
              ELSE [@ EXCEPT !.phase = "counted"]]
  /\ UNCHANGED <<rows, cameraLimit, peakLimit>>

(* The camera route reads the limit and the number of committed cameras in *)
(* one statement and answers 403 when the plan is used up.                 *)
CountCameras(t) ==
  /\ tx[t] # Nil
  /\ tx[t].kind = "create" /\ tx[t].row.table = "cameras"
  /\ tx[t].phase = "open" /\ tx[t].unchecked = <<>>
  /\ tx' = [tx EXCEPT ![t] =
              IF Cardinality(CamerasOf(tx[t].org)) >= cameraLimit[tx[t].org]
              THEN Nil
              ELSE [@ EXCEPT !.phase = "counted"]]
  /\ UNCHANGED <<rows, cameraLimit, peakLimit>>

(* INSERT: waits for a transaction that removes a row it refers to; fails  *)
(* on the foreign key when such a row is gone.                             *)
Insert(t) ==
  /\ tx[t] # Nil
  /\ tx[t].kind = "create"
  /\ tx[t].unchecked = <<>>
  /\ tx[t].phase = IF tx[t].row.table = "cameras" THEN "counted" ELSE "open"
  /\ RefersTo(tx[t].row) \cap Removing(t) = {}
  /\ tx' = [tx EXCEPT ![t] =
              IF \A i \in RefersTo(tx[t].row) : Live(i)
              THEN [@ EXCEPT !.phase = "wrote"]
              ELSE Nil]
  /\ UNCHANGED <<rows, cameraLimit, peakLimit>>

(* DELETE: waits for the rows others remove or hold; a row already gone is *)
(* no error.                                                               *)
Remove(t) ==
  /\ tx[t] # Nil
  /\ tx[t].kind = "delete"
  /\ tx[t].unchecked = <<>> /\ tx[t].phase = "open"
  /\ Doomed(tx[t].id) \cap (Removing(t) \cup Pinned(t)) = {}
  /\ tx' = [tx EXCEPT ![t].phase = "wrote"]
  /\ UNCHANGED <<rows, cameraLimit, peakLimit>>

(* COMMIT of a create: the row appears under a fresh key, one that no open *)
(* transaction has heard of.                                               *)
Mentioned(i) ==
  \E t \in Tx : tx[t] # Nil /\
    i \in IF tx[t].kind = "delete" THEN {tx[t].id} ELSE RefersTo(tx[t].row)

CommitCreate(t) ==
  /\ Writing(t, "create")
  /\ \E i \in Id :
       /\ rows[i] = Nil /\ ~Mentioned(i)
       /\ rows' = [rows EXCEPT ![i] = tx[t].row]
  /\ tx' = [tx EXCEPT ![t] = Nil]
  /\ UNCHANGED <<cameraLimit, peakLimit>>

(* [mutant] without ON DELETE SET NULL the links stay. *)
CommitDeleteKeepingLinks(t) ==
  /\ Writing(t, "delete")
  /\ rows' = [i \in Id |-> IF i \in Doomed(tx[t].id) THEN Nil ELSE rows[i]]
  /\ tx' = [tx EXCEPT ![t] = Nil]
  /\ UNCHANGED <<cameraLimit, peakLimit>>

(* COMMIT of a delete: the cascade goes, links to it become NULL.          *)
CommitDelete(t) ==
  /\ Writing(t, "delete")
  /\ rows' = [i \in Id |->
       IF i \in Doomed(tx[t].id) \/ rows[i] = Nil THEN Nil
       ELSE [rows[i] EXCEPT !.links = @ \ Doomed(tx[t].id)]]
  /\ tx' = [tx EXCEPT ![t] = Nil]
  /\ UNCHANGED <<cameraLimit, peakLimit>>

(* Any statement may fail, the audit INSERT and the COMMIT too: ROLLBACK.  *)
Fail(t) ==
  /\ tx[t] # Nil
  /\ tx' = [tx EXCEPT ![t] = Nil]
  /\ UNCHANGED <<rows, cameraLimit, peakLimit>>

(* The plan route: one UPDATE of the subscription, then COMMIT.            *)
ChangePlan(o, limit) ==
  /\ limit # cameraLimit[o]
  /\ cameraLimit' = [cameraLimit EXCEPT ![o] = limit]
  /\ peakLimit' = [peakLimit EXCEPT ![o] = IF @ > limit THEN @ ELSE limit]
  /\ UNCHANGED <<rows, tx>>

(* The keys a request can name are those of rows that exist, of any        *)
(* organization (a key is random and never reused); a key of another table *)
(* is refused like one of another organization and is left out.            *)
Named(table) == {i \in Id : Live(i) /\ rows[i].table = table}
Chosen(table) == Named(table) \cup {Nil}

CreateRow(t, o) ==
  \/ CreateSite(t, o)
  \/ CreateAiModel(t, o)
  \/ \E i \in Named("sites") : CreateZone(t, o, i)
  \/ \E i \in Named("zones") : CreateSchedule(t, o, i)
  \/ \E i \in Named("sites"), z \in Chosen("zones") : CreateCamera(t, o, i, z)
  \/ \E i \in Named("cameras"), z \in Chosen("zones") :
       \/ CreateMonitoredObject(t, o, i, z)
       \/ \E m \in Chosen("ai_models") : CreateAiRule(t, o, i, z, m)

DeleteRow(t, o) ==
  \/ \E i \in Named("sites") : DeleteSite(t, o, i)
  \/ \E i \in Named("ai_models") : DeleteAiModel(t, o, i)
  \/ \E i \in Named("zones") : DeleteZone(t, o, i)
  \/ \E i \in Named("zone_schedules") : DeleteSchedule(t, o, i)
  \/ \E i \in Named("cameras") : DeleteCamera(t, o, i)
  \/ \E i \in Named("monitored_objects") : DeleteMonitoredObject(t, o, i)
  \/ \E i \in Named("ai_rules") : DeleteAiRule(t, o, i)

Next ==
  \/ \E t \in Tx :
       \/ \E o \in Org : CreateRow(t, o) \/ DeleteRow(t, o)
       \/ Check(t) \/ CountCameras(t) \/ Insert(t) \/ Remove(t)
       \/ CommitCreate(t) \/ CommitDelete(t) \/ Fail(t)
  \/ \E o \in Org, limit \in Limit : ChangePlan(o, limit)

Spec == Init /\ [][Next]_vars

----------------------------------------------------------------------------
TypeOK ==
  /\ rows = [i \in Id |-> rows[i]]
  /\ \A i \in Id : rows[i] = Nil \/ \E o \in Org : rows[i] \in RowOf(o)
  /\ tx = [t \in Tx |-> tx[t]]
  /\ \A t \in Tx : tx[t] = Nil \/ \E o \in Org : tx[t] \in RequestOf(o)
  /\ cameraLimit \in [Org -> Limit]
  /\ peakLimit \in [Org -> Limit]

(* Every reference of a committed row points at a committed row of the     *)
(* same organization, in the table the column is about: whatever creates   *)
(* and deletes ran between the check of the reference, the INSERT and the  *)
(* COMMIT.  Foreign keys alone would accept a row of another tenant.       *)
RefersWithin(i) ==
  LET row == rows[i] IN
  /\ OwnerTable[row.table] = Nil <=> row.owner = Nil
  /\ row.owner # Nil =>
       /\ Live(row.owner)
       /\ rows[row.owner].org = row.org
       /\ rows[row.owner].table = OwnerTable[row.table]
  /\ \A j \in row.links :
       /\ Live(j)
       /\ rows[j].org = row.org
       /\ rows[j].table \in LinkTable[row.table]

ReferencesStayInOrg == \A i \in Id : Live(i) => RefersWithin(i)

(* The camera limit is read before the INSERTs of the other connections    *)
(* commit, so it can be exceeded; by no more than the connections but one. *)
OvershootBounded ==
  \A o \in Org :
    Cardinality(CamerasOf(o)) < peakLimit[o] + Cardinality(Tx)

(* "RLS guarantees the cascade cannot reach another tenant": a row changes *)
(* or goes only when a transaction of its own organization commits.  The   *)
(* cascade itself runs without row level security.                         *)
RowsChangeFromWithin ==
  [][\A i \in Id : rows'[i] # rows[i] =>
       \E t \in Tx :
         /\ tx[t] # Nil /\ tx'[t] = Nil
         /\ tx[t].org = IF rows[i] # Nil THEN rows[i].org ELSE rows'[i].org]_vars

(* What the comment at the camera count says it enforces.                  *)
PlanLimitHolds ==
  [][\A o \in Org :
       Cardinality(CamerasOf(o)') > Cardinality(CamerasOf(o)) =>
         Cardinality(CamerasOf(o)') <= cameraLimit[o]]_vars
=============================================================================
