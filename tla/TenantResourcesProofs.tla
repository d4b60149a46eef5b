----------------------- MODULE TenantResourcesProofs -----------------------
(***************************************************************************)
(* What holds of the configuration rows for any number of organizations,   *)
(* keys, connections and plans.  References stay inside the organization   *)
(* although they are checked by a SELECT that locks nothing: what a        *)
(* request has checked can only disappear, because keys are never reused,  *)
(* and from the INSERT on the foreign key keeps it from disappearing.      *)
(***************************************************************************)
EXTENDS TenantResources, FiniteSetTheorems, TLAPS

(* Row i, if it is still there, is of organization o and in one of the     *)
(* tables.                                                                 *)
RefOk(i, tables, o) ==
  Live(i) => rows[i].org = o /\ rows[i].table \in tables

(* Request r has still to check the reference to i, or has done so.        *)
Unchecked(r, tables, i) ==
  \E k \in DOMAIN r.unchecked :
    r.unchecked[k][2] = i /\ r.unchecked[k][1] \in tables
Vetted(r, tables, i) == Unchecked(r, tables, i) \/ RefOk(i, tables, r.org)

CreateOk(r) ==
  /\ r.row \in RowOf(r.org)
  /\ r.row.owner = Nil <=> OwnerTable[r.row.table] = Nil
  /\ r.row.owner # Nil => Vetted(r, {OwnerTable[r.row.table]}, r.row.owner)
  /\ \A j \in r.row.links : Vetted(r, LinkTable[r.row.table], j)
  /\ r.phase # "open" => r.unchecked = <<>>
  /\ r.phase = "wrote" => \A i \in RefersTo(r.row) : Live(i)

DeleteOk(r) ==
  /\ r.id \in Id
  /\ Vetted(r, Table, r.id)
  /\ r.phase # "open" => r.unchecked = <<>>

RequestOk(r) ==
  /\ r.kind = "create" => CreateOk(r)
  /\ r.kind = "delete" => DeleteOk(r)

(* What an open transaction refers to is not removed by another one.       *)
PinsHold ==
  \A t, u \in Tx :
    Writing(t, "create") /\ Writing(u, "delete") =>
      RefersTo(tx[t].row) \cap Doomed(tx[u].id) = {}

IInv ==
  /\ TypeOK
  /\ ReferencesStayInOrg
  /\ \A t \in Tx : tx[t] # Nil => RequestOk(tx[t])
  /\ PinsHold

Request == UNION {RequestOf(o) : o \in Org}

-----------------------------------------------------------------------------
(* The owner chains of the schema are at most two long.                    *)
LEMMA OwnersAreShallow ==
  ASSUME NEW table \in Table, OwnerTable[table] # Nil,
         OwnerTable[OwnerTable[table]] # Nil
  PROVE  OwnerTable[OwnerTable[OwnerTable[table]]] = Nil
  BY DEF OwnerTable, Table

LEMMA RequestFields ==
  ASSUME NEW r \in Request
  PROVE  /\ r.org \in Org
         /\ r.kind \in {"create", "delete"}
         /\ r.unchecked \in Seq(Table \X Id)
         /\ r.row = Nil \/ r.row \in RowOf(r.org)
         /\ r.id \in Id \cup {Nil}
         /\ r.phase \in {"open", "counted", "wrote"}
  BY DEF Request, RequestOf

LEMMA RowFields ==
  ASSUME NEW o, NEW row \in RowOf(o)
  PROVE  /\ row.org = o
         /\ row.table \in Table
         /\ row.owner \in Id \cup {Nil}
         /\ row.links \subseteq Id
         /\ RefersTo(row) \subseteq Id
  BY DEF RowOf, RefersTo

(* An open transaction is a request.                                       *)
LEMMA OpenIsRequest ==
  ASSUME TypeOK, NEW t \in Tx, tx[t] # Nil
  PROVE  tx[t] \in Request
  BY DEF TypeOK, Request

LEMMA LiveRow ==
  ASSUME TypeOK, NEW i, Live(i)
  PROVE  i \in Id /\ rows[i].org \in Org /\ rows[i] \in RowOf(rows[i].org)
  BY DEF TypeOK, Live, RowOf

(* A step of one transaction that commits nothing.                         *)
LEMMA Uncommitted ==
  ASSUME IInv, UNCHANGED rows, NEW t \in Tx, NEW new,
         tx' = [tx EXCEPT ![t] = new],
         cameraLimit' \in [Org -> Limit], peakLimit' \in [Org -> Limit],
         new # Nil => new \in Request /\ RequestOk(new),
         new # Nil /\ new.kind = "create" /\ new.phase = "wrote" =>
           RefersTo(new.row) \cap Removing(t) = {},
         new # Nil /\ new.kind = "delete" /\ new.phase = "wrote" =>
           Doomed(new.id) \cap Pinned(t) = {}
  PROVE  IInv'
<1>1. \A u \in Tx : tx'[u] = IF u = t THEN new ELSE tx[u]
  BY DEF IInv, TypeOK
<1>2. TypeOK'
  <2>1. tx' = [u \in Tx |-> tx'[u]]
    BY DEF IInv, TypeOK
  <2>2. \A u \in Tx : tx'[u] = Nil \/ \E o \in Org : tx'[u] \in RequestOf(o)
    BY <1>1 DEF IInv, TypeOK, Request
  <2> QED
    BY <2>1, <2>2 DEF IInv, TypeOK
<1>3. ReferencesStayInOrg'
  BY DEF IInv, ReferencesStayInOrg, RefersWithin, Live
<1>4. \A u \in Tx : tx'[u] # Nil => RequestOk(tx[u])' 
  <2> SUFFICES ASSUME NEW u \in Tx, tx'[u] # Nil PROVE RequestOk(tx[u])'
    OBVIOUS
  <2>1. RequestOk(tx'[u])
    BY <1>1 DEF IInv
  <2> QED
    BY <2>1 DEF RequestOk, CreateOk, DeleteOk, Vetted, RefOk, Live, Unchecked
<1>5. PinsHold'
  <2> SUFFICES ASSUME NEW u \in Tx, NEW v \in Tx,
                      Writing(u, "create")', Writing(v, "delete")'
               PROVE  RefersTo(tx'[u].row) \cap Doomed(tx[v].id)' = {}
    BY DEF PinsHold
  <2>1. Doomed(tx[v].id)' = Doomed(tx'[v].id)
    BY DEF Doomed, Live, Owner
  <2>2. u # v /\ tx'[u] # Nil /\ tx'[v] # Nil
    BY DEF Writing
  <2>3. CASE u # t /\ v # t
    <3>1. tx'[u] = tx[u] /\ tx'[v] = tx[v]
      BY <1>1, <2>3
    <3>2. Writing(u, "create") /\ Writing(v, "delete")
      BY <2>2, <3>1 DEF Writing
    <3>. QED  BY <2>1, <3>1, <3>2 DEF IInv, PinsHold
  <2>4. CASE u = t
    <3>1. v \in {w \in Tx \ {t} : Writing(w, "delete")} /\ tx'[v] = tx[v]
      BY <1>1, <2>2, <2>4 DEF Writing
    <3>2. Doomed(tx[v].id) \subseteq Removing(t)
      BY <3>1 DEF Removing
    <3>3. RefersTo(new.row) \cap Removing(t) = {}
      BY <1>1, <2>4 DEF Writing
    <3> QED
      BY <1>1, <2>1, <2>4, <3>1, <3>2, <3>3
  <2>5. CASE v = t
    <3>1. u \in {w \in Tx \ {t} : Writing(w, "create")} /\ tx'[u] = tx[u]
      BY <1>1, <2>2, <2>5 DEF Writing
    <3>2. RefersTo(tx[u].row) \subseteq Pinned(t)
      BY <3>1 DEF Pinned
    <3>3. Doomed(new.id) \cap Pinned(t) = {}
      BY <1>1, <2>5 DEF Writing
    <3> QED
      BY <1>1, <2>1, <2>5, <3>1, <3>2, <3>3
  <2> QED
    BY <2>3, <2>4, <2>5
<1> QED
  BY <1>2, <1>3, <1>4, <1>5 DEF IInv

(* Opening a transaction. *)
LEMMA OpenStep ==
  ASSUME IInv, NEW t \in Tx, NEW request \in Request, Open(t, request),
         request.phase = "open", RequestOk(request)
  PROVE  IInv'
  BY Uncommitted DEF Open, IInv, TypeOK

LEMMA CreateStep ==
  ASSUME IInv, NEW t \in Tx, NEW o \in Org, NEW table \in Table,
         NEW owner \in Id \cup {Nil}, NEW links \in Seq(Table \X Id),
         owner = Nil <=> OwnerTable[table] = Nil,
         owner # Nil => OwnerTable[table] \in Table,
         \A k \in DOMAIN links : links[k][1] \in LinkTable[table],
         Create(t, o, table, owner, links)
  PROVE  IInv'
<1> DEFINE ref == Ref(OwnerTable[table], owner)
           row == [org |-> o, table |-> table, owner |-> owner,
                   links |-> {links[k][2] : k \in DOMAIN links}]
           request == [org |-> o, kind |-> "create", unchecked |-> ref \o links,
                       row |-> row, id |-> Nil, phase |-> "open"]
<1>1. ref \in Seq(Table \X Id)
  BY DEF Ref
<1>2. row \in RowOf(o)
  BY DEF RowOf
<1>3. request \in Request
  <2>1. ref \o links \in Seq(Table \X Id)
    BY <1>1
  <2> HIDE DEF ref, row
  <2>2. request \in RequestOf(o)
    BY <1>2, <2>1 DEF RequestOf
  <2> QED
    BY <2>2 DEF Request
<1>4. RequestOk(request)
  <2> DEFINE both == ref \o links
  <2>1. request.unchecked = both /\ request.row = row /\ request.org = o
        /\ request.kind = "create" /\ request.phase = "open"
    OBVIOUS
  <2>2. row.owner = owner /\ row.table = table
        /\ row.links = {links[k][2] : k \in DOMAIN links}
    OBVIOUS
  <2>3. owner # Nil => /\ 1 \in DOMAIN both
                       /\ both[1] = <<OwnerTable[table], owner>>
    BY DEF Ref
  <2>4. \A k \in DOMAIN links : /\ Len(ref) + k \in DOMAIN both
                                /\ both[Len(ref) + k] = links[k]
    BY <1>1
  <2>5. owner # Nil => Unchecked(request, {OwnerTable[table]}, owner)
    BY <2>1, <2>3 DEF Unchecked
  <2>6. \A j \in row.links : Unchecked(request, LinkTable[table], j)
    <3> SUFFICES ASSUME NEW j \in row.links
                 PROVE  Unchecked(request, LinkTable[table], j)
      OBVIOUS
    <3>1. PICK k \in DOMAIN links : j = links[k][2]
      BY <2>2
    <3>2. links[k][1] \in LinkTable[table]
      OBVIOUS
    <3> HIDE DEF row, request, both
    <3> QED
      BY <2>1, <2>4, <3>1, <3>2 DEF Unchecked
  <2> HIDE DEF row, request
  <2> QED
    BY <1>2, <2>1, <2>2, <2>5, <2>6 DEF RequestOk, CreateOk, Vetted
<1>5. Open(t, request) /\ request.phase = "open"
  BY DEF Create
<1> QED
  BY <1>3, <1>4, <1>5, OpenStep

LEMMA DeleteStep ==
  ASSUME IInv, NEW t \in Tx, NEW o \in Org, NEW table \in Table, NEW i \in Id,
         Delete(t, o, table, i)
  PROVE  IInv'
<1> DEFINE request == [org |-> o, kind |-> "delete", unchecked |-> Ref(table, i),
                       row |-> Nil, id |-> i, phase |-> "open"]
<1>1. Ref(table, i) = << <<table, i>> >>
  BY IdsAssumption DEF Ref
<1>2. request \in Request
  BY <1>1 DEF Request, RequestOf
<1>3. RequestOk(request)
  <2>1. 1 \in DOMAIN request.unchecked /\ request.unchecked[1] = <<table, i>>
    BY <1>1
  <2>2. Unchecked(request, Table, i)
    BY <2>1 DEF Unchecked
  <2> QED
    BY <2>2 DEF RequestOk, DeleteOk, Vetted
<1>4. Open(t, request) /\ request.phase = "open"
  BY DEF Delete
<1> QED
  BY <1>2, <1>3, <1>4, OpenStep

LEMMA CreateRowStep ==
  ASSUME IInv, NEW t \in Tx, NEW o \in Org, CreateRow(t, o)
  PROVE  IInv'
<1>1. \A table : Named(table) \subseteq Id /\ Nil \notin Named(table)
                 /\ Chosen(table) \subseteq Id \cup {Nil}
  BY IdsAssumption DEF Named, Chosen
<1>2. <<>> \in Seq(Table \X Id)
  OBVIOUS
<1>3. \A table \in Table, i \in Id \cup {Nil} :
        /\ Ref(table, i) \in Seq(Table \X Id)
        /\ \A k \in DOMAIN Ref(table, i) : Ref(table, i)[k][1] = table
  <2> SUFFICES ASSUME NEW table \in Table, NEW i \in Id \cup {Nil}
               PROVE  /\ Ref(table, i) \in Seq(Table \X Id)
                      /\ \A k \in DOMAIN Ref(table, i) : Ref(table, i)[k][1] = table
    OBVIOUS
  <2>1. CASE i = Nil
    BY <2>1 DEF Ref
  <2>2. CASE i # Nil
    <3>1. Ref(table, i) = << <<table, i>> >> /\ i \in Id
      BY <2>2 DEF Ref
    <3> QED
      BY <3>1
  <2> QED
    BY <2>1, <2>2
<1> DEFINE Fits(table, owner, links) ==
      /\ table \in Table /\ owner \in Id \cup {Nil}
      /\ links \in Seq(Table \X Id)
      /\ owner = Nil <=> OwnerTable[table] = Nil
      /\ owner # Nil => OwnerTable[table] \in Table
      /\ \A k \in DOMAIN links : links[k][1] \in LinkTable[table]
<1>0. \A table, owner, links :
        Fits(table, owner, links) /\ Create(t, o, table, owner, links) => IInv'
  BY CreateStep
<1>a. /\ {"sites", "zones", "cameras", "ai_rules", "ai_models", "zone_schedules",
          "monitored_objects"} \subseteq Table
      /\ OwnerTable["sites"] = Nil /\ OwnerTable["ai_models"] = Nil
      /\ OwnerTable["zones"] = "sites" /\ OwnerTable["cameras"] = "sites"
      /\ OwnerTable["zone_schedules"] = "zones"
      /\ OwnerTable["ai_rules"] = "cameras"
      /\ OwnerTable["monitored_objects"] = "cameras"
      /\ "zones" \in LinkTable["cameras"]
      /\ "zones" \in LinkTable["monitored_objects"]
      /\ LinkTable["ai_rules"] = {"zones", "ai_models"}
  BY DEF Table, OwnerTable, LinkTable
<1>b. Nil \notin {"sites", "zones", "cameras"}
  BY <1>a, NilAssumption
<1>4. CASE CreateSite(t, o) \/ CreateAiModel(t, o)
  <2>1. Fits("sites", Nil, <<>>) /\ Fits("ai_models", Nil, <<>>)
    BY <1>2, <1>a
  <2> HIDE DEF Fits
  <2> QED
    BY <1>0, <1>4, <2>1 DEF CreateSite, CreateAiModel
<1>5. CASE \E i \in Named("sites") : CreateZone(t, o, i)
  <2>1. PICK i \in Named("sites") : CreateZone(t, o, i)
    BY <1>5
  <2> QED
    <3>1. Fits("zones", i, <<>>)
      BY <1>1, <1>2, <1>a, <1>b
    <3> HIDE DEF Fits
    <3> QED
      BY <1>0, <2>1, <3>1 DEF CreateZone
<1>6. CASE \E i \in Named("zones") : CreateSchedule(t, o, i)
  <2>1. PICK i \in Named("zones") : CreateSchedule(t, o, i)
    BY <1>6
  <2> QED
    <3>1. Fits("zone_schedules", i, <<>>)
      BY <1>1, <1>2, <1>a, <1>b
    <3> HIDE DEF Fits
    <3> QED
      BY <1>0, <2>1, <3>1 DEF CreateSchedule
<1>7. CASE \E i \in Named("sites"), z \in Chosen("zones") : CreateCamera(t, o, i, z)
  <2>1. PICK i \in Named("sites"), z \in Chosen("zones") : CreateCamera(t, o, i, z)
    BY <1>7
  <2> QED
    <3>1. Fits("cameras", i, Ref("zones", z))
      <4>1. /\ Ref("zones", z) \in Seq(Table \X Id)
            /\ \A k \in DOMAIN Ref("zones", z) : Ref("zones", z)[k][1] = "zones"
        <5>1. z \in Id \cup {Nil}
          BY <1>1
        <5>2. "zones" \in Table
          BY <1>a
        <5> QED
          BY <1>3, <5>1, <5>2
      <4>2. i \in Id /\ i # Nil
        BY <1>1
      <4> QED
        BY <1>a, <1>b, <4>1, <4>2
    <3> HIDE DEF Fits
    <3> QED
      BY <1>0, <2>1, <3>1 DEF CreateCamera
<1>8. CASE \E i \in Named("cameras"), z \in Chosen("zones") :
             CreateMonitoredObject(t, o, i, z)
  <2>1. PICK i \in Named("cameras"), z \in Chosen("zones") :
               CreateMonitoredObject(t, o, i, z)
    BY <1>8
  <2> QED
    <3>1. Fits("monitored_objects", i, Ref("zones", z))
      <4>1. /\ Ref("zones", z) \in Seq(Table \X Id)
            /\ \A k \in DOMAIN Ref("zones", z) : Ref("zones", z)[k][1] = "zones"
        <5>1. z \in Id \cup {Nil}
          BY <1>1
        <5>2. "zones" \in Table
          BY <1>a
        <5> QED
          BY <1>3, <5>1, <5>2
      <4>2. i \in Id /\ i # Nil
        BY <1>1
      <4> QED
        BY <1>a, <1>b, <4>1, <4>2
    <3> HIDE DEF Fits
    <3> QED
      BY <1>0, <2>1, <3>1 DEF CreateMonitoredObject
<1>9. CASE \E i \in Named("cameras"), z \in Chosen("zones"), n \in Chosen("ai_models") :
             CreateAiRule(t, o, i, z, n)
  <2>1. PICK i \in Named("cameras"), z \in Chosen("zones"), n \in Chosen("ai_models") :
               CreateAiRule(t, o, i, z, n)
    BY <1>9
  <2> DEFINE zs == Ref("zones", z)
             ms == Ref("ai_models", n)
             links == zs \o ms
  <2>2. "zones" \in Table /\ "ai_models" \in Table /\ "ai_rules" \in Table
    BY DEF Table
  <2>3. zs \in Seq(Table \X Id) /\ ms \in Seq(Table \X Id)
    BY <1>1, <1>3, <2>2
  <2>4. links \in Seq(Table \X Id)
    BY <2>3
  <2>5. \A k \in DOMAIN links : links[k] \in {zs[l] : l \in DOMAIN zs}
                                         \cup {ms[l] : l \in DOMAIN ms}
    BY <2>3
  <2>6. \A k \in DOMAIN links : links[k][1] \in {"zones", "ai_models"}
    <3>1. /\ \A l \in DOMAIN zs : zs[l][1] = "zones"
          /\ \A l \in DOMAIN ms : ms[l][1] = "ai_models"
      BY <1>1, <1>3, <2>2
    <3> HIDE DEF links, zs, ms
    <3> QED
      BY <2>5, <3>1
  <2>7. Create(t, o, "ai_rules", i, links)
    BY <2>1 DEF CreateAiRule
  <2>8. i \in Id /\ i # Nil
    BY <1>1
  <2> HIDE DEF links
  <2>9. Fits("ai_rules", i, links)
    BY <1>a, <1>b, <2>4, <2>6, <2>8
  <2> HIDE DEF Fits
  <2> QED
    BY <1>0, <2>7, <2>9
<1> QED
  BY <1>4, <1>5, <1>6, <1>7, <1>8, <1>9 DEF CreateRow

LEMMA DeleteRowStep ==
  ASSUME IInv, NEW t \in Tx, NEW o \in Org, DeleteRow(t, o)
  PROVE  IInv'
<1>1. \E table \in Table, i \in Id : Delete(t, o, table, i)
  BY DEF DeleteRow, Named, Table, DeleteSite, DeleteAiModel, DeleteZone,
         DeleteSchedule, DeleteCamera, DeleteMonitoredObject, DeleteAiRule
<1> QED
  BY <1>1, DeleteStep

-----------------------------------------------------------------------------
(* The statements of a transaction. *)

(* The next reference is the one that was looked up, the others are later. *)
LEMMA CheckStep ==
  ASSUME IInv, NEW t \in Tx, Check(t)
  PROVE  IInv'
<1> DEFINE r == tx[t]
           ref == Head(r.unchecked)
           passed == Visible(t, ref[2]) /\ rows[ref[2]].table = ref[1]
           new == IF passed THEN [r EXCEPT !.unchecked = Tail(@)] ELSE Nil
<1>1. r \in Request /\ r # Nil /\ RequestOk(r) /\ r.unchecked # <<>>
  BY OpenIsRequest DEF Check, IInv
<1>2. PICK o \in Org : r \in RequestOf(o)
  BY <1>1 DEF Request
<1>3. Tail(r.unchecked) \in Seq(Table \X Id) /\ ref = r.unchecked[1]
  BY <1>1, RequestFields
<1>4. CASE passed
  <2>1. new = [r EXCEPT !.unchecked = Tail(@)]
    BY <1>4
  <2>2. new \in RequestOf(o)
    BY <1>2, <1>3, <2>1 DEF RequestOf
  <2>3. new \in Request
    BY <2>2 DEF Request
  <2>4. /\ new.kind = r.kind /\ new.org = r.org /\ new.row = r.row
        /\ new.id = r.id /\ new.phase = r.phase /\ new.unchecked = Tail(r.unchecked)
    BY <1>2, <2>1 DEF RequestOf
  <2>5. ASSUME NEW tables, NEW i, Vetted(r, tables, i) PROVE Vetted(new, tables, i)
    <3>1. CASE RefOk(i, tables, r.org)
      BY <2>4, <3>1 DEF Vetted
    <3>2. CASE Unchecked(r, tables, i)
      <4>1. PICK k \in DOMAIN r.unchecked :
              r.unchecked[k][2] = i /\ r.unchecked[k][1] \in tables
        BY <3>2 DEF Unchecked
      <4>2. CASE k = 1
        <5>1. ref[2] = i /\ ref[1] \in tables
          BY <1>3, <4>1, <4>2
        <5>2. Visible(t, i) /\ rows[i].table \in tables
          BY <1>4, <5>1
        <5> QED
          BY <2>4, <5>2 DEF Visible, Vetted, RefOk
      <4>3. CASE k # 1
        <5>1. /\ k - 1 \in DOMAIN Tail(r.unchecked)
              /\ Tail(r.unchecked)[k - 1] = r.unchecked[k]
          BY <1>1, <4>1, <4>3, RequestFields
        <5> QED
          BY <2>4, <4>1, <5>1 DEF Vetted, Unchecked
      <4> QED
        BY <4>2, <4>3
    <3> QED
      BY <2>5, <3>1, <3>2 DEF Vetted
  <2>6. r.phase = "open"
    BY <1>1, RequestFields DEF RequestOk, CreateOk, DeleteOk
  <2>7. tx' = [tx EXCEPT ![t] = new]
    <3>1. \A u \in Tx : tx'[u] = IF u = t THEN new ELSE tx[u]
      <4>1. tx' = [tx EXCEPT ![t] = [tx[t] EXCEPT !.unchecked = Tail(@)]]
        BY <1>4 DEF Check
      <4> QED
        BY <2>1, <4>1 DEF IInv, TypeOK
    <3>2. tx' = [u \in Tx |-> tx'[u]] /\ DOMAIN tx = Tx
      BY DEF Check, IInv, TypeOK
    <3> HIDE DEF new, r
    <3> QED
      BY <3>1, <3>2
  <2> HIDE DEF new, r
  <2>8. RequestOk(new) /\ UNCHANGED <<rows, cameraLimit, peakLimit>>
    BY <1>1, <2>4, <2>5, <2>6 DEF RequestOk, CreateOk, DeleteOk, Check
  <2> QED
    BY <2>3, <2>4, <2>6, <2>7, <2>8, Uncommitted DEF IInv, TypeOK
<1>5. CASE ~passed
  <2>1. tx' = [tx EXCEPT ![t] = Nil] /\ UNCHANGED <<rows, cameraLimit, peakLimit>>
    BY <1>5 DEF Check
  <2> QED
    BY <2>1, Uncommitted DEF IInv, TypeOK
<1> QED
  BY <1>4, <1>5

(* A transaction that proceeds to another phase, or ends.                  *)
LEMMA PhaseStep ==
  ASSUME IInv, NEW t \in Tx, tx[t] # Nil, tx[t].unchecked = <<>>,
         NEW phase \in {"counted", "wrote"},
         tx' = [tx EXCEPT ![t] = [@ EXCEPT !.phase = phase]],
         UNCHANGED <<rows, cameraLimit, peakLimit>>,
         tx[t].kind = "create" /\ phase = "wrote" =>
           /\ RefersTo(tx[t].row) \cap Removing(t) = {}
           /\ \A i \in RefersTo(tx[t].row) : Live(i),
         tx[t].kind = "delete" /\ phase = "wrote" =>
           Doomed(tx[t].id) \cap Pinned(t) = {}
  PROVE  IInv'
<1> DEFINE r == tx[t]
           new == [r EXCEPT !.phase = phase]
<1>1. r \in Request /\ RequestOk(r)
  BY OpenIsRequest DEF IInv
<1>2. PICK o \in Org : r \in RequestOf(o)
  BY <1>1 DEF Request
<1>3. new \in RequestOf(o)
  BY <1>2 DEF RequestOf
<1>4. new \in Request
  BY <1>3 DEF Request
<1>5. /\ new.kind = r.kind /\ new.org = r.org /\ new.row = r.row
      /\ new.id = r.id /\ new.phase = phase /\ new.unchecked = r.unchecked
  BY <1>2 DEF RequestOf
<1>6. tx' = [tx EXCEPT ![t] = new]
  BY DEF IInv, TypeOK
<1> HIDE DEF new
<1>7. RequestOk(new)
  BY <1>1, <1>5 DEF RequestOk, CreateOk, DeleteOk, Vetted, Unchecked
<1>8. cameraLimit' \in [Org -> Limit] /\ peakLimit' \in [Org -> Limit]
  BY DEF IInv, TypeOK
<1>9. /\ new.kind = "create" /\ new.phase = "wrote" =>
           RefersTo(new.row) \cap Removing(t) = {}
      /\ new.kind = "delete" /\ new.phase = "wrote" =>
           Doomed(new.id) \cap Pinned(t) = {}
  BY <1>5
<1> QED
  BY <1>4, <1>6, <1>7, <1>8, <1>9, Uncommitted

LEMMA EndStep ==
  ASSUME IInv, NEW t \in Tx, tx' = [tx EXCEPT ![t] = Nil],
         UNCHANGED <<rows, cameraLimit, peakLimit>>
  PROVE  IInv'
  BY Uncommitted DEF IInv, TypeOK

LEMMA CountStep ==
  ASSUME IInv, NEW t \in Tx, CountCameras(t)
  PROVE  IInv'
<1>1. CASE Cardinality(CamerasOf(tx[t].org)) >= cameraLimit[tx[t].org]
  BY <1>1, EndStep DEF CountCameras
<1>2. CASE ~(Cardinality(CamerasOf(tx[t].org)) >= cameraLimit[tx[t].org])
  <2>1. tx' = [tx EXCEPT ![t] = [@ EXCEPT !.phase = "counted"]]
    BY <1>2 DEF CountCameras
  <2> QED
    BY <2>1, PhaseStep DEF CountCameras
<1> QED
  BY <1>1, <1>2

LEMMA InsertStep ==
  ASSUME IInv, NEW t \in Tx, Insert(t)
  PROVE  IInv'
<1>1. CASE \A i \in RefersTo(tx[t].row) : Live(i)
  <2>1. tx' = [tx EXCEPT ![t] = [@ EXCEPT !.phase = "wrote"]]
    BY <1>1 DEF Insert
  <2> QED
    BY <1>1, <2>1, PhaseStep DEF Insert
<1>2. CASE ~(\A i \in RefersTo(tx[t].row) : Live(i))
  BY <1>2, EndStep DEF Insert
<1> QED
  BY <1>1, <1>2

LEMMA RemoveStep ==
  ASSUME IInv, NEW t \in Tx, Remove(t)
  PROVE  IInv'
<1>1. tx' = [tx EXCEPT ![t] = [@ EXCEPT !.phase = "wrote"]]
  BY DEF Remove, IInv, TypeOK
<1> QED
  BY <1>1, PhaseStep DEF Remove

(* A step that touches nothing but the plans. *)
LEMMA LimitsStep ==
  ASSUME IInv, UNCHANGED <<rows, tx>>,
         cameraLimit' \in [Org -> Limit], peakLimit' \in [Org -> Limit]
  PROVE  IInv'
<1>1. TypeOK'
  BY DEF IInv, TypeOK
<1>2. ReferencesStayInOrg'
  BY DEF IInv, ReferencesStayInOrg, RefersWithin, Live
<1>3. \A i : Live(i)' = Live(i)
  BY DEF Live
<1>4. ASSUME NEW t \in Tx, tx[t] # Nil
      PROVE  RequestOk(tx[t])'
  <2>1. RequestOk(tx[t]) /\ tx'[t] = tx[t]
    BY <1>4 DEF IInv
  <2>2. \A r, tables, i : Vetted(r, tables, i)' = Vetted(r, tables, i)
    BY <1>3 DEF Vetted, Unchecked, RefOk
  <2> QED
    BY <1>3, <2>1, <2>2 DEF RequestOk, CreateOk, DeleteOk
<1>5. PinsHold'
  <2>1. \A i : Doomed(i)' = Doomed(i)
    BY <1>3 DEF Doomed, Owner
  <2> QED
    BY <2>1 DEF IInv, PinsHold, Writing
<1> QED
  BY <1>1, <1>2, <1>4, <1>5 DEF IInv

LEMMA ChangePlanStep ==
  ASSUME IInv, NEW o \in Org, NEW limit \in Limit, ChangePlan(o, limit)
  PROVE  IInv'
<1>1. cameraLimit' \in [Org -> Limit] /\ peakLimit' \in [Org -> Limit]
  BY DEF ChangePlan, IInv, TypeOK
<1> QED
  BY <1>1, LimitsStep DEF ChangePlan

-----------------------------------------------------------------------------
(* The commits. *)

LEMMA Referred ==
  ASSUME IInv, NEW i, Live(i)
  PROVE  /\ i \in Id /\ rows[i] \in RowOf(rows[i].org)
         /\ RefersTo(rows[i]) \subseteq Id
         /\ \A j \in RefersTo(rows[i]) : Live(j) /\ rows[j].org = rows[i].org
         /\ Owner(i) = rows[i].owner
<1>1. i \in Id /\ rows[i] \in RowOf(rows[i].org)
  BY LiveRow DEF IInv
<1>2. RefersTo(rows[i]) \subseteq Id
  BY <1>1, RowFields
<1>3. RefersWithin(i)
  BY <1>1 DEF IInv, ReferencesStayInOrg
<1> QED
  BY <1>1, <1>2, <1>3 DEF RefersWithin, RefersTo, Owner

(* A create that has inserted: its references are there and fit.           *)
LEMMA Inserted ==
  ASSUME IInv, NEW t \in Tx, Writing(t, "create")
  PROVE  LET row == tx[t].row IN
         /\ tx[t].org \in Org /\ row \in RowOf(tx[t].org) /\ row # Nil
         /\ RefersTo(row) \subseteq Id
         /\ row.owner = Nil <=> OwnerTable[row.table] = Nil
         /\ row.owner # Nil => /\ Live(row.owner)
                               /\ rows[row.owner].org = row.org
                               /\ rows[row.owner].table = OwnerTable[row.table]
         /\ \A j \in row.links : /\ Live(j)
                                 /\ rows[j].org = row.org
                                 /\ rows[j].table \in LinkTable[row.table]
<1> DEFINE r == tx[t]
           row == r.row
<1>1. r \in Request /\ r.kind = "create" /\ r.phase = "wrote" /\ RequestOk(r)
  BY OpenIsRequest DEF Writing, IInv
<1> HIDE DEF r
<1>2. CreateOk(r) /\ r.org \in Org /\ r.unchecked = <<>>
  BY <1>1, RequestFields DEF RequestOk, CreateOk
<1>3. \A tables, i : ~Unchecked(r, tables, i)
  BY <1>2 DEF Unchecked
<1>4. row \in RowOf(r.org) /\ row.org = r.org /\ RefersTo(row) \subseteq Id
  BY <1>2, RowFields DEF CreateOk
<1>5. \A i \in RefersTo(row) : Live(i)
  BY <1>1, <1>2 DEF CreateOk
<1>6. row.owner # Nil => RefOk(row.owner, {OwnerTable[row.table]}, r.org)
  BY <1>2, <1>3 DEF CreateOk, Vetted
<1>7. \A j \in row.links : RefOk(j, LinkTable[row.table], r.org)
  BY <1>2, <1>3 DEF CreateOk, Vetted
<1>8. row # Nil
  BY <1>2, <1>4, NilAssumption
<1>9. row.links \subseteq RefersTo(row)
      /\ (row.owner # Nil => row.owner \in RefersTo(row))
  BY DEF RefersTo
<1>10. row.owner = Nil <=> OwnerTable[row.table] = Nil
  BY <1>2 DEF CreateOk
<1> QED
  BY <1>2, <1>4, <1>5, <1>6, <1>7, <1>8, <1>9, <1>10 DEF RefOk, r

LEMMA CommitCreateStep ==
  ASSUME IInv, NEW t \in Tx, CommitCreate(t)
  PROVE  IInv'
<1> DEFINE row == tx[t].row
<1>1. PICK i \in Id : /\ rows[i] = Nil /\ ~Mentioned(i)
                      /\ rows' = [rows EXCEPT ![i] = row]
  BY DEF CommitCreate
<1>2. Writing(t, "create") /\ tx' = [tx EXCEPT ![t] = Nil]
      /\ UNCHANGED <<cameraLimit, peakLimit>>
  BY DEF CommitCreate
<1>3. \A x \in Id : rows'[x] = IF x = i THEN row ELSE rows[x]
  BY <1>1 DEF IInv, TypeOK
<1>4. \A u \in Tx : tx'[u] = IF u = t THEN Nil ELSE tx[u]
  BY <1>2 DEF IInv, TypeOK
<1>5. /\ tx[t].org \in Org /\ row \in RowOf(tx[t].org) /\ row # Nil
      /\ row.org = tx[t].org /\ RefersTo(row) \subseteq Id
  BY <1>2, Inserted, RowFields
<1>6. ~Live(i)
  BY <1>1 DEF Live
<1>7. \A x : Live(x) => x # i /\ Live(x)' /\ rows'[x] = rows[x]
  BY <1>3, <1>6 DEF Live
<1>8. \A x : Live(x)' => x = i \/ Live(x)
  BY <1>3 DEF Live
<1>9. TypeOK'
  <2>1. rows' = [x \in Id |-> rows'[x]] /\ tx' = [u \in Tx |-> tx'[u]]
    BY <1>1, <1>2 DEF IInv, TypeOK
  <2>2. \A x \in Id : rows'[x] = Nil \/ \E o \in Org : rows'[x] \in RowOf(o)
    BY <1>3, <1>5 DEF IInv, TypeOK
  <2>3. \A u \in Tx : tx'[u] = Nil \/ \E o \in Org : tx'[u] \in RequestOf(o)
    BY <1>4 DEF IInv, TypeOK
  <2> QED
    BY <1>2, <2>1, <2>2, <2>3 DEF IInv, TypeOK
<1>10. ReferencesStayInOrg'
  <2> SUFFICES ASSUME NEW x \in Id, Live(x)' PROVE RefersWithin(x)'
    BY DEF ReferencesStayInOrg
  <2>1. CASE x = i
    <3>1. rows'[x] = row
      BY <1>3, <2>1
    <3> QED
      BY <1>2, <1>7, <3>1, Inserted DEF RefersWithin
  <2>2. CASE x # i
    <3>1. Live(x) /\ rows'[x] = rows[x]
      BY <1>7, <1>8, <2>2
    <3>2. RefersWithin(x)
      BY <3>1 DEF IInv, ReferencesStayInOrg
    <3> QED
      BY <1>7, <3>1, <3>2 DEF RefersWithin
  <2> QED
    BY <2>1, <2>2
<1>11. \A u \in Tx \ {t} : tx[u] # Nil =>
         i \notin IF tx[u].kind = "delete" THEN {tx[u].id} ELSE RefersTo(tx[u].row)
  BY <1>1 DEF Mentioned
<1>12. ASSUME NEW u \in Tx, tx'[u] # Nil PROVE RequestOk(tx[u])'
  <2>1. u # t /\ tx'[u] = tx[u] /\ tx[u] # Nil
    BY <1>4, <1>12
  <2> DEFINE r == tx[u]
  <2>2. RequestOk(r) /\ r \in Request
    BY <2>1, OpenIsRequest DEF IInv
  <2>3. r' = r
    BY <2>1
  <2>4. i \notin IF r.kind = "delete" THEN {r.id} ELSE RefersTo(r.row)
    BY <1>11, <2>1
  <2> HIDE DEF r
  <2>5. ASSUME NEW x, NEW tables, x # i, Vetted(r, tables, x)
        PROVE  Vetted(r, tables, x)'
    BY <1>7, <1>8, <2>3, <2>5 DEF Vetted, Unchecked, RefOk
  <2>6. r.kind = "create" => CreateOk(r)'
    <3> SUFFICES ASSUME r.kind = "create" PROVE CreateOk(r)'
      OBVIOUS
    <3>1. CreateOk(r) /\ i \notin RefersTo(r.row)
      BY <2>2, <2>4 DEF RequestOk
    <3>2. r.row.owner # Nil => Vetted(r, {OwnerTable[r.row.table]}, r.row.owner)'
      BY <2>3, <2>5, <3>1 DEF CreateOk, RefersTo
    <3>3. \A j \in r.row.links : Vetted(r, LinkTable[r.row.table], j)'
      BY <2>3, <2>5, <3>1 DEF CreateOk, RefersTo
    <3> QED
      BY <1>7, <2>3, <3>1, <3>2, <3>3 DEF CreateOk
  <2>7. r.kind = "delete" => DeleteOk(r)'
    BY <2>2, <2>3, <2>4, <2>5 DEF RequestOk, DeleteOk
  <2> QED
    BY <2>3, <2>6, <2>7 DEF RequestOk, r
<1>13. PinsHold'
  <2> SUFFICES ASSUME NEW u \in Tx, NEW v \in Tx,
                      Writing(u, "create")', Writing(v, "delete")'
               PROVE  RefersTo(tx'[u].row) \cap Doomed(tx[v].id)' = {}
    BY DEF PinsHold
  <2> SUFFICES ASSUME NEW x \in RefersTo(tx'[u].row), x \in Doomed(tx[v].id)'
               PROVE  FALSE
    OBVIOUS
  <2>1. /\ u # t /\ tx'[u] = tx[u] /\ Writing(u, "create")
        /\ v # t /\ tx'[v] = tx[v] /\ Writing(v, "delete")
    BY <1>4 DEF Writing
  <2>2. x # i /\ x \in RefersTo(tx[u].row)
    BY <1>11, <2>1 DEF Writing
  <2>3. Live(x) /\ rows'[x] = rows[x]
    BY <1>7, <1>8, <2>2 DEF Doomed
  <2>4. Owner(x)' = Owner(x)
    BY <1>7, <2>3 DEF Owner
  <2>5. Owner(x) # Nil => Live(Owner(x))
    BY <2>3, Referred DEF RefersTo
  <2>6. (Owner(Owner(x)))' = Owner(Owner(x))
    <3>1. ~Live(Nil) /\ ~Live(Nil)'
      BY IdsAssumption DEF Live
    <3> QED
      BY <1>7, <2>4, <2>5, <3>1 DEF Owner
  <2>7. x \in Doomed(tx[v].id)
    <3>1. x \in Id /\ tx'[v].id \in {x, Owner(x)', (Owner(Owner(x)))'}
      BY DEF Doomed
    <3> QED
      BY <2>1, <2>3, <2>4, <2>6, <3>1 DEF Doomed
  <2> QED
    BY <2>1, <2>2, <2>7 DEF IInv, PinsHold
<1> QED
  BY <1>9, <1>10, <1>12, <1>13 DEF IInv

(* What a delete removes is of the organization of its transaction.        *)
LEMMA DoomedWithin ==
  ASSUME IInv, NEW t \in Tx, Writing(t, "delete"), NEW x \in Doomed(tx[t].id)
  PROVE  Live(x) /\ rows[x].org = tx[t].org
<1> DEFINE r == tx[t]
<1>1. r \in Request /\ r.kind = "delete" /\ r.phase = "wrote" /\ RequestOk(r)
  BY OpenIsRequest DEF Writing, IInv
<1>2. RefOk(r.id, Table, r.org) /\ r.id \in Id
  BY <1>1 DEF RequestOk, DeleteOk, Vetted, Unchecked
<1>3. Live(x) /\ r.id \in {x, Owner(x), Owner(Owner(x))}
  BY DEF Doomed
<1>4. ASSUME NEW y, Live(y), Owner(y) # Nil
      PROVE  Live(Owner(y)) /\ rows[Owner(y)].org = rows[y].org
  BY <1>4, Referred DEF RefersTo
<1>5. Owner(Nil) = Nil /\ r.id # Nil
  BY <1>2, IdsAssumption DEF Owner, Live
<1>6. Live(r.id) /\ rows[r.id].org = rows[x].org
  BY <1>3, <1>4, <1>5
<1> QED
  BY <1>2, <1>3, <1>6 DEF RefOk

(* What stays does not belong to anything that goes.                       *)
LEMMA OwnerStays ==
  ASSUME IInv, NEW d \in Id, NEW x, Live(x), x \notin Doomed(d), Owner(x) # Nil
  PROVE  Owner(x) \notin Doomed(d)
<1> DEFINE y == Owner(x)
           z == Owner(y)
<1>1. ASSUME NEW w, Live(w), Owner(w) # Nil
      PROVE  /\ Live(Owner(w)) /\ rows[w].table \in Table
             /\ OwnerTable[rows[w].table] # Nil
             /\ rows[Owner(w)].table = OwnerTable[rows[w].table]
  <2>1. RefersWithin(w) /\ Owner(w) = rows[w].owner
    BY <1>1, LiveRow DEF IInv, ReferencesStayInOrg, Owner
  <2>2. rows[w].table \in Table
    BY <1>1, LiveRow, RowFields DEF IInv
  <2> QED
    BY <1>1, <2>1, <2>2 DEF RefersWithin
<1>2. SUFFICES ASSUME y \in Doomed(d) PROVE FALSE
  OBVIOUS
<1>3. d # x /\ d # y /\ d # z
  BY LiveRow DEF Doomed, IInv
<1>4. d = Owner(z) /\ d # Nil
  BY <1>2, <1>3, IdsAssumption DEF Doomed
<1>5. Live(y) /\ z # Nil /\ Live(z)
  BY <1>1, <1>4, IdsAssumption DEF Owner, Live
<1>6. /\ rows[y].table = OwnerTable[rows[x].table]
      /\ rows[z].table = OwnerTable[rows[y].table]
      /\ rows[x].table \in Table
      /\ OwnerTable[rows[x].table] # Nil /\ OwnerTable[rows[y].table] # Nil
      /\ OwnerTable[rows[z].table] # Nil
  BY <1>1, <1>4, <1>5
<1> QED
  BY <1>6, OwnersAreShallow

LEMMA CommitDeleteStep ==
  ASSUME IInv, NEW t \in Tx, CommitDelete(t)
  PROVE  IInv'
<1> DEFINE D == Doomed(tx[t].id)
<1>1. Writing(t, "delete") /\ tx' = [tx EXCEPT ![t] = Nil]
      /\ UNCHANGED <<cameraLimit, peakLimit>>
  BY DEF CommitDelete
<1>2. tx[t].id \in Id
  <2>1. RequestOk(tx[t])
    BY <1>1 DEF IInv, Writing
  <2> QED
    BY <1>1, <2>1 DEF RequestOk, DeleteOk, Writing
<1>3. rows' = [x \in Id |-> IF x \in D \/ rows[x] = Nil THEN Nil
                            ELSE [rows[x] EXCEPT !.links = @ \ D]]
  BY DEF CommitDelete
<1>4. \A u \in Tx : tx'[u] = IF u = t THEN Nil ELSE tx[u]
  BY <1>1 DEF IInv, TypeOK
<1>5. ASSUME NEW x \in Id, Live(x), x \notin D
      PROVE  /\ rows'[x] \in RowOf(rows[x].org) /\ rows'[x] # Nil
             /\ rows[x].org \in Org
             /\ rows'[x].org = rows[x].org /\ rows'[x].table = rows[x].table
             /\ rows'[x].owner = rows[x].owner /\ rows'[x].links = rows[x].links \ D
  <2>1. rows[x] \in RowOf(rows[x].org) /\ rows[x].org \in Org
    BY <1>5, LiveRow DEF IInv
  <2>2. rows'[x] = [rows[x] EXCEPT !.links = @ \ D]
    BY <1>3, <1>5 DEF Live
  <2> HIDE DEF D
  <2>3. rows'[x] \in RowOf(rows[x].org)
    BY <2>1, <2>2 DEF RowOf
  <2> QED
    BY <2>1, <2>2, <2>3, NilAssumption DEF RowOf
<1>6. \A x \in Id : x \in D \/ ~Live(x) => rows'[x] = Nil
  BY <1>3 DEF Live
<1>7. \A x : Live(x)' <=> Live(x) /\ x \notin D
  BY <1>5, <1>6 DEF Live
<1> HIDE DEF D
<1>8. TypeOK'
  <2>1. rows' = [x \in Id |-> rows'[x]] /\ tx' = [u \in Tx |-> tx'[u]]
    BY <1>1, <1>3 DEF IInv, TypeOK
  <2>2. \A x \in Id : rows'[x] = Nil \/ \E o \in Org : rows'[x] \in RowOf(o)
    BY <1>5, <1>6
  <2>3. \A u \in Tx : tx'[u] = Nil \/ \E o \in Org : tx'[u] \in RequestOf(o)
    BY <1>4 DEF IInv, TypeOK
  <2> QED
    BY <1>1, <2>1, <2>2, <2>3 DEF IInv, TypeOK
<1>9. ReferencesStayInOrg'
  <2> SUFFICES ASSUME NEW x \in Id, Live(x)' PROVE RefersWithin(x)'
    BY DEF ReferencesStayInOrg
  <2>1. Live(x) /\ x \notin D /\ RefersWithin(x) /\ Owner(x) = rows[x].owner
    BY <1>7, Referred DEF IInv, ReferencesStayInOrg
  <2>2. rows[x].owner # Nil => /\ rows[x].owner \in Id /\ rows[x].owner \notin D
                               /\ Live(rows[x].owner)
    BY <1>2, <2>1, OwnerStays, LiveRow DEF D, RefersWithin, IInv, Live
  <2>3. \A j \in rows[x].links \ D : j \in Id /\ Live(j) /\ j \notin D
    BY <2>1 DEF RefersWithin, Live
  <2> QED
    BY <1>5, <1>7, <2>1, <2>2, <2>3 DEF RefersWithin
<1>10. ASSUME NEW u \in Tx, tx'[u] # Nil PROVE RequestOk(tx[u])'
  <2>1. u # t /\ tx'[u] = tx[u] /\ tx[u] # Nil
    BY <1>4, <1>10
  <2> DEFINE r == tx[u]
  <2>2. RequestOk(r) /\ r' = r
    BY <2>1 DEF IInv
  <2>3. r.kind = "create" /\ r.phase = "wrote" => RefersTo(r.row) \cap D = {}
    BY <1>1, <2>1 DEF IInv, PinsHold, Writing, D
  <2> HIDE DEF r
  <2>4. ASSUME NEW x, NEW tables, Vetted(r, tables, x) PROVE Vetted(r, tables, x)'
    BY <1>5, <1>7, <2>2, <2>4 DEF Vetted, Unchecked, RefOk, Live
  <2>5. r.kind = "create" => CreateOk(r)'
    <3> SUFFICES ASSUME r.kind = "create" PROVE CreateOk(r)'
      OBVIOUS
    <3>1. CreateOk(r)
      BY <2>2 DEF RequestOk
    <3>2. r.row.owner # Nil => Vetted(r, {OwnerTable[r.row.table]}, r.row.owner)'
      BY <2>2, <2>4, <3>1 DEF CreateOk
    <3>3. \A j \in r.row.links : Vetted(r, LinkTable[r.row.table], j)'
      BY <2>2, <2>4, <3>1 DEF CreateOk
    <3> QED
      BY <1>7, <2>2, <2>3, <3>1, <3>2, <3>3 DEF CreateOk
  <2>6. r.kind = "delete" => DeleteOk(r)'
    BY <2>2, <2>4 DEF RequestOk, DeleteOk
  <2> QED
    BY <2>2, <2>5, <2>6 DEF RequestOk, r
<1>11. PinsHold'
  <2> SUFFICES ASSUME NEW u \in Tx, NEW v \in Tx,
                      Writing(u, "create")', Writing(v, "delete")'
               PROVE  RefersTo(tx'[u].row) \cap Doomed(tx[v].id)' = {}
    BY DEF PinsHold
  <2> SUFFICES ASSUME NEW x \in RefersTo(tx'[u].row), x \in Doomed(tx[v].id)'
               PROVE  FALSE
    OBVIOUS
  <2>1. /\ u # t /\ tx'[u] = tx[u] /\ Writing(u, "create")
        /\ v # t /\ tx'[v] = tx[v] /\ Writing(v, "delete")
    BY <1>4 DEF Writing
  <2>2. tx[v].id # Nil
    <3>1. RequestOk(tx[v])
      BY <2>1 DEF IInv, Writing
    <3> QED
      BY <2>1, <3>1, IdsAssumption DEF RequestOk, DeleteOk, Writing
  <2>3. x \in Id /\ Live(x)' /\ tx'[v].id \in {x, Owner(x)', (Owner(Owner(x)))'}
    BY DEF Doomed
  <2>4. \A y : Live(y)' => Live(y) /\ Owner(y)' = Owner(y)
    BY <1>5, <1>7 DEF Owner, Live
  <2>5. \A y : ~Live(y)' => Owner(y)' = Nil
    BY DEF Owner
  <2>6. (Owner(Owner(x)))' = Owner(Owner(x)) \/ (Owner(Owner(x)))' = Nil
    <3>1. Owner(x)' = Owner(x)
      BY <2>3, <2>4
    <3> QED
      BY <2>4, <2>5, <3>1 DEF Owner
  <2>7. x \in Doomed(tx[v].id)
    BY <2>1, <2>2, <2>3, <2>4, <2>6 DEF Doomed
  <2> QED
    BY <2>1, <2>7 DEF IInv, PinsHold
<1> QED
  BY <1>8, <1>9, <1>10, <1>11 DEF IInv

-----------------------------------------------------------------------------
LEMMA Initially == Init => IInv
<1> SUFFICES ASSUME Init PROVE IInv
  OBVIOUS
<1>1. TypeOK
  BY DEF Init, TypeOK
<1>2. (\A i : ~Live(i)) /\ \A t \in Tx : tx[t] = Nil
  BY DEF Init, Live
<1> QED
  BY <1>1, <1>2 DEF IInv, ReferencesStayInOrg, PinsHold, Writing

LEMMA Inductive == IInv /\ [Next]_vars => IInv'
<1> SUFFICES ASSUME IInv, [Next]_vars PROVE IInv'
  OBVIOUS
<1>1. CASE \E t \in Tx, o \in Org : CreateRow(t, o) \/ DeleteRow(t, o)
  BY <1>1, CreateRowStep, DeleteRowStep
<1>2. CASE \E t \in Tx : Check(t) \/ CountCameras(t) \/ Insert(t) \/ Remove(t)
  BY <1>2, CheckStep, CountStep, InsertStep, RemoveStep
<1>3. CASE \E t \in Tx : CommitCreate(t) \/ CommitDelete(t)
  BY <1>3, CommitCreateStep, CommitDeleteStep
<1>4. CASE \E t \in Tx : Fail(t)
  BY <1>4, EndStep DEF Fail
<1>5. CASE \E o \in Org, limit \in Limit : ChangePlan(o, limit)
  BY <1>5, ChangePlanStep
<1>6. CASE UNCHANGED vars
  BY <1>6, LimitsStep DEF vars, IInv, TypeOK
<1> QED
  BY <1>1, <1>2, <1>3, <1>4, <1>5, <1>6 DEF Next

(* Whatever requests interleave, what they have checked still fits, what   *)
(* they have inserted cannot be removed under them, and every committed    *)
(* reference stays inside its organization.                                *)
THEOREM ResourceInvariance == Spec => []IInv
  BY Initially, Inductive, PTL DEF Spec

(* Every variable has the type the schema gives it. *)
THEOREM ResourceTypes == Spec => []TypeOK
<1>1. IInv => TypeOK
  BY DEF IInv
<1> QED
  BY <1>1, ResourceInvariance, PTL

(* Every reference of a committed row points at a committed row of the     *)
(* same organization and of the right table (requireTenantResource before  *)
(* every INSERT, foreign keys after it).                                   *)
THEOREM TenantReferences == Spec => []ReferencesStayInOrg
<1>1. IInv => ReferencesStayInOrg
  BY DEF IInv
<1> QED
  BY <1>1, ResourceInvariance, PTL

-----------------------------------------------------------------------------
(* Who changes a row. *)

LEMMA OnlyCommits ==
  ASSUME [Next]_vars, rows' # rows
  PROVE  \E t \in Tx : CommitCreate(t) \/ CommitDelete(t)
<1>1. ASSUME NEW t \in Tx, NEW request, Open(t, request) PROVE UNCHANGED rows
  BY <1>1 DEF Open
<1>2. ASSUME NEW t \in Tx, NEW o \in Org, CreateRow(t, o) \/ DeleteRow(t, o)
      PROVE  UNCHANGED rows
  BY <1>1, <1>2 DEF CreateRow, DeleteRow, CreateSite, CreateAiModel, CreateZone,
                    CreateSchedule, CreateCamera, CreateMonitoredObject, CreateAiRule,
                    Create, DeleteSite, DeleteAiModel, DeleteZone, DeleteSchedule,
                    DeleteCamera, DeleteMonitoredObject, DeleteAiRule, Delete
<1> QED
  BY <1>2 DEF Next, vars, Check, CountCameras, Insert, Remove, Fail, ChangePlan

LEMMA ChangedFromWithin ==
  ASSUME IInv, [Next]_vars, NEW i \in Id, rows'[i] # rows[i]
  PROVE  \E t \in Tx :
           /\ tx[t] # Nil /\ tx'[t] = Nil
           /\ tx[t].org = IF rows[i] # Nil THEN rows[i].org ELSE rows'[i].org
<1>1. PICK t \in Tx : CommitCreate(t) \/ CommitDelete(t)
  BY OnlyCommits
<1>2. tx[t] # Nil /\ tx'[t] = Nil
  BY <1>1 DEF CommitCreate, CommitDelete, Writing, IInv, TypeOK
<1>3. CASE CommitCreate(t)
  <2>1. rows[i] = Nil /\ rows'[i] = tx[t].row
    BY <1>3 DEF CommitCreate, IInv, TypeOK
  <2>2. tx[t].row \in RowOf(tx[t].org)
    BY <1>3, Inserted DEF CommitCreate
  <2>3. rows'[i].org = tx[t].org
    BY <2>1, <2>2, RowFields
  <2> QED
    BY <1>2, <2>1, <2>3
<1>4. CASE CommitDelete(t)
  <2> DEFINE D == Doomed(tx[t].id)
  <2>1. /\ Writing(t, "delete")
        /\ rows'[i] = IF i \in D \/ rows[i] = Nil THEN Nil
                      ELSE [rows[i] EXCEPT !.links = rows[i].links \ D]
    BY <1>4 DEF CommitDelete
  <2>2. ASSUME NEW x \in D PROVE Live(x) /\ rows[x].org = tx[t].org
    BY <2>1, DoomedWithin
  <2>3. Live(i)
    BY <2>1 DEF Live
  <2> HIDE DEF D
  <2>4. CASE i \in D
    BY <1>2, <2>2, <2>3, <2>4 DEF Live
  <2>5. CASE i \notin D
    <3>1. rows[i] \in RowOf(rows[i].org)
      BY <2>3, Referred
    <3>2. rows'[i] = [rows[i] EXCEPT !.links = rows[i].links \ D]
      BY <2>1, <2>3, <2>5 DEF Live
    <3>3. PICK x \in rows[i].links : x \in D
      <4>1. SUFFICES ASSUME rows[i].links \cap D = {} PROVE FALSE
        OBVIOUS
      <4>2. rows[i].links \ D = rows[i].links
        BY <4>1
      <4>3. [rows[i] EXCEPT !.links = rows[i].links] = rows[i]
        BY <3>1 DEF RowOf
      <4> QED
        BY <3>2, <4>2, <4>3
    <3>4. rows[x].org = rows[i].org
      BY <2>3, <3>3, Referred DEF RefersTo
    <3>5. tx[t].org = rows[i].org
      BY <2>2, <3>3, <3>4
    <3> QED
      BY <1>2, <2>3, <3>5 DEF Live
  <2> QED
    BY <2>4, <2>5
<1> QED
  BY <1>1, <1>3, <1>4

(* No request of one organization creates, changes or removes a row of     *)
(* another, although a delete cascades without row level security.         *)
THEOREM RowsStayWithin == Spec => RowsChangeFromWithin
<1>1. IInv /\ [Next]_vars =>
        [\A i \in Id : rows'[i] # rows[i] =>
           \E t \in Tx :
             /\ tx[t] # Nil /\ tx'[t] = Nil
             /\ tx[t].org = IF rows[i] # Nil THEN rows[i].org ELSE rows'[i].org]_vars
  BY ChangedFromWithin
<1> QED
  BY <1>1, ResourceInvariance, PTL DEF Spec, RowsChangeFromWithin

-----------------------------------------------------------------------------
(* The camera limit. *)

(* Open transactions that have counted the cameras and will add one.       *)
Adds(request, o) ==
  /\ request # Nil /\ request.kind = "create" /\ request.phase # "open"
  /\ request.row.table = "cameras" /\ request.org = o
Adding(o) == {t \in Tx : Adds(tx[t], o)}

Overshoot(o) ==
  /\ Cardinality(CamerasOf(o)) + Cardinality(Adding(o))
       < peakLimit[o] + Cardinality(Tx)
  /\ cameraLimit[o] <= peakLimit[o]

LEMMA Counts ==
  ASSUME NEW o
  PROVE  /\ IsFiniteSet(CamerasOf(o)) /\ Cardinality(CamerasOf(o)) \in Nat
         /\ IsFiniteSet(Adding(o)) /\ Cardinality(Adding(o)) \in Nat
         /\ Cardinality(Adding(o)) <= Cardinality(Tx)
         /\ Cardinality(Tx) \in Nat /\ Cardinality(Tx) > 0
<1>1. CamerasOf(o) \subseteq Id /\ Adding(o) \subseteq Tx
  BY DEF CamerasOf, Adding
<1>2. IsFiniteSet(Id) /\ IsFiniteSet(Tx) /\ Tx # {}
  BY IdsAssumption, TxAssumption
<1>3. IsFiniteSet(CamerasOf(o)) /\ IsFiniteSet(Adding(o))
      /\ Cardinality(Adding(o)) <= Cardinality(Tx)
  BY <1>1, <1>2, FS_Subset
<1> QED
  BY <1>2, <1>3, FS_CardinalityType, FS_EmptySet

(* Neither more cameras nor more that will be added. *)
LEMMA NoMore ==
  ASSUME NEW o, Overshoot(o), CamerasOf(o)' \subseteq CamerasOf(o),
         Adding(o)' \subseteq Adding(o), UNCHANGED <<cameraLimit, peakLimit>>,
         peakLimit[o] \in Nat
  PROVE  Overshoot(o)'
<1>1. /\ Cardinality(CamerasOf(o)') \in Nat
      /\ Cardinality(CamerasOf(o)') <= Cardinality(CamerasOf(o))
  BY Counts, FS_Subset, FS_CardinalityType
<1>2. /\ Cardinality(Adding(o)') \in Nat
      /\ Cardinality(Adding(o)') <= Cardinality(Adding(o))
  BY Counts, FS_Subset, FS_CardinalityType
<1> QED
  BY <1>1, <1>2, Counts DEF Overshoot

(* A step of one transaction that commits nothing and that only a request  *)
(* already counted in leaves counted in.                                   *)
LEMMA StillCounted ==
  ASSUME IInv, NEW o \in Org, Overshoot(o), NEW t \in Tx, NEW new,
         tx' = [tx EXCEPT ![t] = new], Adds(new, o) => Adds(tx[t], o),
         UNCHANGED <<rows, cameraLimit, peakLimit>>
  PROVE  Overshoot(o)'
<1>1. \A u \in Tx : tx'[u] = IF u = t THEN new ELSE tx[u]
  BY DEF IInv, TypeOK
<1>2. Adding(o)' \subseteq Adding(o)
  BY <1>1 DEF Adding, Adds
<1>3. CamerasOf(o)' \subseteq CamerasOf(o)
  BY DEF CamerasOf, Live
<1>4. peakLimit[o] \in Nat
  BY LimitAssumption DEF IInv, TypeOK
<1> QED
  BY <1>2, <1>3, <1>4, NoMore

LEMMA OpensUncounted ==
  ASSUME IInv, NEW o \in Org, Overshoot(o), NEW t \in Tx, NEW request,
         request.phase = "open", Open(t, request)
  PROVE  Overshoot(o)'
<1>1. ~Adds(request, o)
  BY DEF Adds
<1> QED
  BY <1>1, StillCounted DEF Open

LEMMA CreateUncounted ==
  ASSUME IInv, NEW o \in Org, Overshoot(o), NEW t \in Tx, NEW org \in Org,
         CreateRow(t, org)
  PROVE  Overshoot(o)'
<1>1. ASSUME NEW table, NEW owner, NEW links, Create(t, org, table, owner, links)
      PROVE  Overshoot(o)'
  BY <1>1, OpensUncounted DEF Create
<1> QED
  BY <1>1 DEF CreateRow, CreateSite, CreateAiModel, CreateZone, CreateSchedule,
              CreateCamera, CreateMonitoredObject, CreateAiRule

LEMMA DeleteUncounted ==
  ASSUME IInv, NEW o \in Org, Overshoot(o), NEW t \in Tx, NEW org \in Org,
         DeleteRow(t, org)
  PROVE  Overshoot(o)'
<1>1. ASSUME NEW table, NEW i, Delete(t, org, table, i)
      PROVE  Overshoot(o)'
  BY <1>1, OpensUncounted DEF Delete
<1> QED
  BY <1>1 DEF DeleteRow, DeleteSite, DeleteAiModel, DeleteZone, DeleteSchedule,
              DeleteCamera, DeleteMonitoredObject, DeleteAiRule

LEMMA CheckCounted ==
  ASSUME IInv, NEW o \in Org, Overshoot(o), NEW t \in Tx, Check(t)
  PROVE  Overshoot(o)'
<1> DEFINE r == tx[t]
           ref == Head(r.unchecked)
           fits == Visible(t, ref[2]) /\ rows[ref[2]].table = ref[1]
           next == [r EXCEPT !.unchecked = Tail(r.unchecked)]
<1>1. r \in Request /\ ~Adds(Nil, o)
  BY OpenIsRequest DEF Check, IInv, Adds
<1>2. tx' = [tx EXCEPT ![t] = IF fits THEN next ELSE Nil]
      /\ UNCHANGED <<rows, cameraLimit, peakLimit>> /\ r # Nil
  BY DEF Check
<1>3. Adds(next, o) => Adds(r, o)
  BY <1>1, <1>2 DEF Adds, Request, RequestOf
<1> HIDE DEF fits, next
<1>4. CASE fits
  <2>1. tx' = [tx EXCEPT ![t] = next]
    BY <1>2, <1>4
  <2> QED
    BY <1>2, <1>3, <2>1, StillCounted
<1>5. CASE ~fits
  <2>1. tx' = [tx EXCEPT ![t] = Nil]
    BY <1>2, <1>5
  <2> QED
    BY <1>1, <1>2, <2>1, StillCounted
<1> QED
  BY <1>4, <1>5

LEMMA PhaseCounted ==
  ASSUME IInv, NEW o \in Org, Overshoot(o), NEW t \in Tx,
         NEW phase \in {"counted", "wrote"}, tx[t] # Nil,
         tx[t].kind = "create" /\ tx[t].row.table = "cameras" =>
           tx[t].phase # "open",
         tx' = [tx EXCEPT ![t] = [tx[t] EXCEPT !.phase = phase]],
         UNCHANGED <<rows, cameraLimit, peakLimit>>
  PROVE  Overshoot(o)'
<1> DEFINE r == tx[t]
           next == [r EXCEPT !.phase = phase]
<1>1. r \in Request
  BY OpenIsRequest DEF IInv
<1>2. Adds(next, o) => Adds(r, o)
  BY <1>1 DEF Adds, Request, RequestOf
<1>3. tx' = [tx EXCEPT ![t] = next]
  OBVIOUS
<1> QED
  BY <1>2, <1>3, StillCounted

LEMMA FailCounted ==
  ASSUME IInv, NEW o \in Org, Overshoot(o), NEW t \in Tx,
         tx' = [tx EXCEPT ![t] = Nil], UNCHANGED <<rows, cameraLimit, peakLimit>>
  PROVE  Overshoot(o)'
<1>1. ~Adds(Nil, o)
  BY DEF Adds
<1> QED
  BY <1>1, StillCounted

(* The count: fewer than the limit are committed, and at most one for each *)
(* connection will be added.                                               *)
LEMMA CountCounted ==
  ASSUME IInv, NEW o \in Org, Overshoot(o), NEW t \in Tx, CountCameras(t)
  PROVE  Overshoot(o)'
<1> DEFINE r == tx[t]
<1>1. CASE Cardinality(CamerasOf(r.org)) >= cameraLimit[r.org]
  BY <1>1, FailCounted DEF CountCameras
<1>2. CASE ~(Cardinality(CamerasOf(r.org)) >= cameraLimit[r.org])
  <2> DEFINE next == [r EXCEPT !.phase = "counted"]
  <2>1. /\ tx' = [tx EXCEPT ![t] = next]
        /\ UNCHANGED <<rows, cameraLimit, peakLimit>>
    BY <1>2 DEF CountCameras
  <2>2. CASE r.org = o
    <3>1. CamerasOf(o)' = CamerasOf(o)
      BY <2>1 DEF CamerasOf, Live
    <3>2. cameraLimit[o] \in Nat /\ peakLimit[o] \in Nat
      BY LimitAssumption DEF IInv, TypeOK
    <3>3. Cardinality(CamerasOf(o)) < cameraLimit[o]
      BY <1>2, <2>2, <3>2, Counts
    <3>4. /\ Cardinality(Adding(o)') \in Nat
          /\ Cardinality(Adding(o)') <= Cardinality(Tx)
      <4>1. Adding(o)' \subseteq Tx
        BY DEF Adding
      <4> QED
        BY <4>1, TxAssumption, FS_Subset, FS_CardinalityType
    <3> QED
      BY <2>1, <3>1, <3>2, <3>3, <3>4, Counts DEF Overshoot
  <2>3. CASE r.org # o
    <3>1. r \in Request
      BY OpenIsRequest DEF IInv, CountCameras
    <3>2. ~Adds(next, o)
      BY <2>3, <3>1 DEF Adds, Request, RequestOf
    <3> QED
      BY <2>1, <3>2, StillCounted
  <2> QED
    BY <2>2, <2>3
<1> QED
  BY <1>1, <1>2

LEMMA InsertCounted ==
  ASSUME IInv, NEW o \in Org, Overshoot(o), NEW t \in Tx, Insert(t)
  PROVE  Overshoot(o)'
<1>1. CASE \A i \in RefersTo(tx[t].row) : Live(i)
  <2>1. tx' = [tx EXCEPT ![t] = [tx[t] EXCEPT !.phase = "wrote"]]
    BY <1>1 DEF Insert
  <2>2. tx[t].row.table = "cameras" => tx[t].phase # "open"
    BY DEF Insert
  <2> QED
    BY <2>1, <2>2, PhaseCounted DEF Insert
<1>2. CASE ~\A i \in RefersTo(tx[t].row) : Live(i)
  BY <1>2, FailCounted DEF Insert
<1> QED
  BY <1>1, <1>2

LEMMA RemoveCounted ==
  ASSUME IInv, NEW o \in Org, Overshoot(o), NEW t \in Tx, Remove(t)
  PROVE  Overshoot(o)'
<1>1. tx' = [tx EXCEPT ![t] = [tx[t] EXCEPT !.phase = "wrote"]]
  BY DEF Remove
<1> QED
  BY <1>1, PhaseCounted DEF Remove

(* The commit of a camera moves it from those to come to those there.      *)
LEMMA CommitCreateCounted ==
  ASSUME IInv, NEW o \in Org, Overshoot(o), NEW t \in Tx, CommitCreate(t)
  PROVE  Overshoot(o)'
<1> DEFINE r == tx[t]
<1>1. PICK i \in Id : rows[i] = Nil /\ rows' = [rows EXCEPT ![i] = r.row]
  BY DEF CommitCreate
<1>2. /\ \A x \in Id : rows'[x] = IF x = i THEN r.row ELSE rows[x]
      /\ \A u \in Tx : tx'[u] = IF u = t THEN Nil ELSE tx[u]
      /\ UNCHANGED <<cameraLimit, peakLimit>>
  BY <1>1 DEF CommitCreate, IInv, TypeOK
<1>3. /\ r # Nil /\ r.kind = "create" /\ r.phase = "wrote"
      /\ r.row # Nil /\ r.row.org = r.org
  BY Inserted, RowFields DEF CommitCreate, Writing
<1>4. Adding(o)' = Adding(o) \ {t}
  BY <1>2 DEF Adding, Adds
<1>5. CASE r.row.table = "cameras" /\ r.org = o
  <2>1. CamerasOf(o)' = CamerasOf(o) \cup {i} /\ i \notin CamerasOf(o)
    BY <1>1, <1>2, <1>3, <1>5 DEF CamerasOf, Live
  <2>2. t \in Adding(o)
    BY <1>3, <1>5 DEF Adding, Adds
  <2>3. Cardinality(CamerasOf(o)') = Cardinality(CamerasOf(o)) + 1
    BY <2>1, Counts, FS_AddElement
  <2>4. Cardinality(Adding(o)') = Cardinality(Adding(o)) - 1
    BY <1>4, <2>2, Counts, FS_RemoveElement
  <2>5. peakLimit[o] \in Nat
    BY LimitAssumption DEF IInv, TypeOK
  <2> QED
    BY <1>2, <2>3, <2>4, <2>5, Counts DEF Overshoot
<1>6. CASE ~(r.row.table = "cameras" /\ r.org = o)
  <2>1. CamerasOf(o)' \subseteq CamerasOf(o)
    BY <1>1, <1>2, <1>3, <1>6 DEF CamerasOf, Live
  <2>2. peakLimit[o] \in Nat
    BY LimitAssumption DEF IInv, TypeOK
  <2> QED
    BY <1>2, <1>4, <2>1, <2>2, NoMore
<1> QED
  BY <1>5, <1>6

LEMMA CommitDeleteCounted ==
  ASSUME IInv, NEW o \in Org, Overshoot(o), NEW t \in Tx, CommitDelete(t)
  PROVE  Overshoot(o)'
<1> DEFINE D == Doomed(tx[t].id)
<1>1. /\ \A i \in Id : rows'[i] = IF i \in D \/ rows[i] = Nil THEN Nil
                      ELSE [rows[i] EXCEPT !.links = rows[i].links \ D]
      /\ \A u \in Tx : tx'[u] = IF u = t THEN Nil ELSE tx[u]
      /\ UNCHANGED <<cameraLimit, peakLimit>>
  BY DEF CommitDelete, IInv, TypeOK
<1> HIDE DEF D
<1>2. ASSUME NEW i \in Id, rows'[i] # Nil
      PROVE  /\ rows[i] # Nil /\ rows'[i].org = rows[i].org
             /\ rows'[i].table = rows[i].table
  <2>1. rows[i] # Nil /\ rows'[i] = [rows[i] EXCEPT !.links = rows[i].links \ D]
    BY <1>1, <1>2
  <2>2. rows[i] \in RowOf(rows[i].org)
    BY <2>1, Referred DEF Live
  <2> QED
    BY <2>1, <2>2 DEF RowOf
<1>3. CamerasOf(o)' \subseteq CamerasOf(o)
  BY <1>2 DEF CamerasOf, Live
<1>4. Adding(o)' \subseteq Adding(o)
  BY <1>1 DEF Adding, Adds
<1>5. peakLimit[o] \in Nat
  BY LimitAssumption DEF IInv, TypeOK
<1> QED
  BY <1>1, <1>3, <1>4, <1>5, NoMore

LEMMA PlanCounted ==
  ASSUME IInv, NEW o \in Org, Overshoot(o), UNCHANGED <<rows, tx>>,
         cameraLimit'[o] \in Nat, peakLimit'[o] \in Nat,
         cameraLimit'[o] <= peakLimit'[o], peakLimit[o] <= peakLimit'[o]
  PROVE  Overshoot(o)'
<1>1. CamerasOf(o)' = CamerasOf(o) /\ Adding(o)' = Adding(o)
  BY DEF CamerasOf, Live, Adding, Adds
<1>2. peakLimit[o] \in Nat
  BY LimitAssumption DEF IInv, TypeOK
<1> QED
  BY <1>1, <1>2, Counts DEF Overshoot

LEMMA ChangePlanCounted ==
  ASSUME IInv, NEW o \in Org, Overshoot(o), NEW org \in Org, NEW limit \in Limit,
         ChangePlan(org, limit)
  PROVE  Overshoot(o)'
<1>1. /\ cameraLimit[o] \in Nat /\ peakLimit[o] \in Nat /\ limit \in Nat
      /\ cameraLimit[o] <= peakLimit[o]
  BY LimitAssumption DEF IInv, TypeOK, Overshoot
<1>2. /\ cameraLimit'[o] = IF o = org THEN limit ELSE cameraLimit[o]
      /\ peakLimit'[o] = IF o = org
                         THEN IF peakLimit[o] > limit THEN peakLimit[o] ELSE limit
                         ELSE peakLimit[o]
  BY DEF ChangePlan, IInv, TypeOK
<1> QED
  BY <1>1, <1>2, PlanCounted DEF ChangePlan

OvershootInv == IInv /\ \A o \in Org : Overshoot(o)

LEMMA CountedFirst == Init => OvershootInv
<1> SUFFICES ASSUME Init PROVE OvershootInv
  OBVIOUS
<1>1. ASSUME NEW o \in Org PROVE Overshoot(o)
  <2>1. CamerasOf(o) = {} /\ Adding(o) = {}
    BY DEF Init, CamerasOf, Live, Adding, Adds
  <2>2. Cardinality(CamerasOf(o)) = 0 /\ Cardinality(Adding(o)) = 0
    BY <2>1, FS_EmptySet
  <2>3. cameraLimit[o] \in Nat /\ peakLimit[o] = cameraLimit[o]
    BY LimitAssumption DEF Init
  <2> QED
    BY <2>2, <2>3, Counts DEF Overshoot
<1> QED
  BY <1>1, Initially DEF OvershootInv

LEMMA CountedOn == OvershootInv /\ [Next]_vars => OvershootInv'
<1> SUFFICES ASSUME OvershootInv, [Next]_vars PROVE OvershootInv'
  OBVIOUS
<1>1. IInv /\ IInv'
  BY Inductive DEF OvershootInv
<1>2. ASSUME NEW o \in Org PROVE Overshoot(o)'
  <2>1. Overshoot(o)
    BY DEF OvershootInv
  <2>2. CASE \E t \in Tx, org \in Org : CreateRow(t, org) \/ DeleteRow(t, org)
    BY <1>1, <2>1, <2>2, CreateUncounted, DeleteUncounted
  <2>3. CASE \E t \in Tx : Check(t) \/ CountCameras(t) \/ Insert(t) \/ Remove(t)
    BY <1>1, <2>1, <2>3, CheckCounted, CountCounted, InsertCounted, RemoveCounted
  <2>4. CASE \E t \in Tx : CommitCreate(t) \/ CommitDelete(t)
    BY <1>1, <2>1, <2>4, CommitCreateCounted, CommitDeleteCounted
  <2>5. CASE \E t \in Tx : Fail(t)
    BY <1>1, <2>1, <2>5, FailCounted DEF Fail
  <2>6. CASE \E org \in Org, limit \in Limit : ChangePlan(org, limit)
    BY <1>1, <2>1, <2>6, ChangePlanCounted
  <2>7. CASE UNCHANGED vars
    <3>1. cameraLimit[o] \in Nat /\ peakLimit[o] \in Nat
      BY <1>1, LimitAssumption DEF IInv, TypeOK
    <3> QED
      BY <1>1, <2>1, <2>7, <3>1, PlanCounted DEF vars, Overshoot
  <2> QED
    BY <2>2, <2>3, <2>4, <2>5, <2>6, <2>7 DEF Next
<1> QED
  BY <1>1, <1>2 DEF OvershootInv

(* An organization never has more cameras than the largest limit its plans *)
(* allowed plus one less than the connections of the pool, whatever        *)
(* requests count before the others commit (POST /cameras).                *)
THEOREM OvershootLimited == Spec => []OvershootBounded
<1>1. ASSUME OvershootInv, NEW o \in Org
      PROVE  Cardinality(CamerasOf(o)) < peakLimit[o] + Cardinality(Tx)
  <2>1. peakLimit[o] \in Nat
    BY <1>1, LimitAssumption DEF OvershootInv, IInv, TypeOK
  <2> QED
    BY <1>1, <2>1, Counts DEF OvershootInv, Overshoot
<1>2. OvershootInv => OvershootBounded
  BY <1>1 DEF OvershootBounded
<1> QED
  BY <1>2, CountedFirst, CountedOn, PTL DEF Spec
=============================================================================
