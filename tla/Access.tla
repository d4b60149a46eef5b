------------------------------ MODULE Access ------------------------------
(***************************************************************************)
(* Who may act in which organization: sign-up, login, sessions, members    *)
(* and the sockets of the realtime hub.  Every visit (a request, or the    *)
(* handshake of a socket) resolves its session and its membership with     *)
(* separate queries and acts after further awaits, while administrators    *)
(* change, suspend and remove members.                                     *)
(*                                                                         *)
(* A user stands for an e-mail address; a session may end at any query     *)
(* that reads it (expires_at).  A transaction that writes one membership   *)
(* is one step.  A slug is the number uniqueSlug appends to the one name   *)
(* all organizations here have.                                            *)
(***************************************************************************)
EXTENDS Naturals, FiniteSets

CONSTANTS
  User, Org, Session,
  Visit,        \* requests and sockets that can be under way
  RoleChoice,   \* the roles administrators hand out
  MaxChanges,   \* bound on the changes administrators make
  Nil

Rank == [VIEWER |-> 0, OPERATOR |-> 1, ADMIN |-> 2, OWNER |-> 3]
Role == DOMAIN Rank
RoleAtLeast(role, minimum) == Rank[role] >= Rank[minimum]
MinRole == [permission \in {"members:manage"} |-> "ADMIN"]

ASSUME AccessConstants ==
  /\ Nil \notin User \cup Org \cup Session
  /\ RoleChoice \subseteq Role /\ MaxChanges \in Nat

VARIABLES
  account,  \* users rows: "none", or whether anybody knows the password
  slug,     \* [Org -> its slug, Nil while it does not exist]
  members,  \* [Org -> [User -> membership or Nil]]
  session,  \* [Session -> its user and active organization, or Nil]
  visit,    \* [Visit -> what it knows so far, or Nil]
  channel,  \* the hub: [Org -> set of subscribed sockets]
  changes   \* how many changes administrators made

vars == <<account, slug, members, session, visit, channel, changes>>

Membership == [role : Role, status : {"ACTIVE", "INVITED", "SUSPENDED"}]
SessionRow == [user : User, org : Org \cup {Nil}]

(* How far a visit is.  Requests: resolved, authorized, switching,         *)
(* creating, inviting.  Login.  Sign-up: checked, created, slugged, joined.*)
(* Sockets: handshake, aborted (closed during the handshake), subscribed,  *)
(* leaked (aborted, then subscribed).                                      *)
Step == {"resolved", "authorized", "switching", "creating", "inviting",
         "login", "checked", "created", "slugged", "joined",
         "handshake", "aborted", "subscribed", "leaked"}

VisitRecord ==
  [role : Role \cup {Nil}, session : Session \cup {Nil}, user : User,
   org : Org \cup {Nil},          \* the session's, then the membership's
   step : Step,
   target : User \cup Org \cup Nat \cup {Nil},
   held : SUBSET (Org \X Role)]   \* history: what the user was since the start

ASSUME NilAssumption == Nil \notin VisitRecord

At(v, step) == visit[v] # Nil /\ visit[v].step = step
Exists(o) == slug[o] # Nil
Active(u, o) == members[o][u] # Nil /\ members[o][u].status = "ACTIVE"

RolesOf(u, ms) ==
  {r \in Org \X Role :
     ms[r[1]][u] # Nil /\ ms[r[1]][u] = [role |-> r[2], status |-> "ACTIVE"]}

New(u, step) ==
  [role |-> Nil, session |-> Nil, user |-> u, org |-> Nil, step |-> step,
   target |-> Nil, held |-> RolesOf(u, members)]

(* A change of the members is remembered by the visits under way.          *)
Remember(visits, ms) ==
  [v \in Visit |->
     IF visits[v] = Nil THEN Nil
     ELSE [visits[v] EXCEPT !.held = @ \cup RolesOf(visits[v].user, ms)]]

Init ==
  /\ account = [u \in User |-> "none"]
  /\ slug = [o \in Org |-> Nil]
  /\ members = [o \in Org |-> [u \in User |-> Nil]]
  /\ session = [s \in Session |-> Nil]
  /\ visit = [v \in Visit |-> Nil]
  /\ channel = [o \in Org |-> {}]
  /\ changes = 0

----------------------------------------------------------------------------
Begin(v, record) == visit[v] = Nil /\ visit' = [visit EXCEPT ![v] = record]
Proceed(v, record) == visit' = [visit EXCEPT ![v] = record]
End(v) == visit' = [visit EXCEPT ![v] = Nil]

(* Sign-up: look for the e-mail, ...                                       *)
SignUp(v, u) ==
  /\ account[u] = "none"
  /\ Begin(v, New(u, "checked"))
  /\ UNCHANGED <<account, slug, members, session, channel, changes>>

(* ... insert the user, in a transaction of its own, ...                   *)
CreateUser(v) ==
  /\ At(v, "checked")
  /\ LET u == visit[v].user IN
     IF account[u] = "none"
     THEN account' = [account EXCEPT ![u] = "usable"]
          /\ Proceed(v, [visit[v] EXCEPT !.step = "created"])
     ELSE UNCHANGED account /\ End(v)
  /\ UNCHANGED <<slug, members, session, channel, changes>>

(* ... probe for the first slug nobody has, ...                            *)
Free(n) == \A o \in Org : slug[o] # n
PickSlug(v) ==
  /\ At(v, "created")
  /\ \E n \in 1..(Cardinality(Org) + 1) :
       /\ Free(n) /\ \A k \in 1..(n - 1) : ~Free(k)
       /\ Proceed(v, [visit[v] EXCEPT !.step = "slugged", !.target = n])
  /\ UNCHANGED <<account, slug, members, session, channel, changes>>

(* ... and insert organization, owner and subscription together; the slug  *)
(* is unique and may have been taken meanwhile.                            *)
CreateOrganization(v) ==
  /\ At(v, "slugged")
  /\ LET u == visit[v].user
         n == visit[v].target IN
     IF Free(n)
     THEN \E o \in Org :
            /\ ~Exists(o)
            /\ slug' = [slug EXCEPT ![o] = n]
            /\ members' = [members EXCEPT ![o][u] =
                             [role |-> "OWNER", status |-> "ACTIVE"]]
            /\ visit' = Remember([visit EXCEPT ![v] =
                 [@ EXCEPT !.step = "joined", !.org = o, !.target = Nil]], members')
     ELSE UNCHANGED <<slug, members>> /\ End(v)
  /\ UNCHANGED <<account, session, channel, changes>>

(* login looks up the password and the memberships; signup knows them.     *)
Login(v, u) ==
  /\ account[u] = "usable"
  /\ \E o \in Org \cup {Nil} :
       /\ IF o = Nil THEN \A p \in Org : ~Active(u, p) ELSE Active(u, o)
       /\ Begin(v, [New(u, "login") EXCEPT !.org = o])
  /\ UNCHANGED <<account, slug, members, session, channel, changes>>

CreateSession(v) ==
  /\ At(v, "login") \/ At(v, "joined")
  /\ \E s \in Session :
       /\ session[s] = Nil /\ \A w \in Visit : visit[w] # Nil => visit[w].session # s
       /\ session' = [session EXCEPT ![s] =
                        [user |-> visit[v].user, org |-> visit[v].org]]
  /\ End(v)
  /\ UNCHANGED <<account, slug, members, channel, changes>>

----------------------------------------------------------------------------
(* resolveSession, for a request or for the handshake of a socket, which   *)
(* needs an active organization.  An expired session is deleted.           *)
Resolve(v, s) ==
  /\ session[s] # Nil
  /\ \E step \in {"resolved", "handshake"} :
       /\ step = "handshake" => session[s].org # Nil
       /\ Begin(v, [New(session[s].user, step) EXCEPT
                      !.session = s, !.org = session[s].org])
  /\ UNCHANGED <<account, slug, members, session, channel, changes>>

Expire(s) ==
  /\ session[s] # Nil
  /\ session' = [session EXCEPT ![s] = Nil]
  /\ UNCHANGED <<account, slug, members, visit, channel, changes>>

(* [mutant] any membership will do. *)
AnyMembership(u, o) == o # Nil /\ members[o][u] # Nil
ActiveMembership(u, o) == o # Nil /\ Active(u, o)

(* getMembership of the session's organization; requireOrganization-       *)
(* Membership refuses a request without one.                               *)
ReadMembership(v) ==
  /\ At(v, "resolved")
  /\ LET u == visit[v].user
         o == visit[v].org IN
     IF ActiveMembership(u, o)
     THEN Proceed(v, [visit[v] EXCEPT !.step = "authorized",
                                      !.role = members[o][u].role])
     ELSE End(v)
  /\ UNCHANGED <<account, slug, members, session, channel, changes>>

Permitted(v, permission) ==
  At(v, "authorized") /\ RoleAtLeast(visit[v].role, MinRole[permission])

(* Every other route: its transaction, or 403.                             *)
Use(v) ==
  /\ At(v, "authorized")
  /\ End(v)
  /\ UNCHANGED <<account, slug, members, session, channel, changes>>

(* POST /auth/logout and /auth/switch-org need no organization.            *)
Logout(v) ==
  /\ At(v, "resolved")
  /\ session' = [session EXCEPT ![visit[v].session] = Nil]
  /\ End(v)
  /\ UNCHANGED <<account, slug, members, channel, changes>>

SwitchOrg(v, o) ==
  /\ At(v, "resolved")
  /\ IF ActiveMembership(visit[v].user, o)
     THEN Proceed(v, [visit[v] EXCEPT !.step = "switching", !.target = o])
     ELSE End(v)
  /\ UNCHANGED <<account, slug, members, session, channel, changes>>

(* UPDATE sessions: no row when the session has ended meanwhile.           *)
SetActiveOrg(v) ==
  /\ At(v, "switching")
  /\ session' = [session EXCEPT ![visit[v].session] =
       IF @ = Nil THEN Nil ELSE [@ EXCEPT !.org = visit[v].target]]
  /\ End(v)
  /\ UNCHANGED <<account, slug, members, channel, changes>>

----------------------------------------------------------------------------
(* POST /members: look the invitee up, ...                                 *)
Invite(v, u) ==
  /\ Permitted(v, "members:manage") /\ changes < MaxChanges
  /\ Proceed(v, [visit[v] EXCEPT !.target = u,
       !.step = IF account[u] = "none" THEN "creating" ELSE "inviting"])
  /\ UNCHANGED <<account, slug, members, session, channel, changes>>

(* ... create it with a random password (e-mails are unique), ...          *)
CreateInvitee(v) ==
  /\ At(v, "creating")
  /\ LET u == visit[v].target IN
     IF account[u] = "none"
     THEN account' = [account EXCEPT ![u] = "unusable"]
          /\ Proceed(v, [visit[v] EXCEPT !.step = "inviting"])
     ELSE UNCHANGED account /\ End(v)
  /\ UNCHANGED <<slug, members, session, channel, changes>>

SetMember(v, o, u, membership) ==
  /\ changes < MaxChanges
  /\ changes' = changes + 1
  /\ members' = [members EXCEPT ![o][u] = membership]
  /\ visit' = Remember([visit EXCEPT ![v] = Nil], members')
  /\ UNCHANGED <<account, slug, session, channel>>

(* ... and insert the membership, unless there is one.                     *)
AddMember(v) ==
  /\ At(v, "inviting")
  /\ members[visit[v].org][visit[v].target] = Nil
  /\ \E role \in RoleChoice :
       SetMember(v, visit[v].org, visit[v].target,
                 [role |-> role, status |-> "INVITED"])

(* PATCH /members/:id, one column at a time or both.                       *)
ChangeMember(v, u) ==
  /\ Permitted(v, "members:manage")
  /\ LET o == visit[v].org IN
     /\ members[o][u] # Nil
     /\ \E m \in [role : RoleChoice \cup {members[o][u].role},
                  status : {"ACTIVE", "INVITED", "SUSPENDED"}] :
          m # members[o][u] /\ SetMember(v, o, u, m)

RemoveMember(v, u) ==
  /\ Permitted(v, "members:manage")
  /\ u # visit[v].user
  /\ members[visit[v].org][u] # Nil
  /\ SetMember(v, visit[v].org, u, Nil)

(* Any query may fail, and a conflict or a missing row ends the request.   *)
Fail(v) ==
  /\ visit[v] # Nil
  /\ visit[v].step \notin {"handshake", "aborted", "subscribed", "leaked"}
  /\ End(v)
  /\ UNCHANGED <<account, slug, members, session, channel, changes>>

----------------------------------------------------------------------------
(* The handshake reads the membership, subscribes and only then listens    *)
(* for 'close'.                                                            *)
Subscribe(v) ==
  /\ At(v, "handshake") \/ At(v, "aborted")
  /\ LET u == visit[v].user
         o == visit[v].org IN
     IF ActiveMembership(u, o)
     THEN /\ channel' = [channel EXCEPT ![o] = @ \cup {v}]
          /\ Proceed(v, [visit[v] EXCEPT
               !.role = members[o][u].role,
               !.step = IF @ = "handshake" THEN "subscribed" ELSE "leaked"])
     ELSE UNCHANGED channel /\ End(v)
  /\ UNCHANGED <<account, slug, members, session, changes>>

(* [mutant] a closing socket leaves the channel of the session's current   *)
(* organization only.                                                      *)
CloseSocketOfSession(v) ==
  /\ At(v, "handshake") \/ At(v, "subscribed")
  /\ IF At(v, "handshake")
     THEN UNCHANGED channel /\ Proceed(v, [visit[v] EXCEPT !.step = "aborted"])
     ELSE /\ channel' = [o \in Org |->
               IF session[visit[v].session] # Nil
                  /\ session[visit[v].session].org = o
               THEN channel[o] \ {v} ELSE channel[o]]
          /\ End(v)
  /\ UNCHANGED <<account, slug, members, session, changes>>

(* The socket closes: unsubscribeAll, if the listener is there.            *)
CloseSocket(v) ==
  /\ At(v, "handshake") \/ At(v, "subscribed")
  /\ IF At(v, "handshake")
     THEN UNCHANGED channel /\ Proceed(v, [visit[v] EXCEPT !.step = "aborted"])
     ELSE channel' = [o \in Org |-> channel[o] \ {v}] /\ End(v)
  /\ UNCHANGED <<account, slug, members, session, changes>>

(* The API process is replaced: requests under way and the hub are lost.   *)
Restart ==
  /\ visit' = [v \in Visit |-> Nil]
  /\ channel' = [o \in Org |-> {}]
  /\ UNCHANGED <<account, slug, members, session, changes>>

Next ==
  \/ Restart
  \/ \E v \in Visit :
       \/ \E u \in User : \/ SignUp(v, u) \/ Login(v, u) \/ Invite(v, u)
                          \/ ChangeMember(v, u) \/ RemoveMember(v, u)
       \/ CreateUser(v) \/ PickSlug(v) \/ CreateOrganization(v)
       \/ CreateSession(v) \/ ReadMembership(v) \/ Use(v) \/ Logout(v)
       \/ SetActiveOrg(v) \/ CreateInvitee(v) \/ AddMember(v) \/ Fail(v)
       \/ Subscribe(v) \/ CloseSocket(v)
       \/ \E s \in Session : Resolve(v, s)
       \/ \E o \in Org : SwitchOrg(v, o)
  \/ \E s \in Session : Expire(s)

Spec == Init /\ [][Next]_vars

----------------------------------------------------------------------------
TypeOK ==
  /\ account \in [User -> {"none", "unusable", "usable"}]
  /\ slug \in [Org -> Nat \cup {Nil}]
  /\ members \in [Org -> [User -> Membership \cup {Nil}]]
  /\ session \in [Session -> SessionRow \cup {Nil}]
  /\ visit = [v \in Visit |-> visit[v]]
  /\ \A v \in Visit : visit[v] = Nil \/ visit[v] \in VisitRecord
  /\ channel \in [Org -> SUBSET Visit]
  /\ changes \in 0..MaxChanges

(* Whoever is authorized for an organization, and whoever its realtime     *)
(* messages go to, was an active member of it, in the role the API goes    *)
(* by, at some moment since the request or the connection began: neither a *)
(* switch of the session nor a change of the membership between the two    *)
(* queries lets a visit act elsewhere or as somebody else.                 *)
VisitsWereMembers ==
  \A v \in Visit :
    visit[v] # Nil /\ visit[v].role # Nil =>
      <<visit[v].org, visit[v].role>> \in visit[v].held

(* A channel holds only sockets whose handshake verified them for this     *)
(* very organization, and no socket that closed after it was subscribed,   *)
(* whatever its session has been switched to.  A socket that closed while  *)
(* the handshake awaited is in the channel for good ("leaked").            *)
SubscribersVerified ==
  \A o \in Org : \A v \in channel[o] :
    /\ At(v, "subscribed") \/ At(v, "leaked")
    /\ visit[v].org = o

(* A membership of an existing organization changes only by a request of   *)
(* somebody who was an active ADMIN or OWNER of that organization during   *)
(* the request.  An ADMIN may change an OWNER (OwnersAmongThemselves).     *)
ManagedByManagers ==
  [][\A o \in Org, u \in User :
       members'[o][u] # members[o][u] /\ Exists(o) =>
         \E v \in Visit :
           /\ visit[v] # Nil /\ visit'[v] = Nil
           /\ \E role \in {"ADMIN", "OWNER"} : <<o, role>> \in visit[v].held]_vars

(* "ADMIN -- operational management (sites, cameras, rules, users except   *)
(* owners)": the membership of an owner changes only by a request of an    *)
(* owner.                                                                  *)
OwnersAmongThemselves ==
  [][\A o \in Org, u \in User :
       members[o][u] # Nil /\ members[o][u].role = "OWNER"
         /\ members'[o][u] # members[o][u] =>
         \E v \in Visit :
           /\ visit[v] # Nil /\ visit'[v] = Nil
           /\ <<o, "OWNER">> \in visit[v].held]_vars

(* "creates a user, a fresh organization, an OWNER membership, and a       *)
(* default TRIAL subscription -- all atomically".                          *)
SignUpAtomic ==
  \A u \in User :
    account[u] = "usable" =>
      \/ \E v \in Visit : visit[v] # Nil /\ visit[v].user = u
                          /\ visit[v].step \in {"created", "slugged"}
      \/ \E o \in Org : members[o][u] # Nil
=============================================================================
