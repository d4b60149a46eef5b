--------------------------- MODULE AccessProofs ---------------------------
(***************************************************************************)
(* What holds of access for any number of users, organizations, sessions,  *)
(* requests and sockets: nobody acts in an organization, or in a role,     *)
(* that was not theirs at some moment of the request or connection, and    *)
(* members are changed by managers only.  The session and the membership   *)
(* are read by different queries and used later; the invariant says what   *)
(* each step of a visit may still rely on.                                 *)
(***************************************************************************)
EXTENDS Access, TLAPS

(* The steps at which a visit has read its membership.                     *)
MemberSteps == {"authorized", "creating", "inviting", "subscribed", "leaked"}

VisitOk(r, ms) ==
  /\ RolesOf(r.user, ms) \subseteq r.held
  /\ r.step \notin MemberSteps => r.role = Nil
  /\ r.step \in MemberSteps => r.org \in Org /\ <<r.org, r.role>> \in r.held
  /\ r.step \in {"creating", "inviting"} =>
       r.role \in {"ADMIN", "OWNER"} /\ r.target \in User
  /\ r.step = "slugged" => r.target \in Nat
  /\ r.step = "switching" => r.target \in Org

AInv ==
  /\ TypeOK
  /\ \A v \in Visit : visit[v] # Nil => VisitOk(visit[v], members)
  /\ SubscribersVerified

-----------------------------------------------------------------------------
LEMMA Roles == Role = {"VIEWER", "OPERATOR", "ADMIN", "OWNER"}
  BY DEF Role, Rank

LEMMA Managers ==
  ASSUME NEW role \in Role, RoleAtLeast(role, MinRole["members:manage"])
  PROVE  role \in {"ADMIN", "OWNER"}
<1>1. /\ MinRole["members:manage"] = "ADMIN" /\ Rank["ADMIN"] = 2
      /\ Rank["VIEWER"] = 0 /\ Rank["OPERATOR"] = 1
  BY DEF MinRole, Rank
<1> QED
  BY <1>1, Roles DEF RoleAtLeast

LEMMA VisitFields ==
  ASSUME NEW r \in VisitRecord
  PROVE  /\ r.role \in Role \cup {Nil} /\ r.session \in Session \cup {Nil}
         /\ r.user \in User /\ r.org \in Org \cup {Nil} /\ r.step \in Step
         /\ r.target \in User \cup Org \cup Nat \cup {Nil}
         /\ r.held \subseteq Org \X Role
  BY DEF VisitRecord

(* A visit under way is a record that the invariant speaks of.             *)
LEMMA UnderWay ==
  ASSUME AInv, NEW v \in Visit, visit[v] # Nil
  PROVE  visit[v] \in VisitRecord /\ VisitOk(visit[v], members)
  BY DEF AInv, TypeOK

LEMMA RolesInScope ==
  ASSUME NEW u, NEW ms
  PROVE  RolesOf(u, ms) \subseteq Org \X Role
  BY DEF RolesOf

(* An active member's role is among the roles of the user.                 *)
LEMMA ActiveRole ==
  ASSUME AInv, NEW u \in User, NEW o \in Org \cup {Nil}, ActiveMembership(u, o)
  PROVE  /\ o \in Org /\ members[o][u].role \in Role
         /\ <<o, members[o][u].role>> \in RolesOf(u, members)
<1>1. o \in Org /\ members[o][u] \in Membership
  BY DEF ActiveMembership, Active, AInv, TypeOK
<1> DEFINE m == members[o][u]
<1>2. m.role \in Role /\ m.status = "ACTIVE" /\ m # Nil
  BY <1>1 DEF Membership, ActiveMembership, Active
<1>3. m = [role |-> m.role, status |-> "ACTIVE"]
  BY <1>1, <1>2 DEF Membership
<1>4. <<o, m.role>> \in Org \X Role
  BY <1>1, <1>2
<1> HIDE DEF m
<1> DEFINE pair == <<o, m.role>>
<1>5. pair[1] = o /\ pair[2] = m.role
  OBVIOUS
<1>6. members[pair[1]][u] # Nil
      /\ members[pair[1]][u] = [role |-> pair[2], status |-> "ACTIVE"]
  BY <1>2, <1>3, <1>5 DEF m
<1>7. pair \in RolesOf(u, members)
  BY <1>4, <1>6 DEF RolesOf
<1> QED
  BY <1>1, <1>2, <1>7 DEF m

LEMMA NewVisit ==
  ASSUME AInv, NEW u \in User,
         NEW step \in {"checked", "login", "resolved", "handshake"}
  PROVE  /\ New(u, step) \in VisitRecord /\ VisitOk(New(u, step), members)
         /\ New(u, step).step = step /\ New(u, step).user = u
<1> DEFINE r == New(u, step)
<1>1. /\ r.role = Nil /\ r.session = Nil /\ r.user = u /\ r.org = Nil
      /\ r.step = step /\ r.target = Nil /\ r.held = RolesOf(u, members)
      /\ r \in VisitRecord
  BY RolesInScope DEF New, VisitRecord, Step
<1> QED
  BY <1>1 DEF VisitOk, MemberSteps

(* The socket of a visit that is not subscribed is in no channel.          *)
LEMMA NotListening ==
  ASSUME AInv, NEW v \in Visit, ~At(v, "subscribed"), ~At(v, "leaked")
  PROVE  \A o \in Org : v \notin channel[o]
  BY DEF AInv, SubscribersVerified

(* A step of one visit that leaves the organizations and members alone.    *)
LEMMA OneVisit ==
  ASSUME AInv, NEW v \in Visit, NEW new, visit' = [visit EXCEPT ![v] = new],
         new # Nil => new \in VisitRecord /\ VisitOk(new, members),
         UNCHANGED <<slug, members>>,
         account' \in [User -> {"none", "unusable", "usable"}],
         session' \in [Session -> SessionRow \cup {Nil}],
         channel' \in [Org -> SUBSET Visit], changes' \in 0..MaxChanges,
         \A o \in Org : \A w \in channel'[o] :
           \/ w # v /\ w \in channel[o]
           \/ w = v /\ new # Nil /\ new.step \in {"subscribed", "leaked"} /\ new.org = o
  PROVE  AInv'
<1>1. \A w \in Visit : visit'[w] = IF w = v THEN new ELSE visit[w]
  BY DEF AInv, TypeOK
<1>2. TypeOK'
  <2>1. visit' = [w \in Visit |-> visit'[w]]
    BY DEF AInv, TypeOK
  <2>2. \A w \in Visit : visit'[w] = Nil \/ visit'[w] \in VisitRecord
    BY <1>1 DEF AInv, TypeOK
  <2> QED
    BY <2>1, <2>2 DEF AInv, TypeOK
<1>3. \A w \in Visit : visit'[w] # Nil => VisitOk(visit'[w], members')
  BY <1>1 DEF AInv
<1>4. SubscribersVerified'
  <2> SUFFICES ASSUME NEW o \in Org, NEW w \in channel'[o]
               PROVE  (At(w, "subscribed") \/ At(w, "leaked"))' /\ visit'[w].org = o
    BY DEF SubscribersVerified
  <2>1. w \in Visit
    BY <1>2 DEF TypeOK
  <2> QED
    BY <1>1, <2>1 DEF AInv, SubscribersVerified, At
<1> QED
  BY <1>2, <1>3, <1>4 DEF AInv

(* The same, for a visit without a subscribed socket.                      *)
LEMMA QuietVisit ==
  ASSUME AInv, NEW v \in Visit, NEW new, visit' = [visit EXCEPT ![v] = new],
         new # Nil => new \in VisitRecord /\ VisitOk(new, members),
         UNCHANGED <<slug, members, channel, changes>>,
         account' \in [User -> {"none", "unusable", "usable"}],
         session' \in [Session -> SessionRow \cup {Nil}],
         ~At(v, "subscribed"), ~At(v, "leaked")
  PROVE  AInv'
<1>1. \A o \in Org : v \notin channel'[o]
  BY NotListening
<1> QED
  BY <1>1, OneVisit DEF AInv, TypeOK

LEMMA EndVisit ==
  ASSUME AInv, NEW v \in Visit, End(v), UNCHANGED <<slug, members, channel, changes>>,
         account' \in [User -> {"none", "unusable", "usable"}],
         session' \in [Session -> SessionRow \cup {Nil}],
         ~At(v, "subscribed"), ~At(v, "leaked")
  PROVE  AInv'
  BY QuietVisit DEF End

(* What a visit has to know to go on, in the state where it does.          *)
LEMMA NextStep ==
  ASSUME AInv, NEW v \in Visit, NEW step \in Step \ MemberSteps,
         NEW target \in User \cup Org \cup Nat \cup {Nil},
         NEW r, r = visit[v], r # Nil, r.step \notin MemberSteps,
         step = "slugged" => target \in Nat, step = "switching" => target \in Org
  PROVE  LET new == [r EXCEPT !.step = step, !.target = target] IN
         new \in VisitRecord /\ VisitOk(new, members)
<1> DEFINE new == [r EXCEPT !.step = step, !.target = target]
<1>1. r \in VisitRecord /\ VisitOk(r, members)
  BY UnderWay
<1>2. /\ new \in VisitRecord /\ new.user = r.user /\ new.held = r.held
      /\ new.role = r.role /\ new.org = r.org /\ new.step = step
      /\ new.target = target
  BY <1>1 DEF VisitRecord
<1> HIDE DEF new
<1>3. VisitOk(new, members)
  BY <1>1, <1>2 DEF VisitOk, MemberSteps
<1> QED
  BY <1>2, <1>3 DEF new

-----------------------------------------------------------------------------
LEMMA SignUpStep ==
  ASSUME AInv, NEW v \in Visit, NEW u \in User, SignUp(v, u)
  PROVE  AInv'
<1> DEFINE new == New(u, "checked")
<1>1. new \in VisitRecord /\ VisitOk(new, members)
  BY NewVisit
<1>2. visit' = [visit EXCEPT ![v] = new] /\ visit[v] = Nil
      /\ UNCHANGED <<account, slug, members, session, channel, changes>>
  BY DEF SignUp, Begin
<1> HIDE DEF new
<1> QED
  BY <1>1, <1>2, QuietVisit DEF AInv, TypeOK, At

LEMMA CreateUserStep ==
  ASSUME AInv, NEW v \in Visit, CreateUser(v)
  PROVE  AInv'
<1> DEFINE r == visit[v]
           u == r.user
<1>1. r # Nil /\ r.step = "checked" /\ r \in VisitRecord
  BY UnderWay DEF CreateUser, At
<1>2. CASE account[u] = "none"
  <2> DEFINE new == [r EXCEPT !.step = "created"]
         with == [r EXCEPT !.step = "created", !.target = r.target]
  <2>1. new = with
    BY <1>1 DEF VisitRecord
  <2>2. with \in VisitRecord /\ VisitOk(with, members)
    <3>1. r.target \in User \cup Org \cup Nat \cup {Nil}
      BY <1>1, VisitFields
    <3> QED
      BY <1>1, <3>1, NextStep DEF Step, MemberSteps
  <2> HIDE DEF with
  <2>3. /\ visit' = [visit EXCEPT ![v] = new]
        /\ account' = [account EXCEPT ![u] = "usable"]
        /\ UNCHANGED <<slug, members, session, channel, changes>>
    BY <1>2 DEF CreateUser, Proceed
  <2> HIDE DEF new
  <2> QED
    BY <1>1, <2>1, <2>2, <2>3, QuietVisit DEF AInv, TypeOK, At
<1>3. CASE account[u] # "none"
  BY <1>1, <1>3, EndVisit DEF CreateUser, AInv, TypeOK, At
<1> QED
  BY <1>2, <1>3

LEMMA PickSlugStep ==
  ASSUME AInv, NEW v \in Visit, PickSlug(v)
  PROVE  AInv'
<1> DEFINE r == visit[v]
<1>1. r # Nil /\ r.step = "created" /\ r \in VisitRecord
  BY UnderWay DEF PickSlug, At
<1>2. PICK n \in 1..(Cardinality(Org) + 1) :
        Proceed(v, [r EXCEPT !.step = "slugged", !.target = n])
  BY DEF PickSlug
<1>3. n \in Nat
  OBVIOUS
<1> DEFINE new == [r EXCEPT !.step = "slugged", !.target = n]
<1>4. new \in VisitRecord /\ VisitOk(new, members)
  BY <1>1, <1>3, NextStep DEF Step, MemberSteps
<1>5. visit' = [visit EXCEPT ![v] = new]
      /\ UNCHANGED <<account, slug, members, session, channel, changes>>
  BY <1>2 DEF PickSlug, Proceed
<1> HIDE DEF new
<1> QED
  BY <1>1, <1>4, <1>5, QuietVisit DEF AInv, TypeOK, At

LEMMA LoginStep ==
  ASSUME AInv, NEW v \in Visit, NEW u \in User, Login(v, u)
  PROVE  AInv'
<1>1. PICK o \in Org \cup {Nil} : Begin(v, [New(u, "login") EXCEPT !.org = o])
  BY DEF Login
<1> DEFINE r == New(u, "login")
           new == [r EXCEPT !.org = o]
<1>2. r \in VisitRecord /\ VisitOk(r, members) /\ r.step = "login"
  BY NewVisit
<1> HIDE DEF r
<1>3. new \in VisitRecord /\ new.step = "login" /\ new.role = r.role
      /\ new.user = r.user /\ new.held = r.held
  BY <1>2 DEF VisitRecord
<1>4. visit' = [visit EXCEPT ![v] = new] /\ visit[v] = Nil
      /\ UNCHANGED <<account, slug, members, session, channel, changes>>
  BY <1>1 DEF Login, Begin, r
<1> HIDE DEF new
<1>5. VisitOk(new, members)
  BY <1>2, <1>3 DEF VisitOk, MemberSteps
<1> QED
  BY <1>3, <1>4, <1>5, QuietVisit DEF AInv, TypeOK, At

LEMMA CreateSessionStep ==
  ASSUME AInv, NEW v \in Visit, CreateSession(v)
  PROVE  AInv'
<1> DEFINE r == visit[v]
<1>1. r # Nil /\ r.step \in {"login", "joined"} /\ r \in VisitRecord
  BY UnderWay DEF CreateSession, At
<1>2. PICK s \in Session :
        session' = [session EXCEPT ![s] = [user |-> r.user, org |-> r.org]]
  BY DEF CreateSession
<1>3. [user |-> r.user, org |-> r.org] \in SessionRow
  BY <1>1, VisitFields DEF SessionRow
<1>4. session' \in [Session -> SessionRow \cup {Nil}]
  BY <1>2, <1>3 DEF AInv, TypeOK
<1> QED
  BY <1>1, <1>4, EndVisit DEF CreateSession, AInv, TypeOK, At

LEMMA ResolveStep ==
  ASSUME AInv, NEW v \in Visit, NEW s \in Session, Resolve(v, s)
  PROVE  AInv'
<1> DEFINE u == session[s].user
           o == session[s].org
<1>1. PICK step \in {"resolved", "handshake"} :
        Begin(v, [New(u, step) EXCEPT !.session = s, !.org = o])
  BY DEF Resolve
<1>2. u \in User /\ o \in Org \cup {Nil}
  BY DEF Resolve, AInv, TypeOK, SessionRow
<1> HIDE DEF u, o
<1> DEFINE r == New(u, step)
           new == [r EXCEPT !.session = s, !.org = o]
<1>3. r \in VisitRecord /\ VisitOk(r, members) /\ r.step = step
  BY <1>2, NewVisit
<1> HIDE DEF r
<1>4. new \in VisitRecord /\ new.step = step /\ new.role = r.role
      /\ new.user = r.user /\ new.held = r.held
  BY <1>2, <1>3 DEF VisitRecord
<1>5. visit' = [visit EXCEPT ![v] = new] /\ visit[v] = Nil
      /\ UNCHANGED <<account, slug, members, session, channel, changes>>
  BY <1>1 DEF Resolve, Begin, r
<1> HIDE DEF new
<1>6. VisitOk(new, members)
  BY <1>3, <1>4 DEF VisitOk, MemberSteps
<1> QED
  BY <1>4, <1>5, <1>6, QuietVisit DEF AInv, TypeOK, At

LEMMA ExpireStep ==
  ASSUME AInv, NEW s \in Session, Expire(s)
  PROVE  AInv'
<1>1. TypeOK'
  BY DEF Expire, AInv, TypeOK
<1> QED
  BY <1>1 DEF Expire, AInv, SubscribersVerified, At

-----------------------------------------------------------------------------
(* Requests between their session and their work. *)

LEMMA ReadMembershipStep ==
  ASSUME AInv, NEW v \in Visit, ReadMembership(v)
  PROVE  AInv'
<1> DEFINE r == visit[v]
           role == members[r.org][r.user].role
           new == [r EXCEPT !.step = "authorized", !.role = role]
<1>1. r # Nil /\ r.step = "resolved" /\ r \in VisitRecord /\ VisitOk(r, members)
  BY UnderWay DEF ReadMembership, At
<1>2. CASE ActiveMembership(r.user, r.org)
  <2>1. /\ r.org \in Org /\ role \in Role
        /\ <<r.org, role>> \in RolesOf(r.user, members)
    BY <1>1, <1>2, VisitFields, ActiveRole
  <2>2. visit' = [visit EXCEPT ![v] = new]
        /\ UNCHANGED <<account, slug, members, session, channel, changes>>
    BY <1>2 DEF ReadMembership, Proceed
  <2> HIDE DEF role
  <2>3. /\ new \in VisitRecord /\ new.step = "authorized" /\ new.role = role
        /\ new.user = r.user /\ new.held = r.held /\ new.org = r.org
    BY <1>1, <2>1 DEF VisitRecord, Step
  <2> HIDE DEF new
  <2>4. VisitOk(new, members)
    BY <1>1, <2>1, <2>3 DEF VisitOk, MemberSteps
  <2> QED
    BY <1>1, <2>2, <2>3, <2>4, QuietVisit DEF AInv, TypeOK, At
<1>3. CASE ~ActiveMembership(r.user, r.org)
  BY <1>1, <1>3, EndVisit DEF ReadMembership, AInv, TypeOK, At
<1> QED
  BY <1>2, <1>3

LEMMA UseStep ==
  ASSUME AInv, NEW v \in Visit, Use(v)
  PROVE  AInv'
  BY EndVisit DEF Use, AInv, TypeOK, At

LEMMA LogoutStep ==
  ASSUME AInv, NEW v \in Visit, Logout(v)
  PROVE  AInv'
<1>1. session' \in [Session -> SessionRow \cup {Nil}]
  BY DEF Logout, AInv, TypeOK
<1> QED
  BY <1>1, EndVisit DEF Logout, AInv, TypeOK, At

LEMMA SwitchOrgStep ==
  ASSUME AInv, NEW v \in Visit, NEW o \in Org, SwitchOrg(v, o)
  PROVE  AInv'
<1> DEFINE r == visit[v]
           new == [r EXCEPT !.step = "switching", !.target = o]
<1>1. r # Nil /\ r.step = "resolved" /\ r \in VisitRecord
  BY UnderWay DEF SwitchOrg, At
<1>2. CASE ActiveMembership(r.user, o)
  <2>1. new \in VisitRecord /\ VisitOk(new, members)
    BY <1>1, NextStep DEF Step, MemberSteps
  <2>2. visit' = [visit EXCEPT ![v] = new]
        /\ UNCHANGED <<account, slug, members, session, channel, changes>>
    BY <1>2 DEF SwitchOrg, Proceed
  <2> HIDE DEF new
  <2> QED
    BY <1>1, <2>1, <2>2, QuietVisit DEF AInv, TypeOK, At
<1>3. CASE ~ActiveMembership(r.user, o)
  BY <1>1, <1>3, EndVisit DEF SwitchOrg, AInv, TypeOK, At
<1> QED
  BY <1>2, <1>3

LEMMA SetActiveOrgStep ==
  ASSUME AInv, NEW v \in Visit, SetActiveOrg(v)
  PROVE  AInv'
<1> DEFINE r == visit[v]
           s == r.session
<1>1. r # Nil /\ r.step = "switching" /\ r.target \in Org
  BY UnderWay DEF SetActiveOrg, At, VisitOk
<1>2. session' = [session EXCEPT ![s] =
        IF session[s] = Nil THEN Nil ELSE [session[s] EXCEPT !.org = r.target]]
  BY DEF SetActiveOrg
<1>3. s \in Session /\ session[s] # Nil =>
        [session[s] EXCEPT !.org = r.target] \in SessionRow
  BY <1>1 DEF AInv, TypeOK, SessionRow
<1> HIDE DEF s
<1>4. session' \in [Session -> SessionRow \cup {Nil}]
  BY <1>2, <1>3 DEF AInv, TypeOK
<1> QED
  BY <1>1, <1>4, EndVisit DEF SetActiveOrg, AInv, TypeOK, At

LEMMA FailStep ==
  ASSUME AInv, NEW v \in Visit, Fail(v)
  PROVE  AInv'
  BY EndVisit DEF Fail, AInv, TypeOK, At

-----------------------------------------------------------------------------
(* Members. *)

LEMMA PermittedVisit ==
  ASSUME AInv, NEW v \in Visit, Permitted(v, "members:manage")
  PROVE  LET r == visit[v] IN
         /\ r # Nil /\ r \in VisitRecord /\ VisitOk(r, members)
         /\ r.step = "authorized" /\ r.org \in Org
         /\ r.role \in {"ADMIN", "OWNER"} /\ <<r.org, r.role>> \in r.held
<1> DEFINE r == visit[v]
<1>1. r # Nil /\ r.step = "authorized" /\ r \in VisitRecord /\ VisitOk(r, members)
  BY UnderWay DEF Permitted, At
<1>2. r.org \in Org /\ <<r.org, r.role>> \in r.held
  BY <1>1 DEF VisitOk, MemberSteps
<1>3. r.role \in Role
  BY <1>1, <1>2, VisitFields
<1>4. r.role \in {"ADMIN", "OWNER"}
  BY <1>3, Managers DEF Permitted
<1> QED
  BY <1>1, <1>2, <1>4

LEMMA InviteStep ==
  ASSUME AInv, NEW v \in Visit, NEW u \in User, Invite(v, u)
  PROVE  AInv'
<1> DEFINE r == visit[v]
           step == IF account[u] = "none" THEN "creating" ELSE "inviting"
           new == [r EXCEPT !.target = u, !.step = step]
<1>1. /\ r # Nil /\ r \in VisitRecord /\ VisitOk(r, members)
      /\ r.step = "authorized" /\ r.org \in Org
      /\ r.role \in {"ADMIN", "OWNER"} /\ <<r.org, r.role>> \in r.held
  BY PermittedVisit DEF Invite
<1>2. visit' = [visit EXCEPT ![v] = new]
      /\ UNCHANGED <<account, slug, members, session, channel, changes>>
  BY DEF Invite, Proceed
<1>3. step \in {"creating", "inviting"}
  OBVIOUS
<1> HIDE DEF step
<1>4. /\ new \in VisitRecord /\ new.step = step /\ new.role = r.role
      /\ new.user = r.user /\ new.held = r.held /\ new.org = r.org /\ new.target = u
  BY <1>1, <1>3 DEF VisitRecord, Step
<1> HIDE DEF new
<1>5. VisitOk(new, members)
  BY <1>1, <1>3, <1>4 DEF VisitOk, MemberSteps
<1> QED
  BY <1>1, <1>2, <1>4, <1>5, QuietVisit DEF AInv, TypeOK, At

LEMMA CreateInviteeStep ==
  ASSUME AInv, NEW v \in Visit, CreateInvitee(v)
  PROVE  AInv'
<1> DEFINE r == visit[v]
           u == r.target
           new == [r EXCEPT !.step = "inviting"]
<1>1. /\ r # Nil /\ r.step = "creating" /\ r \in VisitRecord
      /\ VisitOk(r, members)
  BY UnderWay DEF CreateInvitee, At
<1>2. CASE account[u] = "none"
  <2>1. /\ visit' = [visit EXCEPT ![v] = new]
        /\ account' = [account EXCEPT ![u] = "unusable"]
        /\ UNCHANGED <<slug, members, session, channel, changes>>
    BY <1>2 DEF CreateInvitee, Proceed
  <2>2. /\ new \in VisitRecord /\ new.step = "inviting" /\ new.role = r.role
        /\ new.user = r.user /\ new.held = r.held /\ new.org = r.org
        /\ new.target = u
    BY <1>1 DEF VisitRecord, Step
  <2> HIDE DEF new
  <2>3. VisitOk(new, members)
    BY <1>1, <2>2 DEF VisitOk, MemberSteps
  <2>4. account' \in [User -> {"none", "unusable", "usable"}]
    BY <2>1 DEF AInv, TypeOK
  <2> QED
    BY <1>1, <2>1, <2>2, <2>3, <2>4, QuietVisit DEF AInv, TypeOK, At
<1>3. CASE account[u] # "none"
  BY <1>1, <1>3, EndVisit DEF CreateInvitee, AInv, TypeOK, At
<1> QED
  BY <1>2, <1>3

(* A visit that is told of new members still knows what it may rely on.    *)
LEMMA Reminded ==
  ASSUME NEW r \in VisitRecord, VisitOk(r, members), NEW ms
  PROVE  LET new == [r EXCEPT !.held = r.held \cup RolesOf(r.user, ms)] IN
         /\ new \in VisitRecord /\ VisitOk(new, ms)
         /\ new.step = r.step /\ new.org = r.org
<1> DEFINE held == r.held \cup RolesOf(r.user, ms)
           new == [r EXCEPT !.held = held]
<1>1. held \in SUBSET (Org \X Role)
  BY VisitFields, RolesInScope
<1>2. r.held \subseteq held /\ RolesOf(r.user, ms) \subseteq held
  OBVIOUS
<1> HIDE DEF held
<1>3. /\ new \in VisitRecord /\ new.step = r.step /\ new.role = r.role
      /\ new.user = r.user /\ new.held = held /\ new.org = r.org
      /\ new.target = r.target
  BY <1>1 DEF VisitRecord
<1> HIDE DEF new
<1>4. VisitOk(new, ms)
  BY <1>2, <1>3 DEF VisitOk
<1> QED
  BY <1>3, <1>4 DEF new, held

(* A step of one visit that changes the members.                           *)
LEMMA MembersStep ==
  ASSUME AInv, NEW v \in Visit, NEW new,
         new # Nil => new \in VisitRecord /\ VisitOk(new, members),
         visit' = Remember([visit EXCEPT ![v] = new], members'),
         ~At(v, "subscribed"), ~At(v, "leaked"),
         members' \in [Org -> [User -> Membership \cup {Nil}]],
         slug' \in [Org -> Nat \cup {Nil}],
         changes' \in 0..MaxChanges, UNCHANGED <<account, session, channel>>
  PROVE  AInv'
<1> DEFINE visits == [visit EXCEPT ![v] = new]
<1>1. \A w \in Visit : visits[w] = IF w = v THEN new ELSE visit[w]
  BY DEF AInv, TypeOK
<1>2. \A w \in Visit : visits[w] # Nil =>
                         visits[w] \in VisitRecord /\ VisitOk(visits[w], members)
  BY <1>1, UnderWay
<1>3. visit' = [w \in Visit |->
        IF visits[w] = Nil THEN Nil
        ELSE [visits[w] EXCEPT !.held =
                visits[w].held \cup RolesOf(visits[w].user, members')]]
  BY DEF Remember
<1> HIDE DEF visits
<1>4. ASSUME NEW w \in Visit
      PROVE  /\ visits[w] = Nil => visit'[w] = Nil
             /\ visits[w] # Nil =>
                  /\ visit'[w] \in VisitRecord /\ VisitOk(visit'[w], members')
                  /\ visit'[w].step = visits[w].step
                  /\ visit'[w].org = visits[w].org
  <2>1. CASE visits[w] = Nil
    BY <1>3, <2>1
  <2>2. CASE visits[w] # Nil
    <3> DEFINE r == visits[w]
    <3>1. r \in VisitRecord /\ VisitOk(r, members)
      BY <1>2, <2>2
    <3>2. visit'[w] = [r EXCEPT !.held = r.held \cup RolesOf(r.user, members')]
      BY <1>3, <2>2
    <3> HIDE DEF r
    <3>3. PICK ms : ms = members'
      OBVIOUS
    <3> DEFINE reminded == [r EXCEPT !.held = r.held \cup RolesOf(r.user, ms)]
    <3>4. /\ reminded \in VisitRecord /\ VisitOk(reminded, ms)
          /\ reminded.step = r.step /\ reminded.org = r.org
      BY <3>1, Reminded
    <3>5. visit'[w] = reminded
      BY <3>2, <3>3
    <3> HIDE DEF reminded
    <3>6. /\ visit'[w] \in VisitRecord /\ VisitOk(visit'[w], members')
          /\ visit'[w].step = r.step /\ visit'[w].org = r.org
      BY <3>3, <3>4, <3>5
    <3> QED
      BY <2>2, <3>6 DEF r
  <2> QED
    BY <2>1, <2>2
<1>5. TypeOK'
  <2>1. visit' = [w \in Visit |-> visit'[w]]
    BY <1>3
  <2>2. \A w \in Visit : visit'[w] = Nil \/ visit'[w] \in VisitRecord
    BY <1>4
  <2> QED
    BY <2>1, <2>2 DEF AInv, TypeOK
<1>6. \A w \in Visit : visit'[w] # Nil => VisitOk(visit'[w], members')
  BY <1>4
<1>7. SubscribersVerified'
  <2> SUFFICES ASSUME NEW o \in Org, NEW w \in channel'[o]
               PROVE  (At(w, "subscribed") \/ At(w, "leaked"))' /\ visit'[w].org = o
    BY DEF SubscribersVerified
  <2>1. w \in Visit /\ w # v
    BY NotListening DEF AInv, TypeOK
  <2>2. (At(w, "subscribed") \/ At(w, "leaked")) /\ visit[w].org = o
    BY DEF AInv, SubscribersVerified
  <2>3. visits[w] # Nil /\ visits[w] = visit[w]
    BY <1>1, <2>1, <2>2 DEF At
  <2>4. /\ visit'[w] \in VisitRecord /\ visit'[w].step = visit[w].step
        /\ visit'[w].org = visit[w].org
    BY <1>4, <2>1, <2>3
  <2> QED
    BY <2>2, <2>4, NilAssumption DEF At
<1> QED
  BY <1>5, <1>6, <1>7 DEF AInv

LEMMA SetMemberStep ==
  ASSUME AInv, NEW v \in Visit, NEW o \in Org, NEW u \in User,
         NEW membership \in Membership \cup {Nil}, SetMember(v, o, u, membership),
         ~At(v, "subscribed"), ~At(v, "leaked")
  PROVE  AInv'
<1>1. members' \in [Org -> [User -> Membership \cup {Nil}]]
  BY DEF SetMember, AInv, TypeOK
<1>2. changes' \in 0..MaxChanges
  BY AccessConstants DEF SetMember, AInv, TypeOK
<1>3. slug' \in [Org -> Nat \cup {Nil}]
  BY DEF SetMember, AInv, TypeOK
<1>4. visit' = Remember([visit EXCEPT ![v] = Nil], members')
      /\ UNCHANGED <<account, session, channel>>
  BY DEF SetMember
<1> QED
  BY <1>1, <1>2, <1>3, <1>4, MembersStep

LEMMA AddMemberStep ==
  ASSUME AInv, NEW v \in Visit, AddMember(v)
  PROVE  AInv'
<1> DEFINE r == visit[v]
<1>1. r # Nil /\ r.step = "inviting" /\ VisitOk(r, members)
  BY UnderWay DEF AddMember, At
<1>2. r.org \in Org /\ r.target \in User
  BY <1>1 DEF VisitOk, MemberSteps
<1>3. PICK role \in RoleChoice :
        SetMember(v, r.org, r.target, [role |-> role, status |-> "INVITED"])
  BY DEF AddMember
<1>4. [role |-> role, status |-> "INVITED"] \in Membership
  BY AccessConstants DEF Membership
<1> QED
  BY <1>1, <1>2, <1>3, <1>4, SetMemberStep DEF At

LEMMA ChangeMemberStep ==
  ASSUME AInv, NEW v \in Visit, NEW u \in User, ChangeMember(v, u)
  PROVE  AInv'
<1> DEFINE o == visit[v].org
           statuses == {"ACTIVE", "INVITED", "SUSPENDED"}
<1>1. o \in Org /\ visit[v].step = "authorized"
  BY PermittedVisit DEF ChangeMember
<1>2. members[o][u] \in Membership
  BY <1>1 DEF ChangeMember, AInv, TypeOK
<1>3. PICK m \in [role : RoleChoice \cup {members[o][u].role}, status : statuses] :
        SetMember(v, o, u, m)
  BY DEF ChangeMember
<1>4. m \in Membership
  BY <1>2, <1>3, AccessConstants DEF Membership
<1> QED
  BY <1>1, <1>3, <1>4, SetMemberStep DEF At

LEMMA RemoveMemberStep ==
  ASSUME AInv, NEW v \in Visit, NEW u \in User, RemoveMember(v, u)
  PROVE  AInv'
<1>1. visit[v].org \in Org /\ visit[v].step = "authorized"
  BY PermittedVisit DEF RemoveMember
<1> QED
  BY <1>1, SetMemberStep DEF RemoveMember, At

LEMMA CreateOrganizationStep ==
  ASSUME AInv, NEW v \in Visit, CreateOrganization(v)
  PROVE  AInv'
<1> DEFINE r == visit[v]
           n == r.target
<1>1. r # Nil /\ r.step = "slugged" /\ r \in VisitRecord /\ VisitOk(r, members)
  BY UnderWay DEF CreateOrganization, At
<1>2. n \in Nat /\ r.user \in User
  BY <1>1, VisitFields DEF VisitOk
<1>3. CASE Free(n)
  <2>1. PICK o \in Org :
          /\ slug' = [slug EXCEPT ![o] = n]
          /\ members' = [members EXCEPT ![o][r.user] =
                           [role |-> "OWNER", status |-> "ACTIVE"]]
          /\ visit' = Remember([visit EXCEPT ![v] =
               [r EXCEPT !.step = "joined", !.org = o, !.target = Nil]], members')
    BY <1>3 DEF CreateOrganization
  <2> DEFINE new == [r EXCEPT !.step = "joined", !.org = o, !.target = Nil]
  <2>2. /\ new \in VisitRecord /\ new.step = "joined" /\ new.role = r.role
        /\ new.user = r.user /\ new.held = r.held
    BY <1>1 DEF VisitRecord, Step
  <2>3. visit' = Remember([visit EXCEPT ![v] = new], members')
    BY <2>1
  <2> HIDE DEF new
  <2>4. VisitOk(new, members)
    BY <1>1, <2>2 DEF VisitOk, MemberSteps
  <2>5. [role |-> "OWNER", status |-> "ACTIVE"] \in Membership
    BY Roles DEF Membership
  <2>6. members' \in [Org -> [User -> Membership \cup {Nil}]]
    BY <1>2, <2>1, <2>5 DEF AInv, TypeOK
  <2>7. slug' \in [Org -> Nat \cup {Nil}]
    BY <1>2, <1>3, <2>1 DEF AInv, TypeOK
  <2>8. changes' \in 0..MaxChanges /\ UNCHANGED <<account, session, channel>>
    BY DEF CreateOrganization, AInv, TypeOK
  <2> QED
    BY <1>1, <2>2, <2>3, <2>4, <2>6, <2>7, <2>8, MembersStep DEF At
<1>4. CASE ~Free(n)
  BY <1>1, <1>4, EndVisit DEF CreateOrganization, AInv, TypeOK, At
<1> QED
  BY <1>3, <1>4

-----------------------------------------------------------------------------
(* Sockets. *)

LEMMA SubscribeStep ==
  ASSUME AInv, NEW v \in Visit, Subscribe(v)
  PROVE  AInv'
<1> DEFINE r == visit[v]
           o == r.org
           role == members[o][r.user].role
           step == IF r.step = "handshake" THEN "subscribed" ELSE "leaked"
           new == [r EXCEPT !.role = role, !.step = step]
<1>1. /\ r # Nil /\ r.step \in {"handshake", "aborted"} /\ r \in VisitRecord
      /\ VisitOk(r, members)
  BY UnderWay DEF Subscribe, At
<1>2. CASE ActiveMembership(r.user, o)
  <2>1. o \in Org /\ role \in Role /\ <<o, role>> \in RolesOf(r.user, members)
    BY <1>1, <1>2, VisitFields, ActiveRole
  <2>2. /\ visit' = [visit EXCEPT ![v] = new]
        /\ channel' = [channel EXCEPT ![o] = channel[o] \cup {v}]
        /\ UNCHANGED <<account, slug, members, session, changes>>
    BY <1>2 DEF Subscribe, Proceed
  <2>3. step \in {"subscribed", "leaked"}
    OBVIOUS
  <2> HIDE DEF role, step
  <2>4. /\ new \in VisitRecord /\ new.step = step /\ new.role = role
        /\ new.user = r.user /\ new.held = r.held /\ new.org = o
    BY <1>1, <2>1, <2>3 DEF VisitRecord, Step
  <2>5. new # Nil
    BY <2>4, NilAssumption
  <2> HIDE DEF new, o, r
  <2>6. VisitOk(new, members)
    BY <1>1, <2>1, <2>3, <2>4 DEF VisitOk, MemberSteps, o
  <2>7. channel' \in [Org -> SUBSET Visit]
    BY <2>1, <2>2 DEF AInv, TypeOK
  <2>8. ASSUME NEW p \in Org, NEW w \in channel'[p]
        PROVE  \/ w # v /\ w \in channel[p]
               \/ w = v /\ new # Nil /\ new.step \in {"subscribed", "leaked"}
                  /\ new.org = p
    <3>1. v \notin channel[p]
      BY <1>1, NotListening DEF At, r
    <3>2. channel'[p] = IF p = o THEN channel[o] \cup {v} ELSE channel[p]
      BY <2>2 DEF AInv, TypeOK
    <3> QED
      BY <2>3, <2>4, <2>5, <3>1, <3>2
  <2>9. /\ account' \in [User -> {"none", "unusable", "usable"}]
        /\ session' \in [Session -> SessionRow \cup {Nil}]
        /\ changes' \in 0..MaxChanges
    BY <2>2 DEF AInv, TypeOK
  <2> QED
    BY ZenonT(30), <2>2, <2>4, <2>6, <2>7, <2>8, <2>9, OneVisit
<1>3. CASE ~ActiveMembership(r.user, o)
  BY <1>1, <1>3, EndVisit DEF Subscribe, AInv, TypeOK, At
<1> QED
  BY <1>2, <1>3

LEMMA CloseSocketStep ==
  ASSUME AInv, NEW v \in Visit, CloseSocket(v)
  PROVE  AInv'
<1> DEFINE r == visit[v]
           new == [r EXCEPT !.step = "aborted"]
<1>1. /\ r # Nil /\ r.step \in {"handshake", "subscribed"} /\ r \in VisitRecord
      /\ VisitOk(r, members)
  BY UnderWay DEF CloseSocket, At
<1>2. CASE At(v, "handshake")
  <2>1. visit' = [visit EXCEPT ![v] = new]
        /\ UNCHANGED <<account, slug, members, session, channel, changes>>
    BY <1>2 DEF CloseSocket, Proceed
  <2>2. /\ new \in VisitRecord /\ new.step = "aborted" /\ new.role = r.role
        /\ new.user = r.user /\ new.held = r.held
    BY <1>1 DEF VisitRecord, Step
  <2> HIDE DEF new
  <2>3. VisitOk(new, members)
    BY <1>1, <1>2, <2>2 DEF VisitOk, MemberSteps, At
  <2> QED
    BY <1>2, <2>1, <2>2, <2>3, QuietVisit DEF AInv, TypeOK, At
<1>3. CASE ~At(v, "handshake")
  <2>1. /\ visit' = [visit EXCEPT ![v] = Nil]
        /\ channel' = [o \in Org |-> channel[o] \ {v}]
        /\ UNCHANGED <<account, slug, members, session, changes>>
    BY <1>3 DEF CloseSocket, End
  <2>2. channel' \in [Org -> SUBSET Visit]
    BY <2>1 DEF AInv, TypeOK
  <2>3. \A o \in Org : \A w \in channel'[o] : w # v /\ w \in channel[o]
    BY <2>1
  <2>4. /\ account' \in [User -> {"none", "unusable", "usable"}]
        /\ session' \in [Session -> SessionRow \cup {Nil}]
        /\ changes' \in 0..MaxChanges
    BY <2>1 DEF AInv, TypeOK
  <2> QED
    BY <2>1, <2>2, <2>3, <2>4, OneVisit
<1> QED
  BY <1>2, <1>3

LEMMA RestartStep ==
  ASSUME AInv, Restart
  PROVE  AInv'
<1>1. TypeOK'
  BY DEF Restart, AInv, TypeOK
<1> QED
  BY <1>1 DEF Restart, AInv, SubscribersVerified

-----------------------------------------------------------------------------
LEMMA Initially == Init => AInv
<1> SUFFICES ASSUME Init PROVE AInv
  OBVIOUS
<1>1. TypeOK
  BY AccessConstants DEF Init, TypeOK
<1> QED
  BY <1>1 DEF Init, AInv, SubscribersVerified

LEMMA Inductive == AInv /\ [Next]_vars => AInv'
<1> SUFFICES ASSUME AInv, [Next]_vars PROVE AInv'
  OBVIOUS
<1>1. CASE Restart \/ \E s \in Session : Expire(s)
  BY <1>1, RestartStep, ExpireStep
<1>2. CASE \E v \in Visit, u \in User :
             SignUp(v, u) \/ Login(v, u) \/ Invite(v, u)
             \/ ChangeMember(v, u) \/ RemoveMember(v, u)
  BY <1>2, SignUpStep, LoginStep, InviteStep, ChangeMemberStep, RemoveMemberStep
<1>3. CASE \E v \in Visit :
             \/ CreateUser(v) \/ PickSlug(v) \/ CreateOrganization(v)
             \/ CreateSession(v) \/ ReadMembership(v) \/ Use(v) \/ Logout(v)
  BY <1>3, CreateUserStep, PickSlugStep, CreateOrganizationStep, CreateSessionStep,
     ReadMembershipStep, UseStep, LogoutStep
<1>4. CASE \E v \in Visit :
             \/ SetActiveOrg(v) \/ CreateInvitee(v) \/ AddMember(v) \/ Fail(v)
             \/ Subscribe(v) \/ CloseSocket(v)
  BY <1>4, SetActiveOrgStep, CreateInviteeStep, AddMemberStep, FailStep,
     SubscribeStep, CloseSocketStep
<1>5. CASE \E v \in Visit : \/ \E s \in Session : Resolve(v, s)
                            \/ \E o \in Org : SwitchOrg(v, o)
  BY <1>5, ResolveStep, SwitchOrgStep
<1>6. CASE UNCHANGED vars
  <2>1. TypeOK'
    BY <1>6 DEF vars, AInv, TypeOK
  <2>2. \A v \in Visit : visit'[v] # Nil => VisitOk(visit'[v], members')
    BY <1>6 DEF vars, AInv
  <2> QED
    BY <1>6, <2>1, <2>2 DEF vars, AInv, SubscribersVerified, At
<1> QED
  BY <1>1, <1>2, <1>3, <1>4, <1>5, <1>6 DEF Next

(* What every visit under way may rely on, whatever administrators,        *)
(* sessions and other visits do between its queries.                       *)
THEOREM AccessInvariance == Spec => []AInv
  BY Initially, Inductive, PTL DEF Spec

(* Every variable has the type the schema and the routes give it.          *)
THEOREM AccessTypes == Spec => []TypeOK
<1>1. AInv => TypeOK
  BY DEF AInv
<1> QED
  BY <1>1, AccessInvariance, PTL

(* Who acts in an organization, or hears of it, was an active member of it *)
(* in that role during the request or connection (authenticate,            *)
(* requireOrganizationMembership, the handshake of ws.ts).                 *)
THEOREM VisitorsWereMembers == Spec => []VisitsWereMembers
<1>1. ASSUME AInv, NEW v \in Visit, visit[v] # Nil, visit[v].role # Nil
      PROVE  <<visit[v].org, visit[v].role>> \in visit[v].held
  BY <1>1, UnderWay DEF VisitOk
<1>2. AInv => VisitsWereMembers
  BY <1>1 DEF VisitsWereMembers
<1> QED
  BY <1>2, AccessInvariance, PTL

(* The hub sends an organization's messages only to sockets verified for   *)
(* it, and to none that closed after it was subscribed (unsubscribeAll on  *)
(* close).  Those closed during their handshake stay in the channel.       *)
THEOREM HubIsClean == Spec => []SubscribersVerified
<1>1. AInv => SubscribersVerified
  BY DEF AInv
<1> QED
  BY <1>1, AccessInvariance, PTL

-----------------------------------------------------------------------------
(* Members change by managers. *)

LEMMA OnlyManagers ==
  ASSUME AInv, [Next]_vars, NEW o \in Org, NEW u \in User,
         members'[o][u] # members[o][u], Exists(o)
  PROVE  \E v \in Visit :
           /\ visit[v] # Nil /\ visit'[v] = Nil
           /\ \E role \in {"ADMIN", "OWNER"} : <<o, role>> \in visit[v].held
<1>1. ASSUME NEW v \in Visit, NEW p \in Org, NEW x \in User, NEW m,
             SetMember(v, p, x, m)
      PROVE  p = o /\ visit'[v] = Nil
  BY <1>1 DEF SetMember, Remember, AInv, TypeOK
<1>2. CASE \E v \in Visit, x \in User : ChangeMember(v, x) \/ RemoveMember(v, x)
  <2>1. PICK v \in Visit, x \in User : ChangeMember(v, x) \/ RemoveMember(v, x)
    BY <1>2
  <2>2. /\ visit[v] # Nil /\ visit[v].org \in Org
        /\ visit[v].role \in {"ADMIN", "OWNER"}
        /\ <<visit[v].org, visit[v].role>> \in visit[v].held
    BY <2>1, PermittedVisit DEF ChangeMember, RemoveMember
  <2>3. \E m : SetMember(v, visit[v].org, x, m)
    BY <2>1 DEF ChangeMember, RemoveMember
  <2> QED
    BY <1>1, <2>2, <2>3
<1>3. CASE \E v \in Visit : AddMember(v)
  <2>1. PICK v \in Visit : AddMember(v)
    BY <1>3
  <2>2. visit[v] # Nil /\ visit[v].step = "inviting" /\ VisitOk(visit[v], members)
    BY <2>1, UnderWay DEF AddMember, At
  <2>3. /\ visit[v].org \in Org /\ visit[v].role \in {"ADMIN", "OWNER"}
        /\ <<visit[v].org, visit[v].role>> \in visit[v].held
        /\ visit[v].target \in User
    BY <2>2 DEF VisitOk, MemberSteps
  <2>4. \E m : SetMember(v, visit[v].org, visit[v].target, m)
    BY <2>1 DEF AddMember
  <2> QED
    BY <1>1, <2>2, <2>3, <2>4
<1>4. ASSUME NEW v \in Visit, CreateOrganization(v) PROVE FALSE
  <2>1. \A p \in Org : ~Exists(p) => p # o
    OBVIOUS
  <2> QED
    BY <1>4, <2>1 DEF CreateOrganization, AInv, TypeOK
<1>5. CASE Restart \/ (\E s \in Session : Expire(s)) \/ UNCHANGED vars
  BY <1>5 DEF Restart, Expire, vars
<1>6. CASE \E v \in Visit :
             \/ \E x \in User : SignUp(v, x) \/ Login(v, x) \/ Invite(v, x)
             \/ CreateUser(v) \/ PickSlug(v)
             \/ CreateSession(v) \/ ReadMembership(v) \/ Use(v) \/ Logout(v)
             \/ SetActiveOrg(v) \/ CreateInvitee(v) \/ Fail(v)
             \/ Subscribe(v) \/ CloseSocket(v)
             \/ \E s \in Session : Resolve(v, s)
             \/ \E p \in Org : SwitchOrg(v, p)
  BY <1>6 DEF SignUp, Login, Invite, CreateUser, PickSlug, CreateSession,
              ReadMembership, Use, Logout, SetActiveOrg, CreateInvitee, Fail,
              Subscribe, CloseSocket, Resolve, SwitchOrg
<1> QED
  BY <1>2, <1>3, <1>4, <1>5, <1>6 DEF Next

(* A membership of an organization that exists is added, changed or        *)
(* removed only by a request of somebody who was an active ADMIN or OWNER  *)
(* of it during the request (members.routes.ts).                           *)
THEOREM OnlyManagersManage == Spec => ManagedByManagers
<1>1. AInv /\ [Next]_vars =>
        [\A o \in Org, u \in User :
           members'[o][u] # members[o][u] /\ Exists(o) =>
             \E v \in Visit :
               /\ visit[v] # Nil /\ visit'[v] = Nil
               /\ \E role \in {"ADMIN", "OWNER"} :
                    <<o, role>> \in visit[v].held]_vars
  BY OnlyManagers
<1> QED
  BY <1>1, AccessInvariance, PTL DEF Spec, ManagedByManagers
=============================================================================
