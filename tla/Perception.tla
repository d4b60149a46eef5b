----------------------------- MODULE Perception -----------------------------
(***************************************************************************)
(* From a raw detection to event types: POST /internal/detections of       *)
(* server/src/routes/internal.routes.ts up to the detection engine, with   *)
(* the tracker (ai/tracker.ts), the rules (ai/rule-eval.ts), the zones     *)
(* (ai/zone.ts) and the schedules (ai/schedule.ts) of one camera.          *)
(*                                                                         *)
(* The tracker is updated as the request arrives; the rules, the zone of   *)
(* a rule and its schedule are read by statements of their own, each       *)
(* seeing what is committed, while rules are switched, zones deleted and   *)
(* schedules created and deleted.  A rule that is created or deleted is    *)
(* one that is switched; min_confidence, which PATCH can change, is read   *)
(* by the same statement as `enabled` and stays what it is here.           *)
(*                                                                         *)
(* Coordinates are integers, multiples of a step of the frame, and centers *)
(* are doubled.  Sums and scores are taken as exact; the quotient of       *)
(* zone.ts:39 is rounded, which decides its comparison only where both     *)
(* sides are equal, on an edge: there it can come out either way.  One     *)
(* clock gives the age of a track and the time of the week.                *)
(***************************************************************************)
EXTENDS Integers, Sequences, FiniteSets

CONSTANTS
  Box,          \* boxes a detection can have: [x, y, w, h]
  Class,        \* raw classes that occur
  Confidence,   \* confidences that occur
  GivenDwell,   \* dwell times a job can state itself
  Rule,         \* [rule id -> [type, zone, minConfidence, minDwell]] at first
  Geometry,     \* [zone -> zones.geometry, with Nil for a missing field]
  Unit,         \* the side of the frame
  Rounded,      \* <<center, from, to>> of edges found right of a center on them
  Windows,      \* [zone -> its zone_schedules: [weekday, open, close]]
  TrackTtl,     \* TRACK_TTL_MS
  DayLength, WeekLength,
  MaxClock,     \* bound on the time
  Nil

RuleId == DOMAIN Rule
Zone == DOMAIN Geometry
AllWindows == UNION {Windows[z] : z \in Zone}

ASSUME PerceptionConstants ==
  /\ TrackTtl \in Nat /\ MaxClock \in Nat
  /\ DayLength \in Nat \ {0} /\ WeekLength \in Nat \ {0}
  /\ Nil \notin Zone \cup RuleId \cup GivenDwell
  /\ GivenDwell \subseteq Nat
  /\ Box \subseteq [x : Int, y : Int, w : Int, h : Int]
  /\ \A r \in RuleId : Rule[r].zone \in Zone \cup {Nil} /\ Rule[r].minDwell \in Nat
  /\ \A z \in Zone : Geometry[z] # Nil /\ Geometry[z].type = "polygon" =>
       Geometry[z].points \in Seq(Int \X Int)
  /\ Windows \in [Zone -> SUBSET AllWindows]
  /\ \A w \in AllWindows : w.open \in Nat /\ w.close \in Nat

VARIABLES
  clock,
  tracks,     \* the Map of the tracker, in insertion order
  zones,      \* zones that exist
  schedules,  \* [zone -> its windows]
  enabled,    \* rules that are enabled
  boundTo,    \* [rule id -> zone_id]
  det,        \* the detection under way, or the last one
  presence    \* history: [Class -> since when, and until when, it was seen
              \* without a gap longer than TrackTtl; Nil before]

vars == <<clock, tracks, zones, schedules, enabled, boundTo, det, presence>>

----------------------------------------------------------------------------
(* zone.ts                                                                 *)
Center(b) == [x |-> 2 * b.x + b.w, y |-> 2 * b.y + b.h]

(* On which side of the line from a to b the center lies.                  *)
Side(c, a, b) == (c.x - 2 * a[1]) * (b[2] - a[2]) - (b[1] - a[1]) * (c.y - 2 * a[2])

(* [mutant] the upper end of an edge counts for both of its neighbours. *)
CrossesClosed(c, a, b) ==
  /\ (2 * a[2] >= c.y) # (2 * b[2] > c.y)
  /\ IF Side(c, a, b) = 0 THEN <<c, a, b>> \in Rounded
     ELSE IF b[2] > a[2] THEN Side(c, a, b) < 0 ELSE Side(c, a, b) > 0

(* The ray from c to the right crosses the edge from a to b.               *)
Crosses(c, a, b) ==
  /\ (2 * a[2] > c.y) # (2 * b[2] > c.y)
  /\ IF Side(c, a, b) = 0 THEN <<c, a, b>> \in Rounded
     ELSE IF b[2] > a[2] THEN Side(c, a, b) < 0 ELSE Side(c, a, b) > 0

PointInPolygon(c, points) ==
  LET n == Len(points) IN
  Cardinality({i \in 1..n :
    Crosses(c, points[i], points[IF i = 1 THEN n ELSE i - 1])}) % 2 = 1

Given(value, default) == IF value = Nil THEN default ELSE value
InRectangle(c, g) ==
  LET x == Given(g.x, 0)
      y == Given(g.y, 0) IN
  /\ 2 * x <= c.x /\ c.x <= 2 * (x + Given(g.width, Unit))
  /\ 2 * y <= c.y /\ c.y <= 2 * (y + Given(g.height, Unit))

(* A zone without a usable geometry is the whole frame.                    *)
DetectionInZone(b, g) ==
  CASE g = Nil -> TRUE
    [] g # Nil /\ (g.type = "rectangle" \/ (g.width # Nil /\ g.height # Nil))
         -> InRectangle(Center(b), g)
    [] OTHER -> g.type = "polygon" /\ Len(g.points) >= 3 =>
                  PointInPolygon(Center(b), g.points)

----------------------------------------------------------------------------
(* schedule.ts                                                             *)
WeekdayOf(at) == (at \div DayLength) % WeekLength
MinutesOfDay(at) == at % DayLength

(* [mutant] a window that wraps midnight is tested like any other. *)
WithinUnwrapped(window, minute) ==
  window.open <= minute /\ minute < window.close

Within(window, minute) ==
  IF window.open <= window.close
  THEN window.open <= minute /\ minute < window.close
  ELSE window.open <= minute \/ minute < window.close

IsAfterHours(windows, at) ==
  /\ windows # {}
  /\ ~\E w \in windows :
        w.weekday \in {Nil, WeekdayOf(at)} /\ Within(w, MinutesOfDay(at))

----------------------------------------------------------------------------
(* tracker.ts                                                              *)
Overlap(p, d, q, e) ==   \* of the intervals from p and q, d and e long
  LET length == (IF p + d < q + e THEN p + d ELSE q + e) - (IF p > q THEN p ELSE q)
  IN IF length > 0 THEN length ELSE 0

Iou(a, b) ==   \* <<intersection, union>>, a fraction
  LET inter == Overlap(a.x, a.w, b.x, b.w) * Overlap(a.y, a.h, b.y, b.h)
      union == a.w * a.h + b.w * b.h - inter
  IN IF union <= 0 THEN <<0, 1>> ELSE <<inter, union>>
AtLeast(f, g) == f[1] * g[2] >= g[1] * f[2]

(* [mutant] a track lives for a fixed time, however long it is not seen. *)
FreshByAge(t) == clock - t.firstSeen <= 2 * TrackTtl + 2

Fresh(t) == clock - t.lastSeen <= TrackTtl

(* The tracks left when the stale ones have expired, and among them the    *)
(* best match: the last one of those with the highest score.               *)
Live ==
  LET kept[n \in 0..Len(tracks)] ==
        IF n = 0 THEN <<>>
        ELSE IF Fresh(tracks[n]) THEN Append(kept[n - 1], tracks[n])
        ELSE kept[n - 1]
  IN kept[Len(tracks)]
Matching(live, class, box) ==
  {i \in DOMAIN live :
     live[i].label = class /\ AtLeast(Iou(live[i].box, box), <<3, 10>>)}
Best(live, hits, box) ==
  CHOOSE i \in hits : \A j \in hits :
    \/ ~AtLeast(Iou(live[j].box, box), Iou(live[i].box, box))
    \/ AtLeast(Iou(live[i].box, box), Iou(live[j].box, box)) /\ j <= i

(* update: the tracks afterwards, and the dwell time of the detection.     *)
Updated(class, box) ==
  LET live == Live
      hits == Matching(live, class, box)
      best == Best(live, hits, box) IN
  IF hits = {} THEN Append(live, [label |-> class, box |-> box,
                                  firstSeen |-> clock, lastSeen |-> clock])
  ELSE [live EXCEPT ![best].box = box, ![best].lastSeen = clock]
Dwell(class, box) ==
  LET live == Live
      hits == Matching(live, class, box) IN
  IF hits = {} THEN 0 ELSE clock - live[Best(live, hits, box)].firstSeen

----------------------------------------------------------------------------
(* rule-eval.ts                                                            *)
Applicable(class) ==
  CASE class = "PERSON" ->
         {"UNAUTHORIZED_ENTRY", "AFTER_HOURS_ACTIVITY", "RESTRICTED_ZONE_ACTIVITY",
          "LOITERING_SECURITY", "PERSON_DETECTION"}
    [] class = "VEHICLE" ->
         {"UNAUTHORIZED_VEHICLE", "VEHICLE_DETECTION", "RESTRICTED_ZONE_ACTIVITY"}
    [] OTHER -> {}   \* fire and smoke ask no rule

Concerns(d, r) ==
  Rule[r].type \in Applicable(d.class) /\ d.confidence >= Rule[r].minConfidence

(* [mutant] a zone that cannot be found matches nothing. *)
GateClosedWhenGone(d, z, there) ==
  z # Nil => there /\ DetectionInZone(d.box, Geometry[z])

(* The zone a rule is bound to; its geometry is null if it was not found.  *)
ZoneGate(d, z, there) ==
  z # Nil => DetectionInZone(d.box, IF there THEN Geometry[z] ELSE Nil)

WindowsOf(z, open) == IF z = Nil THEN {} ELSE open[z]

(* Rule r, bound to zone z with these windows, raises its type.            *)
Raises(d, r, z, there, windows) ==
  /\ ZoneGate(d, z, there)
  /\ Rule[r].type = "AFTER_HOURS_ACTIVITY" => z # Nil /\ IsAfterHours(windows, clock)
  /\ Rule[r].type = "LOITERING_SECURITY" => d.dwell >= Rule[r].minDwell

(* The rules that ask for their event, if all is read at once.             *)
Asking(d, among, bound, there, open) ==
  {r \in among : /\ Concerns(d, r)
                 /\ Raises(d, r, bound[r], bound[r] \in there, WindowsOf(bound[r], open))}

(* The hours a window is open, as the schedule's comments describe it: one *)
(* that wraps midnight goes on in the morning of the next day.             *)
OpenHours(w) ==
  {hour \in (0..(WeekLength - 1)) \X (0..(DayLength - 1)) :
     \E opens \in 0..(WeekLength - 1) :
       /\ w.weekday \in {Nil, opens}
       /\ IF w.open <= w.close
          THEN hour[1] = opens /\ hour[2] \in w.open..(w.close - 1)
          ELSE \/ hour[1] = opens /\ hour[2] >= w.open
               \/ hour[1] = (opens + 1) % WeekLength /\ hour[2] < w.close}
OpenNow(windows) ==
  \E w \in windows : <<WeekdayOf(clock), MinutesOfDay(clock)>> \in OpenHours(w)
ClosedNow(windows) == windows # {} /\ ~OpenNow(windows)

(* The zones that are closed; those with a night window of one weekday     *)
(* (which the code opens on another morning) count as closed.              *)
Daily(windows) == \A w \in windows : w.open > w.close => w.weekday = Nil
Shut(open) ==
  {z \in Zone : open[z] # {} /\ (Daily(open[z]) => ClosedNow(open[z]))}

----------------------------------------------------------------------------
Track == [label : Class, box : Box, firstSeen : 0..MaxClock, lastSeen : 0..MaxClock]
Seen == [since : 0..MaxClock, last : 0..MaxClock]
Detection ==
  [class : Class, box : Box, confidence : Confidence,
   given : GivenDwell \cup {Nil}, dwell : Nat,
   step : {"tracked", "rules"},
   rules : SUBSET RuleId, bound : [RuleId -> Zone \cup {Nil}],  \* as read
   left : SUBSET RuleId, at : RuleId \cup {Nil},   \* of the loop over the rules
   cache : [Zone -> {"unread", "there", "gone"}],  \* zoneCache
   raised : SUBSET (Class \cup {Rule[r].type : r \in RuleId}),
   \* history: since the request came in, the rules that asked for their event
   \* at some time, enabled or not, and the enabled ones that did all the time;
   \* the zones that were shut at some time
   ever : SUBSET RuleId, always : SUBSET RuleId, shut : SUBSET Zone]

ASSUME NilAssumption == Nil \notin Seen \cup Detection

Init ==
  /\ clock = 0
  /\ tracks = <<>>
  /\ zones = Zone
  /\ schedules = Windows
  /\ enabled = RuleId
  /\ boundTo = [r \in RuleId |-> Rule[r].zone]
  /\ det = Nil
  /\ presence = [c \in Class |-> Nil]

(* All rules that were read have been evaluated.                           *)
Done(d) == d.step = "rules" /\ d.left = {} /\ d.at = Nil
UnderWay == IF det = Nil THEN FALSE ELSE ~Done(det)

(* A detection with its history brought up to date.                        *)
Watched(d, on, bound, there, open) ==
  [d EXCEPT !.ever = @ \cup Asking(d, RuleId, bound, there, open),
            !.always = @ \cap Asking(d, on, bound, there, open),
            !.shut = @ \cup Shut(open)]
Observed(on, bound, there, open) ==
  IF UnderWay THEN Watched(det, on, bound, there, open) ELSE det

(* requireTenantResource, then the tracker, a dwell time stated by the job *)
(* before the tracker's, and the call of evaluateDetection, which raises   *)
(* fire and smoke at once and otherwise awaits the rules.                  *)
Receive(class, box, confidence, given) ==
  /\ det = Nil
  /\ LET direct == class \in {"FIRE", "SMOKE"} IN
     det' = Watched([class |-> class, box |-> box, confidence |-> confidence,
                     given |-> given, dwell |-> Given(given, Dwell(class, box)),
                     step |-> IF direct THEN "rules" ELSE "tracked",
                     rules |-> {}, bound |-> boundTo, left |-> {}, at |-> Nil,
                     cache |-> [z \in Zone |-> "unread"],
                     raised |-> IF direct THEN {class} ELSE {},
                     ever |-> {}, always |-> RuleId, shut |-> {}],
                    enabled, boundTo, zones, schedules)
  /\ tracks' = Updated(class, box)
  /\ presence' = [presence EXCEPT ![class] =
       [since |-> IF @ # Nil /\ clock - @.last <= TrackTtl THEN @.since ELSE clock,
        last |-> clock]]
  /\ UNCHANGED <<clock, zones, schedules, enabled, boundTo>>

ReadRules ==
  /\ det # Nil /\ det.step = "tracked"
  /\ det' = [det EXCEPT !.step = "rules", !.rules = enabled, !.bound = boundTo,
                        !.left = {r \in enabled : Concerns(det, r)}]
  /\ UNCHANGED <<clock, tracks, zones, schedules, enabled, boundTo, presence>>

(* The loop comes to rule r, in no particular order, and looks its zone up *)
(* unless this call has done so before.                                    *)
LookUp(r) ==
  /\ det # Nil /\ det.step = "rules" /\ det.at = Nil /\ r \in det.left
  /\ LET found(z) == IF z # det.bound[r] \/ det.cache[z] # "unread" THEN det.cache[z]
                     ELSE IF z \in zones THEN "there" ELSE "gone" IN
     det' = [det EXCEPT !.left = @ \ {r}, !.at = r,
                        !.cache = [z \in Zone |-> found(z)]]
  /\ UNCHANGED <<clock, tracks, zones, schedules, enabled, boundTo, presence>>

(* The rest of the rule's turn, with the schedule as it is now.            *)
Judge ==
  /\ det # Nil /\ det.at # Nil
  /\ LET r == det.at
         z == det.bound[r] IN
     det' = [det EXCEPT !.at = Nil, !.raised = @ \cup
       {type \in {Rule[r].type} :
          Raises(det, r, z, det.cache[z] = "there", WindowsOf(z, schedules))}]
  /\ UNCHANGED <<clock, tracks, zones, schedules, enabled, boundTo, presence>>

(* [mutant] the rules bound to a deleted zone keep their reference. *)
DeleteZoneOnly(z) ==
  /\ z \in zones
  /\ zones' = zones \ {z}
  /\ schedules' = [schedules EXCEPT ![z] = {}]
  /\ det' = Observed(enabled, boundTo, zones', schedules')
  /\ UNCHANGED <<clock, tracks, enabled, boundTo, presence>>

(* DELETE of a zone: its schedules go, the rules bound to it are unbound.  *)
DeleteZone(z) ==
  /\ z \in zones
  /\ zones' = zones \ {z}
  /\ schedules' = [schedules EXCEPT ![z] = {}]
  /\ boundTo' = [r \in RuleId |-> IF boundTo[r] = z THEN Nil ELSE boundTo[r]]
  /\ det' = Observed(enabled, boundTo', zones', schedules')
  /\ UNCHANGED <<clock, tracks, enabled, presence>>

SwitchRule(r) ==
  /\ enabled' = IF r \in enabled THEN enabled \ {r} ELSE enabled \cup {r}
  /\ det' = Observed(enabled', boundTo, zones, schedules)
  /\ UNCHANGED <<clock, tracks, zones, schedules, boundTo, presence>>

SetSchedule(z, windows) ==
  /\ schedules' = [schedules EXCEPT ![z] = windows]
  /\ det' = Observed(enabled, boundTo, zones, schedules')
  /\ UNCHANGED <<clock, tracks, zones, enabled, boundTo, presence>>
CreateSchedule(z, w) ==
  z \in zones /\ w \in Windows[z] \ schedules[z] /\ SetSchedule(z, schedules[z] \cup {w})
DeleteSchedule(z, w) ==
  w \in schedules[z] /\ SetSchedule(z, schedules[z] \ {w})

(* The API process restarts: the tracker starts empty.                     *)
Restart ==
  /\ tracks' = <<>>
  /\ det' = Nil
  /\ presence' = [c \in Class |-> Nil]
  /\ UNCHANGED <<clock, zones, schedules, enabled, boundTo>>

(* The answer is sent: once all is done, or when a statement failed.       *)
Respond ==
  /\ det # Nil
  /\ det' = Nil
  /\ UNCHANGED <<clock, tracks, zones, schedules, enabled, boundTo, presence>>

(* A request is done within the tick it came in.                           *)
Tick ==
  /\ det = Nil
  /\ clock < MaxClock
  /\ clock' = clock + 1
  /\ UNCHANGED <<tracks, zones, schedules, enabled, boundTo, det, presence>>

Next ==
  \/ \E class \in Class, box \in Box, confidence \in Confidence,
        given \in GivenDwell \cup {Nil} : Receive(class, box, confidence, given)
  \/ ReadRules \/ Judge \/ Respond
  \/ \E r \in RuleId : LookUp(r)
  \/ \E z \in Zone : DeleteZone(z)
  \/ \E r \in RuleId : SwitchRule(r)
  \/ \E z \in Zone, w \in AllWindows : CreateSchedule(z, w) \/ DeleteSchedule(z, w)
  \/ Tick \/ Restart

Spec == Init /\ [][Next]_vars

----------------------------------------------------------------------------
TypeOK ==
  /\ clock \in 0..MaxClock
  /\ tracks \in Seq(Track)
  /\ zones \subseteq Zone /\ enabled \subseteq RuleId
  /\ schedules \in [Zone -> SUBSET AllWindows]
  /\ \A z \in Zone \ zones : schedules[z] = {}
  /\ boundTo \in [RuleId -> zones \cup {Nil}]
  /\ det = Nil \/ det \in Detection
  /\ presence \in [Class -> Seen \cup {Nil}]

(* Loitering is raised only for a class that has been seen for that long,  *)
(* with no gap longer than the life of a track: tracks that merge, split   *)
(* or expire never add up to a dwell time nobody had.  A dwell time that   *)
(* the job states itself is taken as it is.                                *)
LoiteringIsPresence ==
  det # Nil /\ "LOITERING_SECURITY" \in det.raised =>
    \E r \in det.rules :
      /\ Rule[r].type = "LOITERING_SECURITY"
      /\ IF det.given = Nil
         THEN presence[det.class].since + Rule[r].minDwell <= clock
         ELSE Rule[r].minDwell <= det.given

(* A rule that asked for its event all the time the detection was          *)
(* processed is not missed, although rules, zones and schedules are read   *)
(* one after the other.                                                    *)
NothingMissed ==
  det # Nil => (Done(det) => \A r \in det.always : Rule[r].type \in det.raised)

(* Nothing is raised but by a rule that was enabled when the rules were    *)
(* read and asked for its event at some time, all being read at once: a    *)
(* zone deleted between two reads turns no detection outside of it into    *)
(* one that the rule, then without a zone, would not report itself.        *)
NothingInvented ==
  det # Nil =>
    \A type \in det.raised \ {"FIRE", "SMOKE"} :
      \E r \in det.rules : Rule[r].type = type /\ r \in det.ever

(* Rules, zones and schedules decide as they were configured.              *)
RaisedAsConfigured == NothingMissed /\ NothingInvented

(* A zone cut in two along a diagonal: a detection that is not on the cut  *)
(* is in the zone iff it is in exactly one of the parts.  On the cut both  *)
(* parts, or neither, can claim it, as the quotient is rounded.            *)
OnCut(c, a, b) == (2 * a[2] > c.y) # (2 * b[2] > c.y) /\ Side(c, a, b) = 0
ZonesTile ==
  det # Nil /\ det.step = "tracked" =>
    \A z \in Zone :
      Geometry[z] # Nil /\ Geometry[z].type = "polygon" =>
        LET points == Geometry[z].points
            n == Len(points)
            c == Center(det.box) IN
        \A i \in 1..(n - 2), j \in 3..n :
          i + 2 <= j /\ ~OnCut(c, points[i], points[j]) =>
            PointInPolygon(c, points) =
              (PointInPolygon(c, SubSeq(points, i, j)) #
               PointInPolygon(c, SubSeq(points, 1, i) \o SubSeq(points, j, n)))

(* The after-hours event is raised only if the rule's zone was closed at   *)
(* some time while the detection was processed.                            *)
AfterHoursMeansClosed ==
  det # Nil /\ "AFTER_HOURS_ACTIVITY" \in det.raised =>
    \E r \in det.rules :
      Rule[r].type = "AFTER_HOURS_ACTIVITY" /\ det.bound[r] \in det.shut

(* "Overnight window (e.g. 22:00-06:00) wraps midnight", for any weekday.  *)
NightWindowsWrap ==
  \A z \in Zone : IsAfterHours(schedules[z], clock) = ClosedNow(schedules[z])
=============================================================================
