-------------------------- MODULE PerceptionProofs --------------------------
(***************************************************************************)
(* Theorems about Perception, for every set of boxes, rules, zones and     *)
(* schedules, every life of a track and any number of tracks.              *)
(***************************************************************************)
EXTENDS Perception, FiniteSetTheorems, FunctionTheorems, SequenceTheorems, TLAPS

----------------------------------------------------------------------------
(* A nonempty set of natural numbers has a least element: the proofs by    *)
(* induction below take the least counterexample.                          *)
LEMMA LeastNumber ==
  ASSUME NEW S, S \subseteq Nat, S # {}
  PROVE  \E least \in S : \A n \in S : least <= n
<1> DEFINE R == OpToRel(<, Nat)
<1>1. IsWellFoundedOn(R, Nat)
  BY NatLessThanWellFounded
<1>2. \A m, n \in Nat : m < n => <<m, n>> \in R
  BY DEF OpToRel
<1> HIDE DEF R
<1>3. \E least \in S : \A n \in S : ~(<<n, least>> \in R)
  BY <1>1, WFMin
<1>4. PICK least \in S : \A n \in S : ~(<<n, least>> \in R)
  BY <1>3
<1>5. \A n \in S : ~(n < least)
  BY <1>2, <1>4
<1> QED
  BY <1>5

----------------------------------------------------------------------------
(* The tracks that are there and have not expired.                         *)
Kept == {t \in Track : Fresh(t) /\ \E n \in 1..Len(tracks) : tracks[n] = t}

(* k[n] are the tracks left of the first n.                                *)
KeptOf(k, n) ==
  IF n = 0 THEN <<>>
  ELSE IF Fresh(tracks[n]) THEN Append(k[n - 1], tracks[n])
  ELSE k[n - 1]

(* The recursion that defines Live has a solution.                         *)
LEMMA KeptExists ==
  ASSUME tracks \in Seq(Track)
  PROVE  \E k : k = [n \in 0..Len(tracks) |-> KeptOf(k, n)]
<1> DEFINE Solves(k, m) == k = [n \in 0..m |-> KeptOf(k, n)]
           Bad == {m \in 0..Len(tracks) : ~\E k : Solves(k, m)}
<1>1. Len(tracks) \in Nat
  OBVIOUS
<1>2. SUFFICES ASSUME Bad # {} PROVE FALSE
  BY <1>1
<1>3. PICK least \in Bad : \A m \in Bad : least <= m
  <2>1. Bad \subseteq Nat
    BY <1>1
  <2> HIDE DEF Bad
  <2> QED
    BY <1>2, <2>1, LeastNumber
<1>4. least # 0
  <2> DEFINE k == [n \in 0..0 |-> <<>>]
  <2>1. Solves(k, 0)
    BY DEF KeptOf
  <2> QED
    BY <2>1, <1>3
<1>5. PICK k : Solves(k, least - 1)
  BY <1>1, <1>3, <1>4
<1> DEFINE longer == [n \in 0..least |-> IF n = least THEN KeptOf(k, n) ELSE k[n]]
<1>6. \A n \in 0..least : longer[n] = KeptOf(longer, n)
  <2> TAKE n \in 0..least
  <2>1. n \in Nat /\ least \in Nat
    BY <1>1, <1>3
  <2>2. n # 0 => longer[n - 1] = k[n - 1]
    BY <2>1
  <2>3. KeptOf(longer, n) = KeptOf(k, n)
    BY <2>2 DEF KeptOf
  <2>4. n # least => k[n] = KeptOf(k, n)
    BY <2>1, <1>5
  <2> QED
    BY <2>3, <2>4
<1>7. Solves(longer, least)
  BY <1>6
<1> QED
  BY <1>3, <1>7

(* What is left has not expired, and was there before.                     *)
LEMMA LiveIsKept ==
  ASSUME tracks \in Seq(Track)
  PROVE  Live \in Seq(Kept)
<1> DEFINE k == CHOOSE k : k = [n \in 0..Len(tracks) |-> KeptOf(k, n)]
           Bad == {n \in 0..Len(tracks) : k[n] \notin Seq(Kept)}
<1>1. Live = k[Len(tracks)]
  BY DEF Live, KeptOf
<1>2. k = [n \in 0..Len(tracks) |-> KeptOf(k, n)]
  BY KeptExists
<1> HIDE DEF k
<1>3. Len(tracks) \in Nat
  OBVIOUS
<1>4. Bad = {}
  <2> SUFFICES ASSUME Bad # {} PROVE FALSE
    OBVIOUS
  <2>1. PICK least \in Bad : \A n \in Bad : least <= n
    <3>1. Bad \subseteq Nat
      BY <1>3
    <3> HIDE DEF Bad
    <3> QED
      BY <3>1, LeastNumber
  <2>2. k[least] = KeptOf(k, least)
    BY <1>2, <2>1
  <2>3. least # 0
    <3>1. least = 0 => k[least] = <<>>
      BY <2>2 DEF KeptOf
    <3>2. k[least] \notin Seq(Kept) /\ <<>> \in Seq(Kept)
      BY <2>1
    <3> QED
      BY <3>1, <3>2
  <2>4. least \in 1..Len(tracks) /\ k[least - 1] \in Seq(Kept)
    BY <1>3, <2>1, <2>3
  <2>5. Fresh(tracks[least]) => tracks[least] \in Kept
    BY <2>4 DEF Kept
  <2>6. KeptOf(k, least) = IF Fresh(tracks[least])
                           THEN Append(k[least - 1], tracks[least]) ELSE k[least - 1]
    BY <2>3 DEF KeptOf
  <2>7. KeptOf(k, least) \in Seq(Kept)
    BY <2>4, <2>5, <2>6
  <2> QED
    BY <2>1, <2>2, <2>7
<1> QED
  BY <1>1, <1>3, <1>4

----------------------------------------------------------------------------
(* The scores are fractions, and fractions are totally ordered.            *)
Fraction == Int \X (Nat \ {0})

LEMMA IouIsFraction ==
  ASSUME NEW a \in Box, NEW b \in Box
  PROVE  Iou(a, b) \in Fraction
<1>1. /\ a.x \in Int /\ a.y \in Int /\ a.w \in Int /\ a.h \in Int
      /\ b.x \in Int /\ b.y \in Int /\ b.w \in Int /\ b.h \in Int
  BY PerceptionConstants
<1>2. \A p, d, q, e \in Int : Overlap(p, d, q, e) \in Int
  BY DEF Overlap
<1> DEFINE inter == Overlap(a.x, a.w, b.x, b.w) * Overlap(a.y, a.h, b.y, b.h)
           union == a.w * a.h + b.w * b.h - inter
<1>3. inter \in Int
  <2>1. \A m, n \in Int : m * n \in Int
    OBVIOUS
  <2>2. Overlap(a.x, a.w, b.x, b.w) \in Int /\ Overlap(a.y, a.h, b.y, b.h) \in Int
    BY <1>1, <1>2
  <2> QED
    BY <2>1, <2>2, Zenon
<1>4. union \in Int
  <2> HIDE DEF inter
  <2> QED
    BY <1>1, <1>3
<1>5. Iou(a, b) = IF union <= 0 THEN <<0, 1>> ELSE <<inter, union>>
  BY DEF Iou
<1> HIDE DEF inter, union
<1> QED
  BY <1>3, <1>4, <1>5 DEF Fraction

LEMMA ScaledOrder ==
  ASSUME NEW a \in Int, NEW b \in Int, NEW d \in Nat \ {0}, a * d >= b * d
  PROVE  a >= b
<1>1. a < b => a * d < b * d
  OBVIOUS
<1> QED
  BY <1>1

LEMMA AtLeastIsTransitive ==
  ASSUME NEW f \in Fraction, NEW g \in Fraction, NEW h \in Fraction,
         AtLeast(f, g), AtLeast(g, h)
  PROVE  AtLeast(f, h)
<1>1. PICK a \in Int, b \in Nat \ {0}, c \in Int, d \in Nat \ {0}, e \in Int,
           k \in Nat \ {0} : f = <<a, b>> /\ g = <<c, d>> /\ h = <<e, k>>
  BY DEF Fraction
<1>2. a * d >= c * b /\ c * k >= e * d
  BY <1>1 DEF AtLeast
<1>3. (a * d) * k >= (c * b) * k
  BY <1>2
<1>4. (c * k) * b >= (e * d) * b
  BY <1>2
<1>5. (a * k) * d >= (e * b) * d
  <2>1. (a * d) * k = (a * k) * d /\ (c * b) * k = (c * k) * b
        /\ (e * d) * b = (e * b) * d
    OBVIOUS
  <2> QED
    BY <2>1, <1>3, <1>4
<1>6. a * k >= e * b
  BY <1>5, ScaledOrder
<1> QED
  BY <1>1, <1>6 DEF AtLeast

LEMMA AtLeastIsTotal ==
  ASSUME NEW f \in Fraction, NEW g \in Fraction
  PROVE  AtLeast(f, g) \/ AtLeast(g, f)
BY DEF Fraction, AtLeast

(* Of the tracks that match there is one the search ends with.             *)
Wins(score, hits, i) ==
  \A j \in hits :
    \/ ~AtLeast(score[j], score[i])
    \/ AtLeast(score[i], score[j]) /\ j <= i

LEMMA SearchFindsOne ==
  ASSUME NEW n \in Nat, NEW hits \in SUBSET (1..n), hits # {},
         NEW score \in [1..n -> Fraction]
  PROVE  \E i \in hits : Wins(score, hits, i)
<1> DEFINE Upto(m) == hits \cap (1..m)
           Lost(m) == Upto(m) # {} /\ ~\E i \in Upto(m) : Wins(score, Upto(m), i)
           Bad == {m \in 0..n : Lost(m)}
<1>1. SUFFICES Bad = {}
  <2>1. Upto(n) = hits
    BY Zenon
  <2>2. n \in 0..n
    OBVIOUS
  <2> QED
    BY <2>1, <2>2
<1>2. SUFFICES ASSUME Bad # {} PROVE FALSE
  OBVIOUS
<1>3. PICK m \in Bad : \A k \in Bad : m <= k
  <2> HIDE DEF Lost
  <2>1. Bad \subseteq 0..n
    BY Zenon
  <2> HIDE DEF Bad
  <2>2. Bad \subseteq Nat
    BY <2>1
  <2> QED
    BY <1>2, <2>2, LeastNumber
<1>4. m \in 1..n /\ m - 1 \in 0..n /\ m - 1 \notin Bad
  <2>1. m \in 0..n /\ Upto(m) # {}
    BY <1>3
  <2> HIDE DEF Lost, Upto
  <2>2. m # 0
    BY <2>1 DEF Upto
  <2>3. m - 1 \in 0..n /\ ~(m <= m - 1)
    BY <2>1, <2>2
  <2> QED
    BY <1>3, <2>1, <2>2, <2>3
<1>5. m \in hits
  <2>1. m \notin hits => Upto(m) = Upto(m - 1)
    BY <1>4
  <2> QED
    BY <2>1, <1>3, <1>4
<1>6. Upto(m) = Upto(m - 1) \cup {m}
  BY <1>4, <1>5
<1>7. PICK i \in Upto(m - 1) : Wins(score, Upto(m - 1), i)
  <2>1. Upto(m - 1) # {}
    <3>1. AtLeast(score[m], score[m])
      BY <1>4, AtLeastIsTotal
    <3>2. Upto(m - 1) = {} => Wins(score, Upto(m), m)
      BY <1>4, <1>6, <3>1 DEF Wins
    <3> QED
      BY <1>3, <1>5, <1>6, <3>2
  <2> QED
    BY <2>1, <1>4
<1>8. i < m /\ i \in 1..n
  BY <1>4, <1>7
<1>9. CASE AtLeast(score[m], score[i])
  <2>1. Wins(score, Upto(m), m)
    <3>1. SUFFICES ASSUME NEW j \in Upto(m), AtLeast(score[j], score[m])
                   PROVE  AtLeast(score[m], score[j]) /\ j <= m
      BY DEF Wins
    <3>2. j <= m /\ j \in 1..n /\ m \in 1..n
      BY <1>4
    <3>3. score[j] \in Fraction /\ score[m] \in Fraction /\ score[i] \in Fraction
      BY <3>2, <1>8
    <3>4. AtLeast(score[j], score[i])
      BY <3>1, <3>3, <1>9, AtLeastIsTransitive
    <3>5. AtLeast(score[i], score[j]) \/ j = m
      BY <1>6, <1>7, <3>4 DEF Wins
    <3>6. AtLeast(score[m], score[j])
      BY <3>3, <3>5, <1>9, AtLeastIsTransitive, AtLeastIsTotal
    <3> QED
      BY <3>2, <3>6
  <2> QED
    BY <2>1, <1>3, <1>6
<1>10. CASE ~AtLeast(score[m], score[i])
  <2>1. Wins(score, Upto(m), i)
    BY <1>6, <1>7, <1>10 DEF Wins
  <2> QED
    BY <2>1, <1>3, <1>6, <1>7
<1> QED
  BY <1>9, <1>10

LEMMA BestIsHit ==
  ASSUME NEW live \in Seq(Track), NEW box \in Box,
         NEW hits \in SUBSET (1..Len(live)), hits # {}
  PROVE  Best(live, hits, box) \in hits
<1> DEFINE score == [i \in 1..Len(live) |-> Iou(live[i].box, box)]
<1>1. score \in [1..Len(live) -> Fraction]
  <2>1. \A i \in 1..Len(live) : live[i] \in Track
    OBVIOUS
  <2>2. \A i \in 1..Len(live) : live[i].box \in Box
    BY <2>1 DEF Track
  <2> QED
    BY <2>2, IouIsFraction
<1>2. PICK i \in hits : Wins(score, hits, i)
  <2>1. Len(live) \in Nat
    OBVIOUS
  <2> HIDE DEF score
  <2> QED
    BY <1>1, <2>1, SearchFindsOne
<1>3. \E k \in hits : \A j \in hits :
        \/ ~AtLeast(Iou(live[j].box, box), Iou(live[k].box, box))
        \/ AtLeast(Iou(live[k].box, box), Iou(live[j].box, box)) /\ j <= k
  BY <1>2 DEF Wins
<1> QED
  BY <1>3 DEF Best

----------------------------------------------------------------------------
(* The invariant.                                                          *)

(* What was seen was seen in the past.                                     *)
PresencePast ==
  \A c \in Class : presence[c] # Nil =>
    presence[c].since <= clock /\ presence[c].last <= clock

(* A track that is alive began no earlier than the presence of its class.  *)
TrackSeen(t) ==
  /\ t.firstSeen <= clock
  /\ presence[t.label] # Nil
  /\ t.lastSeen <= presence[t.label].last
  /\ Fresh(t) => presence[t.label].since <= t.firstSeen
TracksSeen == \A n \in 1..Len(tracks) : TrackSeen(tracks[n])

(* The dwell time of the detection is the job's or one of its class.       *)
DwellSeen ==
  det # Nil =>
    /\ presence[det.class] # Nil
    /\ IF det.given = Nil THEN presence[det.class].since + det.dwell <= clock
       ELSE det.dwell = det.given

(* While a detection is processed its history covers what is stored now.   *)
HistoryCovers ==
  UnderWay =>
    /\ Asking(det, RuleId, boundTo, zones, schedules) \subseteq det.ever
    /\ det.always \subseteq Asking(det, enabled, boundTo, zones, schedules)
    /\ Shut(schedules) \subseteq det.shut

(* Before the rules are read the loop has not begun.                       *)
NotBegun ==
  det # Nil /\ det.step = "tracked" =>
    /\ det.left = {} /\ det.at = Nil /\ det.raised = {}
    /\ \A z \in Zone : det.cache[z] = "unread"

(* The rules read are bound as they were, or to zones deleted since.       *)
RulesAsRead ==
  det # Nil /\ det.step = "rules" /\ UnderWay =>
    /\ det.always \subseteq det.rules
    /\ det.left \subseteq {r \in det.rules : Concerns(det, r)}
    /\ det.at # Nil => det.at \in det.rules /\ Concerns(det, det.at)
    /\ \A r \in det.rules :
         \/ boundTo[r] = det.bound[r]
         \/ boundTo[r] = Nil /\ det.bound[r] \notin zones \cup {Nil}

(* A zone that was not found is not there now, and one that was found had  *)
(* the detection inside for every rule that asked all the time.            *)
ZonesAsFound ==
  det # Nil /\ det.step = "rules" /\ UnderWay =>
    /\ \A z \in Zone : det.cache[z] = "gone" => z \notin zones
    /\ det.at # Nil /\ det.bound[det.at] # Nil => det.cache[det.bound[det.at]] # "unread"
    /\ \A r \in det.always :
         det.bound[r] # Nil /\ det.cache[det.bound[r]] = "there" =>
           DetectionInZone(det.box, Geometry[det.bound[r]])

(* A rule that asked all the time has raised its type when its turn is over. *)
AllJudged ==
  det # Nil /\ det.step = "rules" =>
    \A r \in det.always : r \in det.left \/ r = det.at \/ Rule[r].type \in det.raised

PerceptionInv ==
  /\ TypeOK
  /\ PresencePast /\ TracksSeen /\ DwellSeen
  /\ HistoryCovers /\ NotBegun /\ RulesAsRead /\ ZonesAsFound /\ AllJudged
  /\ LoiteringIsPresence /\ NothingInvented /\ AfterHoursMeansClosed

----------------------------------------------------------------------------
(* The tracker.                                                            *)

LEMMA KeptTracks ==
  ASSUME TypeOK, TracksSeen
  PROVE  \A t \in Kept : t \in Track /\ Fresh(t) /\ TrackSeen(t)
BY DEF Kept, TracksSeen, TypeOK

(* Two cases of an update: a new track begins, or a track of the class     *)
(* that is alive goes on with the new box.                                 *)
Begins(class, box) ==
  /\ Updated(class, box) = Append(Live, [label |-> class, box |-> box,
                                         firstSeen |-> clock, lastSeen |-> clock])
  /\ Dwell(class, box) = 0
GoesOn(class, box, b) ==
  /\ Live[b] \in Kept /\ Live[b].label = class
  /\ Updated(class, box) =
       [Live EXCEPT ![b] = [Live[b] EXCEPT !.box = box, !.lastSeen = clock]]
  /\ Dwell(class, box) = clock - Live[b].firstSeen

LEMMA UpdateCases ==
  ASSUME TypeOK, NEW class \in Class, NEW box \in Box
  PROVE  Begins(class, box) \/ \E b \in 1..Len(Live) : GoesOn(class, box, b)
<1> DEFINE hits == Matching(Live, class, box)
           best == Best(Live, hits, box)
<1>1. Live \in Seq(Kept) /\ Len(Live) \in Nat
  BY LiveIsKept DEF TypeOK
<1>2. Live \in Seq(Track)
  <2>1. Kept \subseteq Track
    BY DEF Kept
  <2> QED
    BY <1>1, <2>1, SeqMonotonic
<1>3. hits \in SUBSET (1..Len(Live)) /\ \A i \in hits : Live[i].label = class
  BY <1>1 DEF Matching
<1>4. CASE hits = {}
  BY <1>1, <1>4 DEF Updated, Dwell, Begins
<1>5. CASE hits # {}
  <2>1. best \in hits
    BY <1>2, <1>3, <1>5, BestIsHit
  <2>2. best \in 1..Len(Live) /\ Live[best] \in Kept /\ Live[best].label = class
    BY <2>1, <1>1, <1>3
  <2>3. Dwell(class, box) = clock - Live[best].firstSeen
    BY <1>5 DEF Dwell
  <2>4. Updated(class, box) =
          [Live EXCEPT ![best].box = box, ![best].lastSeen = clock]
    BY <1>5 DEF Updated
  <2> HIDE DEF best, hits
  <2>5. Live[best] \in [label : Class, box : Box, firstSeen : 0..MaxClock,
                         lastSeen : 0..MaxClock]
    BY <2>2 DEF Kept, Track
  <2>6. Updated(class, box) =
          [Live EXCEPT ![best] = [Live[best] EXCEPT !.box = box, !.lastSeen = clock]]
    BY <1>1, <2>2, <2>4, <2>5
  <2> QED
    BY <2>2, <2>3, <2>6 DEF GoesOn
<1> QED
  BY <1>4, <1>5

(* So each track afterwards is one that was alive or the one just seen.    *)
JustSeen(t, class) ==
  /\ t \in Track /\ t.label = class /\ t.lastSeen = clock
  /\ \/ t.firstSeen = clock
     \/ \E old \in Kept : old.label = class /\ old.firstSeen = t.firstSeen

LEMMA UpdatedTracks ==
  ASSUME TypeOK, NEW class \in Class, NEW box \in Box
  PROVE  LET u == Updated(class, box) IN
         /\ Len(u) \in Nat /\ u = [n \in 1..Len(u) |-> u[n]]
         /\ \A n \in 1..Len(u) : u[n] \in Kept \/ JustSeen(u[n], class)
<1> DEFINE u == Updated(class, box)
           new == [label |-> class, box |-> box, firstSeen |-> clock, lastSeen |-> clock]
<1>1. Live \in Seq(Kept) /\ Len(Live) \in Nat /\ clock \in 0..MaxClock
  BY LiveIsKept DEF TypeOK
<1>2. \A n \in 1..Len(Live) : Live[n] \in Kept
  BY <1>1
<1> HIDE DEF u
<1>3. CASE Begins(class, box)
  <2>1. JustSeen(new, class)
    BY <1>1 DEF JustSeen, Track
  <2>2. u = Append(Live, new)
    BY <1>3 DEF Begins, u
  <2> HIDE DEF new
  <2>3. /\ Len(u) = Len(Live) + 1
        /\ u = [n \in 1..(Len(Live) + 1) |-> u[n]]
        /\ \A n \in 1..Len(Live) : u[n] = Live[n]
        /\ u[Len(Live) + 1] = new
    <3> DEFINE S == Kept \cup {new}
    <3>1. Live \in Seq(S) /\ new \in S
      BY <1>1, SeqMonotonic
    <3> HIDE DEF S
    <3>2. u \in Seq(S) /\ Len(u) = Len(Live) + 1
      BY <3>1, <2>2, AppendProperties
    <3>3. \A n \in 1..Len(Live) : Append(Live, new)[n] = Live[n]
      BY <3>1, AppendProperties
    <3>4. Append(Live, new)[Len(Live) + 1] = new
      BY <3>1, AppendProperties
    <3>5. u = [n \in 1..(Len(Live) + 1) |-> u[n]]
      BY <3>2
    <3>6. \A n \in 1..Len(Live) : u[n] = Live[n]
      BY <2>2, <3>3
    <3> QED
      BY <2>2, <3>2, <3>4, <3>5, <3>6, Zenon
  <2>4. \A n \in 1..Len(u) : u[n] \in Kept \/ u[n] = new
    <3>1. \A n \in 1..Len(u) : n \in 1..Len(Live) \/ n = Len(Live) + 1
      BY <1>1, <2>3
    <3> QED
      BY <1>2, <2>3, <3>1
  <2> QED
    BY <1>1, <2>1, <2>3, <2>4 DEF u
<1>4. ASSUME NEW b \in 1..Len(Live), GoesOn(class, box, b)
      PROVE  /\ Len(u) \in Nat /\ u = [n \in 1..Len(u) |-> u[n]]
             /\ \A n \in 1..Len(u) : u[n] \in Kept \/ JustSeen(u[n], class)
  <2> DEFINE seen == [Live[b] EXCEPT !.box = box, !.lastSeen = clock]
  <2>1. /\ Live[b] \in Kept
        /\ Live[b] \in [label : Class, box : Box, firstSeen : 0..MaxClock,
                        lastSeen : 0..MaxClock]
        /\ Live[b].label = class
    BY <1>4 DEF GoesOn, Kept, Track
  <2>2. JustSeen(seen, class)
    <3>1. clock \in 0..MaxClock
      BY <1>1
    <3>2. /\ seen \in [label : Class, box : Box, firstSeen : 0..MaxClock,
                       lastSeen : 0..MaxClock]
          /\ seen.label = Live[b].label
          /\ seen.firstSeen = Live[b].firstSeen /\ seen.lastSeen = clock
      BY <2>1, <3>1
    <3> QED
      BY <2>1, <3>2 DEF JustSeen, Track
  <2>3. u = [Live EXCEPT ![b] = seen]
    BY <1>4 DEF GoesOn, u
  <2> HIDE DEF seen
  <2>4. /\ Len(u) = Len(Live) /\ u = [n \in 1..Len(Live) |-> u[n]]
        /\ \A n \in 1..Len(Live) : u[n] = IF n = b THEN seen ELSE Live[n]
    <3>1. Live = [n \in 1..Len(Live) |-> Live[n]]
      BY <1>1
    <3>2. u = [n \in 1..Len(Live) |-> IF n = b THEN seen ELSE Live[n]]
      BY <3>1, <2>3
    <3> QED
      BY <1>1, <3>2
  <2> QED
    BY <1>1, <1>2, <2>2, <2>4
<1>5. /\ Len(u) \in Nat /\ u = [n \in 1..Len(u) |-> u[n]]
      /\ \A n \in 1..Len(u) : u[n] \in Kept \/ JustSeen(u[n], class)
  BY <1>3, <1>4, UpdateCases DEF u
<1> QED
  BY <1>5 DEF u

LEMMA DwellCases ==
  ASSUME TypeOK, NEW class \in Class, NEW box \in Box
  PROVE  \/ Dwell(class, box) = 0
         \/ \E t \in Kept : t.label = class /\ Dwell(class, box) = clock - t.firstSeen
<1>1. CASE Begins(class, box)
  BY <1>1 DEF Begins
<1>2. ASSUME NEW b \in 1..Len(Live), GoesOn(class, box, b)
      PROVE  \E t \in Kept : t.label = class /\ Dwell(class, box) = clock - t.firstSeen
  BY <1>2 DEF GoesOn
<1> QED
  BY <1>1, <1>2, UpdateCases

LEMMA UpdatedType ==
  ASSUME TypeOK, TracksSeen, NEW class \in Class, NEW box \in Box
  PROVE  Updated(class, box) \in Seq(Track) /\ Dwell(class, box) \in 0..MaxClock
<1>1. clock \in 0..MaxClock /\ MaxClock \in Nat
  BY PerceptionConstants DEF TypeOK
<1>2. \A t : JustSeen(t, class) => t \in Track
  BY DEF JustSeen
<1>3. \A t \in Kept : t \in Track
  BY DEF Kept
<1>4. Updated(class, box) \in Seq(Track)
  <2> DEFINE u == Updated(class, box)
  <2>1. /\ Len(u) \in Nat /\ u = [n \in 1..Len(u) |-> u[n]]
        /\ \A n \in 1..Len(u) : u[n] \in Kept \/ JustSeen(u[n], class)
    BY UpdatedTracks
  <2> HIDE DEF u
  <2> QED
    BY <1>2, <1>3, <2>1 DEF u
<1>5. \A t \in Kept : t.firstSeen \in 0..MaxClock /\ t.firstSeen <= clock
  BY KeptTracks DEF TrackSeen, Track
<1>6. Dwell(class, box) \in 0..MaxClock
  BY <1>1, <1>5, DwellCases
<1> QED
  BY <1>4, <1>6

----------------------------------------------------------------------------
(* What a rule asks for, as a function of all it depends on.               *)
RaisesAt(d, r, z, there, windows, now) ==
  /\ ZoneGate(d, z, there)
  /\ Rule[r].type = "AFTER_HOURS_ACTIVITY" => z # Nil /\ IsAfterHours(windows, now)
  /\ Rule[r].type = "LOITERING_SECURITY" => d.dwell >= Rule[r].minDwell
AsksAt(d, r, z, there, open, now) ==
  Concerns(d, r) /\ RaisesAt(d, r, z, z \in there, WindowsOf(z, open), now)
AskingAt(d, among, bound, there, open, now) ==
  {r \in among : AsksAt(d, r, bound[r], there, open, now)}
ClosedAt(windows, now) ==
  /\ windows # {}
  /\ ~\E w \in windows : <<WeekdayOf(now), MinutesOfDay(now)>> \in OpenHours(w)
ShutAt(open, now) ==
  {z \in Zone : open[z] # {} /\ (Daily(open[z]) => ClosedAt(open[z], now))}

LEMMA AskingNow ==
  /\ \A d, among, bound, there, open :
       Asking(d, among, bound, there, open) = AskingAt(d, among, bound, there, open, clock)
  /\ \A open : Shut(open) = ShutAt(open, clock)
  /\ \A d, r, z, there, windows :
       Raises(d, r, z, there, windows) <=> RaisesAt(d, r, z, there, windows, clock)
<1>1. \A d, r, z, there, windows :
        Raises(d, r, z, there, windows) <=> RaisesAt(d, r, z, there, windows, clock)
  BY DEF Raises, RaisesAt
<1>2. \A d, among, bound, there, open :
        Asking(d, among, bound, there, open) = AskingAt(d, among, bound, there, open, clock)
  BY <1>1 DEF Asking, AskingAt, AsksAt
<1>3. \A open : Shut(open) = ShutAt(open, clock)
  BY DEF Shut, ShutAt, ClosedNow, OpenNow, ClosedAt
<1> QED
  BY <1>1, <1>2, <1>3

LEMMA AskingNext ==
  /\ Asking(det, RuleId, boundTo, zones, schedules)' =
       AskingAt(det', RuleId, boundTo', zones', schedules', clock')
  /\ Asking(det, enabled, boundTo, zones, schedules)' =
       AskingAt(det', enabled', boundTo', zones', schedules', clock')
  /\ Shut(schedules)' = ShutAt(schedules', clock')
<1>1. Asking(det, RuleId, boundTo, zones, schedules)' =
        AskingAt(det', RuleId, boundTo', zones', schedules', clock')
  BY DEF Asking, Raises, AskingAt, AsksAt, RaisesAt
<1>2. Asking(det, enabled, boundTo, zones, schedules)' =
        AskingAt(det', enabled', boundTo', zones', schedules', clock')
  BY DEF Asking, Raises, AskingAt, AsksAt, RaisesAt
<1>3. Shut(schedules)' = ShutAt(schedules', clock')
  BY DEF Shut, ShutAt, ClosedNow, OpenNow, ClosedAt
<1> QED
  BY <1>1, <1>2, <1>3

(* It depends on the request, not on how far it has got.                   *)
SameRequest(d, e) ==
  d.class = e.class /\ d.box = e.box /\ d.confidence = e.confidence /\ d.dwell = e.dwell

LEMMA SameRequestAsks ==
  ASSUME NEW d, NEW e, SameRequest(d, e)
  PROVE  /\ \A r : Concerns(d, r) <=> Concerns(e, r)
         /\ \A among, bound, there, open, now :
              AskingAt(d, among, bound, there, open, now) =
                AskingAt(e, among, bound, there, open, now)
<1>1. \A r : Concerns(d, r) <=> Concerns(e, r)
  BY DEF Concerns, SameRequest
<1>2. \A z, there : ZoneGate(d, z, there) <=> ZoneGate(e, z, there)
  BY DEF ZoneGate, SameRequest
<1>3. \A r, z, there, windows, now :
        RaisesAt(d, r, z, there, windows, now) <=> RaisesAt(e, r, z, there, windows, now)
  BY <1>2 DEF RaisesAt, SameRequest
<1>4. \A r, z, there, open, now :
        AsksAt(d, r, z, there, open, now) <=> AsksAt(e, r, z, there, open, now)
  BY <1>1, <1>3 DEF AsksAt
<1> QED
  BY <1>1, <1>4 DEF AskingAt

(* A rule without a zone is not held up by one that was not found.         *)
LEMMA NoZoneMatches ==
  /\ \A d, there : ZoneGate(d, Nil, there)
  /\ \A d, z : ZoneGate(d, z, FALSE)
BY DEF ZoneGate, DetectionInZone

(* No hour of a zone without schedules, or without a zone, is after hours. *)
LEMMA NoWindowsNoHours == \A now : ~IsAfterHours({}, now)
BY DEF IsAfterHours

(* How the history of a detection is brought up to date.                   *)
SameProgress(d, e) ==
  /\ SameRequest(d, e) /\ d.given = e.given /\ d.step = e.step
  /\ d.rules = e.rules /\ d.bound = e.bound
  /\ d.left = e.left /\ d.at = e.at /\ d.cache = e.cache /\ d.raised = e.raised
Advances(d, e, on, bound, there, open) ==
  /\ e \in Detection /\ SameProgress(e, d)
  /\ e.ever = d.ever \cup AskingAt(d, RuleId, bound, there, open, clock)
  /\ e.always = d.always \cap AskingAt(d, on, bound, there, open, clock)
  /\ e.shut = d.shut \cup ShutAt(open, clock)

LEMMA WatchedAdvances ==
  ASSUME NEW d \in Detection, NEW on, on \subseteq RuleId, NEW bound, NEW there, NEW open
  PROVE  Advances(d, Watched(d, on, bound, there, open), on, bound, there, open)
<1> DEFINE asked == AskingAt(d, RuleId, bound, there, open, clock)
           askedOn == AskingAt(d, on, bound, there, open, clock)
           closed == ShutAt(open, clock)
           ever == d.ever \cup asked
           always == d.always \cap askedOn
           shut == d.shut \cup closed
           e == Watched(d, on, bound, there, open)
<1>1. e = [d EXCEPT !.ever = ever, !.always = always, !.shut = shut]
  BY AskingNow DEF Watched
<1>2. asked \subseteq RuleId /\ askedOn \subseteq RuleId /\ closed \subseteq Zone
  BY DEF AskingAt, ShutAt
<1> HIDE DEF asked, askedOn, closed, e
<1>3. ever \in SUBSET RuleId /\ always \in SUBSET RuleId /\ shut \in SUBSET Zone
  BY <1>2 DEF Detection
<1> HIDE DEF ever, always, shut
<1>4. e \in Detection
  BY <1>1, <1>3 DEF Detection
<1>5. /\ e.class = d.class /\ e.box = d.box /\ e.confidence = d.confidence
      /\ e.given = d.given /\ e.dwell = d.dwell /\ e.step = d.step
      /\ e.rules = d.rules /\ e.bound = d.bound /\ e.left = d.left /\ e.at = d.at
      /\ e.cache = d.cache /\ e.raised = d.raised
      /\ e.ever = ever /\ e.always = always /\ e.shut = shut
  BY <1>1 DEF Detection
<1>6. SameProgress(e, d)
  BY <1>5 DEF SameProgress, SameRequest
<1> QED
  BY <1>4, <1>5, <1>6 DEF Advances, e, ever, always, shut, asked, askedOn, closed

----------------------------------------------------------------------------
(* The steps.                                                              *)

(* What was seen does not depend on the rules and zones.                   *)
LEMMA SeenKept ==
  ASSUME PresencePast, TracksSeen, clock' = clock, tracks' = tracks, presence' = presence
  PROVE  PresencePast' /\ TracksSeen'
BY DEF PresencePast, TracksSeen, TrackSeen, Fresh

(* Without a detection there is little to show.                            *)
LEMMA NoDetection ==
  ASSUME det' = Nil, TypeOK', PresencePast', TracksSeen'
  PROVE  PerceptionInv'
BY DEF PerceptionInv, DwellSeen, HistoryCovers, UnderWay, NotBegun, RulesAsRead,
     ZonesAsFound, AllJudged, LoiteringIsPresence, NothingInvented, AfterHoursMeansClosed

(* What has been raised stays as it was raised.                            *)
LEMMA RaisedKept ==
  ASSUME LoiteringIsPresence, NothingInvented, AfterHoursMeansClosed,
         det # Nil, det' # Nil, clock' = clock, presence' = presence,
         det'.class = det.class, det'.given = det.given,
         det'.rules = det.rules, det'.bound = det.bound, det'.raised = det.raised,
         det.ever \subseteq det'.ever, det.shut \subseteq det'.shut
  PROVE  LoiteringIsPresence' /\ NothingInvented' /\ AfterHoursMeansClosed'
<1>1. LoiteringIsPresence'
  BY DEF LoiteringIsPresence
<1>2. NothingInvented'
  BY DEF NothingInvented
<1>3. AfterHoursMeansClosed'
  BY DEF AfterHoursMeansClosed
<1> QED
  BY <1>1, <1>2, <1>3

(* Zones are deleted, rules switched, schedules created and deleted.       *)
ConfigStep ==
  /\ clock' = clock /\ tracks' = tracks /\ presence' = presence
  /\ zones' \subseteq zones /\ enabled' \subseteq RuleId
  /\ schedules' \in [Zone -> SUBSET AllWindows]
  /\ \A z \in Zone \ zones' : schedules'[z] = {}
  /\ boundTo' \in [RuleId -> zones' \cup {Nil}]
  /\ \A r \in RuleId :
       \/ boundTo'[r] = boundTo[r]
       \/ boundTo'[r] = Nil /\ boundTo[r] \notin zones' \cup {Nil}
  /\ det' = Observed(enabled', boundTo', zones', schedules')

LEMMA ConfigKeeps ==
  ASSUME PerceptionInv, ConfigStep
  PROVE  PerceptionInv'
<1>1. PresencePast' /\ TracksSeen'
  BY SeenKept DEF PerceptionInv, ConfigStep
<1>2. det' = Nil \/ det' \in Detection => TypeOK'
  BY DEF PerceptionInv, TypeOK, ConfigStep
<1>3. CASE det = Nil
  <2>1. det' = Nil
    BY <1>3 DEF ConfigStep, Observed, UnderWay
  <2> QED
    BY <1>1, <1>2, <2>1, NoDetection
<1>4. CASE det # Nil /\ ~UnderWay
  <2>1. det' = det
    BY <1>4 DEF ConfigStep, Observed
  <2>2. ~UnderWay' /\ det # Nil /\ det.step = "rules"
    BY <1>4, <2>1 DEF UnderWay, Done
  <2>3. TypeOK'
    BY <1>2, <1>4, <2>1 DEF PerceptionInv, TypeOK
  <2>4. DwellSeen' /\ AllJudged'
    BY <2>1 DEF PerceptionInv, DwellSeen, AllJudged, ConfigStep
  <2>5. HistoryCovers' /\ NotBegun' /\ RulesAsRead' /\ ZonesAsFound'
    BY <2>1, <2>2 DEF HistoryCovers, NotBegun, RulesAsRead, ZonesAsFound
  <2>6. LoiteringIsPresence' /\ NothingInvented' /\ AfterHoursMeansClosed'
    BY <1>4, <2>1, RaisedKept DEF PerceptionInv, ConfigStep
  <2> QED
    BY <1>1, <2>3, <2>4, <2>5, <2>6 DEF PerceptionInv
<1>5. CASE det # Nil /\ UnderWay
  <2> DEFINE asked == AskingAt(det, RuleId, boundTo', zones', schedules', clock)
             askedOn == AskingAt(det, enabled', boundTo', zones', schedules', clock)
             closed == ShutAt(schedules', clock)
  <2>1. det \in Detection /\ det # Nil
    BY <1>5 DEF PerceptionInv, TypeOK
  <2>2. Advances(det, det', enabled', boundTo', zones', schedules')
    <3>1. det' = Watched(det, enabled', boundTo', zones', schedules')
      BY <1>5 DEF ConfigStep, Observed
    <3>2. enabled' \subseteq RuleId
      BY DEF ConfigStep
    <3> QED
      BY <2>1, <3>1, <3>2, WatchedAdvances
  <2>3. det' \in Detection /\ det' # Nil /\ SameRequest(det', det)
    BY <2>2, NilAssumption DEF Advances, SameProgress
  <2>4. /\ det'.class = det.class /\ det'.box = det.box /\ det'.dwell = det.dwell
        /\ det'.given = det.given /\ det'.step = det.step
        /\ det'.rules = det.rules /\ det'.bound = det.bound /\ det'.raised = det.raised
        /\ det'.left = det.left /\ det'.at = det.at /\ det'.cache = det.cache
    BY <2>2 DEF Advances, SameProgress, SameRequest
  <2>5. /\ det'.ever = det.ever \cup asked /\ det'.always = det.always \cap askedOn
        /\ det'.shut = det.shut \cup closed
    BY <2>2 DEF Advances
  <2>6. /\ clock' = clock /\ zones' \subseteq zones /\ zones \subseteq Zone
        /\ Nil \notin zones /\ presence' = presence
        /\ det.rules \subseteq RuleId /\ det.bound \in [RuleId -> Zone \cup {Nil}]
    BY <2>1, PerceptionConstants DEF PerceptionInv, TypeOK, ConfigStep, Detection
  <2>7. HistoryCovers'
    <3>1. /\ Asking(det, RuleId, boundTo, zones, schedules)' = asked
          /\ Asking(det, enabled, boundTo, zones, schedules)' = askedOn
          /\ Shut(schedules)' = closed
      BY <2>3, <2>6, AskingNext, SameRequestAsks
    <3> HIDE DEF asked, askedOn, closed
    <3> QED
      BY <2>5, <3>1 DEF HistoryCovers
  <2> HIDE DEF asked, askedOn, closed
  <2>8. TypeOK' /\ DwellSeen' /\ NotBegun'
    BY <1>2, <2>1, <2>3, <2>4, <2>6 DEF PerceptionInv, DwellSeen, NotBegun
  <2>9. RulesAsRead'
    <3>1. SUFFICES ASSUME det.step = "rules" PROVE RulesAsRead'
      BY <2>4 DEF RulesAsRead
    <3>2. det.always \subseteq det.rules
          /\ det.left \subseteq {r \in det.rules : Concerns(det, r)}
          /\ (det.at # Nil => det.at \in det.rules /\ Concerns(det, det.at))
      BY <1>5, <3>1 DEF PerceptionInv, RulesAsRead
    <3>3. \A r : Concerns(det, r)' <=> Concerns(det, r)
      BY <2>3 DEF Concerns, SameRequest
    <3>4. ASSUME NEW r \in det.rules
          PROVE  \/ boundTo'[r] = det.bound[r]
                 \/ boundTo'[r] = Nil /\ det.bound[r] \notin zones' \cup {Nil}
      <4>1. \/ boundTo[r] = det.bound[r]
            \/ boundTo[r] = Nil /\ det.bound[r] \notin zones \cup {Nil}
        BY <1>5, <3>1 DEF PerceptionInv, RulesAsRead
      <4>2. \/ boundTo'[r] = boundTo[r]
            \/ boundTo'[r] = Nil /\ boundTo[r] \notin zones' \cup {Nil}
        BY <2>6 DEF ConfigStep
      <4> QED
        BY <2>6, <4>1, <4>2
    <3>5. det'.always \subseteq det'.rules
      BY <2>4, <2>5, <3>2
    <3>6. det'.left \subseteq {r \in det'.rules : Concerns(det, r)'}
          /\ (det'.at # Nil => det'.at \in det'.rules /\ Concerns(det', det'.at))
      BY <2>3, <2>4, <3>2, <3>3, SameRequestAsks
    <3> QED
      BY <2>4, <3>4, <3>5, <3>6 DEF RulesAsRead, Concerns
  <2>10. ZonesAsFound'
    BY <1>5, <2>4, <2>5, <2>6 DEF PerceptionInv, ZonesAsFound
  <2>11. AllJudged'
    BY <1>5, <2>4, <2>5 DEF PerceptionInv, AllJudged
  <2>12. LoiteringIsPresence' /\ NothingInvented' /\ AfterHoursMeansClosed'
    BY <1>5, <2>3, <2>4, <2>5, <2>6, RaisedKept DEF PerceptionInv
  <2> QED
    BY <1>1, <2>7, <2>8, <2>9, <2>10, <2>11, <2>12 DEF PerceptionInv
<1> QED
  BY <1>3, <1>4, <1>5

LEMMA DeleteZoneKeeps ==
  ASSUME PerceptionInv, NEW z \in Zone, DeleteZone(z)
  PROVE  PerceptionInv'
<1>1. Nil \notin Zone /\ zones \subseteq Zone /\ boundTo \in [RuleId -> zones \cup {Nil}]
  BY PerceptionConstants DEF PerceptionInv, TypeOK
<1>2. /\ schedules' \in [Zone -> SUBSET AllWindows]
      /\ \A y \in Zone \ zones' : schedules'[y] = {}
  BY DEF DeleteZone, PerceptionInv, TypeOK
<1>3. ConfigStep
  BY <1>1, <1>2 DEF ConfigStep, DeleteZone, PerceptionInv, TypeOK
<1> QED
  BY <1>3, ConfigKeeps

LEMMA SwitchRuleKeeps ==
  ASSUME PerceptionInv, NEW r \in RuleId, SwitchRule(r)
  PROVE  PerceptionInv'
<1>1. ConfigStep
  BY DEF ConfigStep, SwitchRule, PerceptionInv, TypeOK
<1> QED
  BY <1>1, ConfigKeeps

LEMMA ScheduleKeeps ==
  ASSUME PerceptionInv, NEW z \in Zone, NEW w \in AllWindows,
         CreateSchedule(z, w) \/ DeleteSchedule(z, w)
  PROVE  PerceptionInv'
<1>1. schedules \in [Zone -> SUBSET AllWindows] /\ \A y \in Zone \ zones : schedules[y] = {}
  BY DEF PerceptionInv, TypeOK
<1>2. PICK windows \in SUBSET AllWindows :
        SetSchedule(z, windows) /\ (z \notin zones => windows = {})
  BY <1>1 DEF CreateSchedule, DeleteSchedule
<1>3. /\ schedules' \in [Zone -> SUBSET AllWindows]
      /\ \A y \in Zone \ zones : schedules'[y] = {}
  BY <1>1, <1>2 DEF SetSchedule
<1>4. ConfigStep
  BY <1>2, <1>3 DEF ConfigStep, SetSchedule, PerceptionInv, TypeOK
<1> QED
  BY <1>4, ConfigKeeps

(* A request comes in. *)
LEMMA ReceiveKeeps ==
  ASSUME PerceptionInv, NEW class \in Class, NEW box \in Box,
         NEW confidence \in Confidence, NEW given \in GivenDwell \cup {Nil},
         Receive(class, box, confidence, given)
  PROVE  PerceptionInv'
<1> DEFINE direct == class \in {"FIRE", "SMOKE"}
           dwell == Given(given, Dwell(class, box))
           raised == IF direct THEN {class} ELSE {}
           step == IF direct THEN "rules" ELSE "tracked"
           d == [class |-> class, box |-> box, confidence |-> confidence,
                 given |-> given, dwell |-> dwell, step |-> step,
                 rules |-> {}, bound |-> boundTo, left |-> {}, at |-> Nil,
                 cache |-> [z \in Zone |-> "unread"], raised |-> raised,
                 ever |-> {}, always |-> RuleId, shut |-> {}]
           asked == AskingAt(d, RuleId, boundTo, zones, schedules, clock)
           askedOn == AskingAt(d, enabled, boundTo, zones, schedules, clock)
           closed == ShutAt(schedules, clock)
           since == IF presence[class] # Nil /\ clock - presence[class].last <= TrackTtl
                    THEN presence[class].since ELSE clock
<1>1. /\ TypeOK /\ TracksSeen /\ PresencePast /\ det = Nil
      /\ clock \in 0..MaxClock /\ MaxClock \in Nat /\ TrackTtl \in Nat
      /\ presence \in [Class -> Seen \cup {Nil}]
      /\ zones \subseteq Zone /\ enabled \subseteq RuleId
      /\ boundTo \in [RuleId -> zones \cup {Nil}]
      /\ GivenDwell \subseteq Nat /\ Nil \notin GivenDwell
  BY PerceptionConstants DEF Receive, PerceptionInv, TypeOK
<1>2. Dwell(class, box) \in 0..MaxClock /\ Updated(class, box) \in Seq(Track)
  BY <1>1, UpdatedType
<1>3. /\ dwell \in Nat /\ step \in {"tracked", "rules"}
      /\ raised \in SUBSET (Class \cup {Rule[r].type : r \in RuleId})
      /\ IF given = Nil THEN dwell = Dwell(class, box) ELSE dwell = given
      /\ ~direct => raised = {} /\ step = "tracked"
      /\ direct => raised = {class} /\ step = "rules"
  <2>1. dwell \in Nat
    BY <1>1, <1>2 DEF Given
  <2>2. IF given = Nil THEN dwell = Dwell(class, box) ELSE dwell = given
    BY DEF Given
  <2> HIDE DEF dwell
  <2> QED
    BY <2>1, <2>2
<1>4. det' = Watched(d, enabled, boundTo, zones, schedules)
      /\ tracks' = Updated(class, box)
      /\ clock' = clock /\ zones' = zones /\ enabled' = enabled /\ boundTo' = boundTo
      /\ schedules' = schedules
  BY DEF Receive
<1>5. presence' = [presence EXCEPT ![class] = [since |-> since, last |-> clock]]
  BY DEF Receive
<1>6. /\ direct => class = "FIRE" \/ class = "SMOKE"
      /\ direct => Applicable(class) = {}
  <2>1. "FIRE" # "PERSON" /\ "FIRE" # "VEHICLE" /\ "SMOKE" # "PERSON" /\ "SMOKE" # "VEHICLE"
    OBVIOUS
  <2> QED
    BY <2>1 DEF Applicable
<1> HIDE DEF dwell, raised, step
<1>7. d \in Detection
  BY <1>1, <1>3 DEF Detection
<1>8. /\ d.class = class /\ d.given = given /\ d.dwell = dwell /\ d.step = step
      /\ d.rules = {} /\ d.left = {} /\ d.at = Nil /\ d.raised = raised
      /\ d.cache = [z \in Zone |-> "unread"] /\ d.always = RuleId /\ d.shut = {}
      /\ d.ever = {}
  OBVIOUS
<1> HIDE DEF d, since
<1>9. /\ det' \in Detection /\ det' # Nil /\ SameRequest(det', d)
      /\ det'.class = class /\ det'.given = given /\ det'.dwell = dwell
      /\ det'.step = step /\ det'.rules = {} /\ det'.left = {} /\ det'.at = Nil
      /\ det'.raised = raised /\ det'.cache = [z \in Zone |-> "unread"]
      /\ det'.ever = asked /\ det'.always = askedOn /\ det'.shut = closed
  <2>1. Advances(d, det', enabled, boundTo, zones, schedules)
    BY <1>1, <1>4, <1>7, WatchedAdvances
  <2>2. askedOn \subseteq RuleId
    BY <1>1 DEF AskingAt
  <2>3. SameRequest(det', d) /\ det' \in Detection /\ det' # Nil
    BY <2>1, NilAssumption DEF Advances, SameProgress
  <2>4. det'.ever = asked /\ det'.always = askedOn /\ det'.shut = closed
    BY <1>8, <2>1, <2>2 DEF Advances
  <2> HIDE DEF asked, askedOn, closed
  <2> QED
    BY <1>8, <2>1, <2>3, <2>4 DEF Advances, SameProgress, SameRequest
<1>10. /\ since \in 0..MaxClock /\ since <= clock
       /\ presence[class] # Nil =>
            presence[class] \in Seen /\ presence[class].last <= clock
  BY <1>1 DEF PresencePast, Seen, since
<1>11. /\ presence' \in [Class -> Seen \cup {Nil}]
       /\ presence'[class] # Nil
       /\ presence'[class].since = since /\ presence'[class].last = clock
       /\ \A c \in Class : c # class => presence'[c] = presence[c]
  <2>1. [since |-> since, last |-> clock] \in Seen
    BY <1>1, <1>10 DEF Seen
  <2> QED
    BY <1>1, <1>5, <2>1, NilAssumption
<1>12. TypeOK'
  BY <1>1, <1>2, <1>4, <1>9, <1>11 DEF PerceptionInv, TypeOK
<1>13. PresencePast'
  BY <1>1, <1>4, <1>10, <1>11 DEF PresencePast
<1>14. \A t \in Kept : t.label = class => since <= t.firstSeen
  <2> TAKE t \in Kept
  <2>1. HAVE t.label = class
  <2>2. t \in Track /\ Fresh(t) /\ TrackSeen(t)
    BY <1>1, KeptTracks
  <2>3. /\ t.lastSeen \in 0..MaxClock /\ clock - t.lastSeen <= TrackTtl
        /\ presence[class] # Nil /\ t.lastSeen <= presence[class].last
        /\ presence[class].since <= t.firstSeen
    BY <2>1, <2>2 DEF Track, Fresh, TrackSeen
  <2>4. presence[class].last \in 0..MaxClock
    BY <1>10, <2>3 DEF Seen
  <2>5. clock - presence[class].last <= TrackTtl
    BY <1>1, <2>3, <2>4
  <2> QED
    BY <2>3, <2>5 DEF since
<1>15. TracksSeen'
  <2>1. ASSUME NEW t, t \in Kept \/ JustSeen(t, class)
        PROVE  /\ t.firstSeen <= clock /\ t.label \in Class
               /\ presence'[t.label] # Nil
               /\ t.lastSeen <= presence'[t.label].last
               /\ clock - t.lastSeen <= TrackTtl => presence'[t.label].since <= t.firstSeen
    <3>1. CASE t \in Kept
      <4>1. t \in Track /\ TrackSeen(t) /\ clock - t.lastSeen <= TrackTtl
        BY <1>1, <3>1, KeptTracks DEF Fresh
      <4>2. /\ t.label \in Class /\ t.firstSeen <= clock /\ presence[t.label] # Nil
            /\ t.lastSeen <= presence[t.label].last
            /\ presence[t.label].since <= t.firstSeen
            /\ t.lastSeen \in 0..MaxClock
        BY <4>1 DEF Track, TrackSeen, Fresh
      <4>3. CASE t.label = class
        <5>1. presence[class].last \in 0..MaxClock /\ presence[class].last <= clock
          BY <1>10, <4>2, <4>3 DEF Seen
        <5>2. t.lastSeen <= clock
          BY <1>1, <4>2, <4>3, <5>1
        <5>3. since <= t.firstSeen
          BY <1>14, <3>1, <4>3
        <5> QED
          BY <1>11, <4>2, <4>3, <5>2, <5>3
      <4>4. CASE t.label # class
        BY <1>11, <4>2, <4>4
      <4> QED
        BY <4>3, <4>4
    <3>2. CASE JustSeen(t, class)
      <4>1. /\ t.label = class /\ t.lastSeen = clock
            /\ t.firstSeen = clock \/
                 \E old \in Kept : old.label = class /\ old.firstSeen = t.firstSeen
        BY <3>2 DEF JustSeen
      <4>2. \A old \in Kept : old.firstSeen <= clock
        BY <1>1, KeptTracks DEF TrackSeen
      <4>3. t.firstSeen <= clock /\ since <= t.firstSeen
        BY <1>1, <1>10, <1>14, <4>1, <4>2
      <4> QED
        BY <1>1, <1>11, <4>1, <4>3
    <3> QED
      BY <2>1, <3>1, <3>2
  <2> DEFINE u == Updated(class, box)
  <2>2. \A n \in 1..Len(u) : u[n] \in Kept \/ JustSeen(u[n], class)
    BY <1>1, UpdatedTracks
  <2>3. tracks' = u
    BY <1>4
  <2> HIDE DEF u
  <2> QED
    BY <1>4, <2>1, <2>2, <2>3 DEF TracksSeen, TrackSeen, Fresh
<1>16. DwellSeen'
  <2>1. since + Dwell(class, box) <= clock
    <3>1. \A t \in Kept : t.firstSeen \in 0..MaxClock
      BY <1>1, KeptTracks DEF Track
    <3> QED
      BY <1>1, <1>10, <1>14, <3>1, DwellCases
  <2> QED
    BY <1>3, <1>4, <1>9, <1>11, <2>1 DEF DwellSeen
<1>17. HistoryCovers'
  <2>1. /\ Asking(det, RuleId, boundTo, zones, schedules)' = asked
        /\ Asking(det, enabled, boundTo, zones, schedules)' = askedOn
        /\ Shut(schedules)' = closed
    BY <1>4, <1>9, AskingNext, SameRequestAsks
  <2> HIDE DEF asked, askedOn, closed
  <2> QED
    BY <1>9, <2>1 DEF HistoryCovers
<1>18. NotBegun' /\ RulesAsRead' /\ ZonesAsFound'
  <2>1. NotBegun'
    BY <1>3, <1>9 DEF NotBegun
  <2>2. step = "rules" => ~UnderWay'
    BY <1>9 DEF UnderWay, Done
  <2> QED
    BY <1>9, <2>1, <2>2 DEF RulesAsRead, ZonesAsFound
<1>19. AllJudged'
  <2>1. direct => askedOn = {}
    BY <1>6, <1>8 DEF AskingAt, AsksAt, Concerns
  <2> HIDE DEF askedOn
  <2> QED
    BY <1>3, <1>9, <2>1 DEF AllJudged
<1>20. LoiteringIsPresence' /\ NothingInvented' /\ AfterHoursMeansClosed'
  <2>1. raised \subseteq {"FIRE", "SMOKE"}
    BY <1>3
  <2> QED
    BY <1>9, <2>1 DEF LoiteringIsPresence, NothingInvented, AfterHoursMeansClosed
<1> QED
  BY <1>12, <1>13, <1>15, <1>16, <1>17, <1>18, <1>19, <1>20 DEF PerceptionInv

(* A step of the request itself: nothing is reconfigured, and what it has  *)
(* asked for so far stays.                                                 *)
RequestStep ==
  /\ clock' = clock /\ tracks' = tracks /\ zones' = zones /\ schedules' = schedules
  /\ enabled' = enabled /\ boundTo' = boundTo /\ presence' = presence
  /\ det # Nil /\ det' \in Detection
  /\ SameRequest(det', det) /\ det'.given = det.given
  /\ det'.ever = det.ever /\ det'.always = det.always /\ det'.shut = det.shut

LEMMA RequestKeeps ==
  ASSUME PerceptionInv, RequestStep, UnderWay
  PROVE  TypeOK' /\ PresencePast' /\ TracksSeen' /\ DwellSeen' /\ HistoryCovers'
<1>1. det' # Nil
  BY NilAssumption DEF RequestStep
<1>2. TypeOK'
  BY DEF PerceptionInv, RequestStep, TypeOK
<1>3. PresencePast' /\ TracksSeen'
  BY SeenKept DEF PerceptionInv, RequestStep
<1>4. DwellSeen'
  BY <1>1 DEF PerceptionInv, RequestStep, DwellSeen, SameRequest
<1>5. /\ Asking(det, RuleId, boundTo, zones, schedules)' =
           Asking(det, RuleId, boundTo, zones, schedules)
      /\ Asking(det, enabled, boundTo, zones, schedules)' =
           Asking(det, enabled, boundTo, zones, schedules)
      /\ Shut(schedules)' = Shut(schedules)
  BY AskingNow, AskingNext, SameRequestAsks DEF RequestStep
<1>6. HistoryCovers'
  BY <1>5 DEF PerceptionInv, RequestStep, HistoryCovers
<1> QED
  BY <1>2, <1>3, <1>4, <1>6

(* The rules are read. *)
LEMMA ReadRulesKeeps ==
  ASSUME PerceptionInv, ReadRules
  PROVE  PerceptionInv'
<1> DEFINE left == {r \in enabled : Concerns(det, r)}
<1>1. /\ det # Nil /\ det.step = "tracked" /\ det \in Detection /\ det.raised = {}
      /\ det.left = {} /\ det.at = Nil
      /\ enabled \subseteq RuleId /\ zones \subseteq Zone /\ Nil \notin zones
      /\ boundTo \in [RuleId -> Zone \cup {Nil}]
      /\ \A z \in Zone : det.cache[z] = "unread"
      /\ zones' = zones /\ boundTo' = boundTo
  BY PerceptionConstants DEF ReadRules, PerceptionInv, TypeOK, NotBegun
<1>2. det' = [det EXCEPT !.step = "rules", !.rules = enabled, !.bound = boundTo,
                         !.left = left]
  BY DEF ReadRules
<1>3. left \in SUBSET RuleId
  BY <1>1
<1> HIDE DEF left
<1>4. det' \in Detection
  BY <1>1, <1>2, <1>3 DEF Detection
<1>5. /\ det'.class = det.class /\ det'.box = det.box /\ det'.confidence = det.confidence
      /\ det'.given = det.given /\ det'.dwell = det.dwell
      /\ det'.step = "rules" /\ det'.rules = enabled /\ det'.bound = boundTo
      /\ det'.left = left /\ det'.at = Nil /\ det'.cache = det.cache /\ det'.raised = {}
      /\ det'.ever = det.ever /\ det'.always = det.always /\ det'.shut = det.shut
  BY <1>1, <1>2 DEF Detection
<1>6. UnderWay /\ RequestStep
  BY <1>1, <1>4, <1>5 DEF UnderWay, Done, RequestStep, ReadRules, SameRequest
<1>7. TypeOK' /\ PresencePast' /\ TracksSeen' /\ DwellSeen' /\ HistoryCovers'
  BY <1>6, RequestKeeps
<1>8. \A r \in det.always : r \in enabled /\ r \in left
  <2>1. det.always \subseteq AskingAt(det, enabled, boundTo, zones, schedules, clock)
    BY <1>6, AskingNow DEF PerceptionInv, HistoryCovers
  <2> QED
    BY <2>1 DEF AskingAt, AsksAt, left
<1>9. RulesAsRead'
  <2>1. \A r \in left : r \in enabled /\ Concerns(det, r)'
    BY <1>5 DEF left, Concerns
  <2> QED
    BY <1>1, <1>5, <1>8, <2>1 DEF RulesAsRead, Concerns
<1>10. ZonesAsFound'
  <2>1. "unread" # "gone" /\ "unread" # "there"
    OBVIOUS
  <2>2. \A r \in det.always : boundTo[r] # Nil => det.cache[boundTo[r]] = "unread"
    BY <1>1, <1>8
  <2> QED
    BY <1>1, <1>5, <2>1, <2>2 DEF ZonesAsFound
<1>11. NotBegun' /\ AllJudged'
  BY <1>5, <1>8 DEF NotBegun, AllJudged
<1>12. LoiteringIsPresence' /\ NothingInvented' /\ AfterHoursMeansClosed'
  BY <1>5 DEF LoiteringIsPresence, NothingInvented, AfterHoursMeansClosed
<1> QED
  BY <1>7, <1>9, <1>10, <1>11, <1>12 DEF PerceptionInv

(* The zone of a rule is looked up. *)
LEMMA LookUpKeeps ==
  ASSUME PerceptionInv, NEW r \in RuleId, LookUp(r)
  PROVE  PerceptionInv'
<1> DEFINE found(z) == IF z # det.bound[r] \/ det.cache[z] # "unread" THEN det.cache[z]
                       ELSE IF z \in zones THEN "there" ELSE "gone"
           cache == [z \in Zone |-> found(z)]
           left == det.left \ {r}
<1>1. /\ det # Nil /\ det.step = "rules" /\ det \in Detection /\ r \in det.left
      /\ det.at = Nil /\ Nil \notin Zone \cup RuleId /\ zones \subseteq Zone
      /\ det.cache \in [Zone -> {"unread", "there", "gone"}]
      /\ det.bound \in [RuleId -> Zone \cup {Nil}]
      /\ det.rules \subseteq RuleId
      /\ zones' = zones /\ boundTo' = boundTo /\ clock' = clock /\ presence' = presence
  BY PerceptionConstants DEF LookUp, PerceptionInv, TypeOK, Detection
<1>2. det' = [det EXCEPT !.left = left, !.at = r, !.cache = cache]
  BY DEF LookUp
<1>3. /\ cache \in [Zone -> {"unread", "there", "gone"}]
      /\ \A z \in Zone : cache[z] = found(z)
      /\ left \in SUBSET RuleId
  BY <1>1 DEF Detection
<1> HIDE DEF cache, left
<1>4. det' \in Detection
  BY <1>1, <1>2, <1>3 DEF Detection
<1>5. /\ det'.class = det.class /\ det'.box = det.box /\ det'.confidence = det.confidence
      /\ det'.given = det.given /\ det'.dwell = det.dwell
      /\ det'.step = "rules" /\ det'.rules = det.rules /\ det'.bound = det.bound
      /\ det'.left = left /\ det'.at = r /\ det'.cache = cache /\ det'.raised = det.raised
      /\ det'.ever = det.ever /\ det'.always = det.always /\ det'.shut = det.shut
  BY <1>1, <1>2 DEF Detection
<1>6. UnderWay /\ RequestStep /\ det' # Nil
  BY <1>1, <1>4, <1>5, NilAssumption DEF UnderWay, Done, RequestStep, LookUp, SameRequest
<1>7. TypeOK' /\ PresencePast' /\ TracksSeen' /\ DwellSeen' /\ HistoryCovers'
  BY <1>6, RequestKeeps
<1>8. /\ det.always \subseteq det.rules
      /\ det.left \subseteq {q \in det.rules : Concerns(det, q)}
      /\ \A q \in det.rules :
           \/ boundTo[q] = det.bound[q]
           \/ boundTo[q] = Nil /\ det.bound[q] \notin zones \cup {Nil}
  BY <1>1, <1>6 DEF PerceptionInv, RulesAsRead
<1>9. RulesAsRead'
  <2>1. \A q : Concerns(det, q)' <=> Concerns(det, q)
    BY <1>5 DEF Concerns
  <2>2. Concerns(det', r)
    BY <1>1, <1>5, <1>8 DEF Concerns
  <2>3. det'.left \subseteq {q \in det'.rules : Concerns(det, q)'}
    BY <1>5, <1>8, <2>1 DEF left
  <2> QED
    BY <1>1, <1>5, <1>8, <2>2, <2>3 DEF RulesAsRead, Concerns
<1>10. ZonesAsFound'
  <2>1. \A z \in Zone : cache[z] = "gone" => z \notin zones
    BY <1>1, <1>3, <1>6 DEF PerceptionInv, ZonesAsFound
  <2>2. det.bound[r] # Nil => cache[det.bound[r]] # "unread"
    BY <1>1, <1>3
  <2>3. ASSUME NEW q \in det.always, det.bound[q] # Nil, cache[det.bound[q]] = "there"
        PROVE  DetectionInZone(det.box, Geometry[det.bound[q]])
    <3> DEFINE z == det.bound[q]
    <3>1. z \in Zone /\ q \in det.rules
      BY <1>1, <1>8, <2>3
    <3>2. CASE det.cache[z] = "there"
      BY <1>1, <1>6, <2>3, <3>2 DEF PerceptionInv, ZonesAsFound
    <3>3. CASE det.cache[z] # "there"
      <4>1. z \in zones
        BY <1>3, <2>3, <3>1, <3>3
      <4>2. boundTo[q] = z
        BY <1>8, <3>1, <4>1
      <4>3. q \in AskingAt(det, enabled, boundTo, zones, schedules, clock)
        BY <1>6, AskingNow DEF PerceptionInv, HistoryCovers
      <4>4. ZoneGate(det, z, TRUE)
        <5>1. ZoneGate(det, boundTo[q], boundTo[q] \in zones)
          BY <4>3 DEF AskingAt, AsksAt, RaisesAt
        <5>2. (boundTo[q] \in zones) = TRUE
          BY <4>1, <4>2
        <5> QED
          BY <4>2, <5>1, <5>2
      <4> QED
        BY <2>3, <4>4 DEF ZoneGate
    <3> QED
      BY <3>2, <3>3
  <2> QED
    BY <1>1, <1>5, <2>1, <2>2, <2>3 DEF ZonesAsFound
<1>11. NotBegun' /\ AllJudged'
  <2>1. \A q \in det.always : q # Nil
    BY <1>1, <1>8
  <2>2. \A q \in det.left : q = r \/ q \in left
    BY DEF left
  <2> QED
    BY <1>1, <1>5, <2>1, <2>2 DEF PerceptionInv, NotBegun, AllJudged
<1>12. LoiteringIsPresence' /\ NothingInvented' /\ AfterHoursMeansClosed'
  BY <1>1, <1>5, <1>6, RaisedKept DEF PerceptionInv
<1> QED
  BY <1>7, <1>9, <1>10, <1>11, <1>12 DEF PerceptionInv

(* If windows that wrap are daily, outside of them the zone is closed.     *)
LEMMA AfterHoursIsClosed ==
  ASSUME NEW now \in Nat, NEW windows \in SUBSET AllWindows,
         Daily(windows), IsAfterHours(windows, now)
  PROVE  ClosedAt(windows, now)
<1>1. MinutesOfDay(now) \in Nat
  BY PerceptionConstants DEF MinutesOfDay
<1>2. ASSUME NEW w \in windows, <<WeekdayOf(now), MinutesOfDay(now)>> \in OpenHours(w)
      PROVE  FALSE
  <2> DEFINE day == WeekdayOf(now)
             minute == MinutesOfDay(now)
  <2>1. w.open \in Nat /\ w.close \in Nat
    BY PerceptionConstants
  <2> HIDE DEF day, minute
  <2>2. PICK opens \in 0..(WeekLength - 1) :
          /\ w.weekday \in {Nil, opens}
          /\ IF w.open <= w.close
             THEN day = opens /\ minute \in w.open..(w.close - 1)
             ELSE \/ day = opens /\ minute >= w.open
                  \/ day = (opens + 1) % WeekLength /\ minute < w.close
    BY <1>2 DEF OpenHours, day, minute
  <2>3. minute \in Nat
    BY <1>1 DEF minute
  <2>4. w.weekday \in {Nil, day} /\ Within(w, minute)
    BY <2>1, <2>2, <2>3 DEF Within, Daily
  <2> QED
    BY <2>4 DEF IsAfterHours, day, minute
<1> QED
  BY <1>2 DEF ClosedAt, IsAfterHours

(* A rule is judged. *)
LEMMA JudgeKeeps ==
  ASSUME PerceptionInv, Judge
  PROVE  PerceptionInv'
<1> DEFINE r == det.at
           z == det.bound[r]
           type == Rule[r].type
           fires == RaisesAt(det, r, z, det.cache[z] = "there",
                             WindowsOf(z, schedules), clock)
           added == {t \in {type} : fires}
           raised == det.raised \cup added
<1>1. /\ det # Nil /\ det \in Detection /\ r \in RuleId /\ r # Nil
      /\ clock' = clock /\ zones' = zones /\ boundTo' = boundTo /\ presence' = presence
      /\ zones \subseteq Zone /\ Nil \notin Zone
      /\ schedules \in [Zone -> SUBSET AllWindows]
      /\ \A y \in Zone \ zones : schedules[y] = {}
      /\ boundTo \in [RuleId -> zones \cup {Nil}] /\ clock \in Nat
      /\ presence \in [Class -> Seen \cup {Nil}]
  BY PerceptionConstants DEF Judge, PerceptionInv, TypeOK, Detection
<1>2. /\ det.step = "rules" /\ det.rules \subseteq RuleId /\ z \in Zone \cup {Nil}
      /\ det.cache \in [Zone -> {"unread", "there", "gone"}]
      /\ det.raised \subseteq Class \cup {Rule[q].type : q \in RuleId}
      /\ det.class \in Class /\ det.dwell \in Nat
      /\ det.bound \in [RuleId -> Zone \cup {Nil}]
  BY <1>1 DEF PerceptionInv, NotBegun, Detection
<1>3. det' = [det EXCEPT !.at = Nil, !.raised = raised]
  BY AskingNow DEF Judge
<1>4. /\ raised \in SUBSET (Class \cup {Rule[q].type : q \in RuleId})
      /\ \A t : t \in raised <=> t \in det.raised \/ (t = type /\ fires)
  BY <1>1, <1>2
<1> HIDE DEF raised, added
<1>5. det' \in Detection
  BY <1>1, <1>3, <1>4 DEF Detection
<1>6. /\ det'.class = det.class /\ det'.box = det.box /\ det'.confidence = det.confidence
      /\ det'.given = det.given /\ det'.dwell = det.dwell
      /\ det'.step = "rules" /\ det'.rules = det.rules /\ det'.bound = det.bound
      /\ det'.left = det.left /\ det'.at = Nil /\ det'.cache = det.cache
      /\ det'.raised = raised
      /\ det'.ever = det.ever /\ det'.always = det.always /\ det'.shut = det.shut
  BY <1>1, <1>2, <1>3 DEF Detection
<1>7. UnderWay /\ RequestStep /\ det' # Nil
  BY <1>1, <1>5, <1>6, NilAssumption DEF UnderWay, Done, RequestStep, Judge, SameRequest
<1>8. TypeOK' /\ PresencePast' /\ TracksSeen' /\ DwellSeen' /\ HistoryCovers'
  BY <1>7, RequestKeeps
<1>9. /\ det.always \subseteq det.rules
      /\ det.left \subseteq {q \in det.rules : Concerns(det, q)}
      /\ r \in det.rules /\ Concerns(det, r)
      /\ \A q \in det.rules :
           \/ boundTo[q] = det.bound[q]
           \/ boundTo[q] = Nil /\ det.bound[q] \notin zones \cup {Nil}
  BY <1>1, <1>2, <1>7 DEF PerceptionInv, RulesAsRead
<1>10. /\ \A y \in Zone : det.cache[y] = "gone" => y \notin zones
       /\ z # Nil => det.cache[z] # "unread"
       /\ \A q \in det.always :
            det.bound[q] # Nil /\ det.cache[det.bound[q]] = "there" =>
              DetectionInZone(det.box, Geometry[det.bound[q]])
  BY <1>1, <1>2, <1>7 DEF PerceptionInv, ZonesAsFound
<1>11. /\ AskingAt(det, RuleId, boundTo, zones, schedules, clock) \subseteq det.ever
       /\ det.always \subseteq AskingAt(det, enabled, boundTo, zones, schedules, clock)
       /\ ShutAt(schedules, clock) \subseteq det.shut
  BY <1>7, AskingNow DEF PerceptionInv, HistoryCovers
<1> HIDE DEF fires
<1>12. ASSUME boundTo[r] = z
       PROVE  (fires => r \in det.ever) /\ (r \in det.always => fires)
  <2>1. z # Nil => z \in zones /\ det.cache[z] = "there"
    BY <1>1, <1>2, <1>10, <1>12
  <2>2. fires <=> AsksAt(det, r, boundTo[r], zones, schedules, clock)
    <3>1. CASE z # Nil
      <4>1. (det.cache[z] = "there") = TRUE /\ (z \in zones) = TRUE
        BY <2>1, <3>1
      <4> QED
        BY <1>9, <1>12, <4>1 DEF fires, AsksAt
    <3>2. CASE z = Nil
      BY <1>9, <1>12, <3>2, NoZoneMatches DEF fires, AsksAt, RaisesAt
    <3> QED
      BY <3>1, <3>2
  <2> QED
    BY <1>1, <1>11, <2>2 DEF AskingAt
<1>13. ASSUME boundTo[r] # z
       PROVE  (fires => r \in det.ever) /\ (r \in det.always => fires)
  <2>1. boundTo[r] = Nil /\ z \in Zone \ zones
    BY <1>2, <1>9, <1>13
  <2>2. WindowsOf(z, schedules) = {} /\ WindowsOf(Nil, schedules) = {}
    BY <1>1, <2>1 DEF WindowsOf
  <2>3. AsksAt(det, r, Nil, zones, schedules, clock) <=>
          /\ type # "AFTER_HOURS_ACTIVITY"
          /\ type = "LOITERING_SECURITY" => det.dwell >= Rule[r].minDwell
    BY <1>9, NoZoneMatches DEF AsksAt, RaisesAt
  <2>4. fires => r \in det.ever
    <3>1. fires => AsksAt(det, r, Nil, zones, schedules, clock)
      BY <2>2, <2>3, NoWindowsNoHours DEF fires, RaisesAt
    <3> QED
      BY <1>1, <1>11, <2>1, <3>1 DEF AskingAt
  <2>5. r \in det.always => fires
    <3>1. r \in det.always => AsksAt(det, r, Nil, zones, schedules, clock)
      BY <1>11, <2>1 DEF AskingAt
    <3>2. r \in det.always => ZoneGate(det, z, det.cache[z] = "there")
      <4>1. CASE det.cache[z] = "there"
        BY <1>10, <4>1 DEF ZoneGate
      <4>2. CASE det.cache[z] # "there"
        BY <4>2 DEF ZoneGate, DetectionInZone
      <4> QED
        BY <4>1, <4>2
    <3> QED
      BY <2>3, <3>1, <3>2 DEF fires, RaisesAt
  <2> QED
    BY <2>4, <2>5
<1>14. (fires => r \in det.ever) /\ (r \in det.always => fires)
  BY <1>12, <1>13
<1>15. RulesAsRead' /\ ZonesAsFound' /\ NotBegun'
  <2>1. \A q : Concerns(det, q)' <=> Concerns(det, q)
    BY <1>6 DEF Concerns
  <2>2. det'.left \subseteq {q \in det'.rules : Concerns(det, q)'}
    BY <1>6, <1>9, <2>1
  <2> QED
    BY <1>1, <1>6, <1>9, <1>10, <2>2 DEF RulesAsRead, ZonesAsFound, NotBegun, Concerns
<1>16. AllJudged'
  <2>1. \A q \in det.always :
          q \in det.left \/ q = r \/ Rule[q].type \in det.raised
    BY <1>1, <1>2 DEF PerceptionInv, AllJudged
  <2> QED
    BY <1>4, <1>6, <1>14, <2>1 DEF AllJudged
<1>17. LoiteringIsPresence'
  <2>1. fires /\ type = "LOITERING_SECURITY" =>
          IF det.given = Nil THEN presence[det.class].since + Rule[r].minDwell <= clock
          ELSE Rule[r].minDwell <= det.given
    <3>1. fires /\ type = "LOITERING_SECURITY" => det.dwell >= Rule[r].minDwell
      BY DEF fires, RaisesAt
    <3>2. presence[det.class] # Nil
          /\ IF det.given = Nil THEN presence[det.class].since + det.dwell <= clock
             ELSE det.dwell = det.given
      BY <1>1 DEF PerceptionInv, DwellSeen
    <3>3. presence[det.class].since \in Int /\ Rule[r].minDwell \in Int
      BY <1>1, <1>2, <3>2, PerceptionConstants DEF Seen
    <3> QED
      BY <1>1, <1>2, <3>1, <3>2, <3>3
  <2>2. SUFFICES ASSUME "LOITERING_SECURITY" \in raised
                 PROVE  \E q \in det.rules :
                          /\ Rule[q].type = "LOITERING_SECURITY"
                          /\ IF det.given = Nil
                             THEN presence[det.class].since + Rule[q].minDwell <= clock
                             ELSE Rule[q].minDwell <= det.given
    BY <1>1, <1>6 DEF LoiteringIsPresence
  <2>3. CASE "LOITERING_SECURITY" \in det.raised
    BY <1>1, <2>3 DEF PerceptionInv, LoiteringIsPresence
  <2>4. CASE fires /\ type = "LOITERING_SECURITY"
    BY <1>9, <2>1, <2>4
  <2> QED
    BY <1>4, <2>2, <2>3, <2>4
<1>18. NothingInvented'
  <2>1. fires => \E q \in det.rules : Rule[q].type = type /\ q \in det.ever
    BY <1>9, <1>14
  <2>2. \A t \in det.raised \ {"FIRE", "SMOKE"} :
          \E q \in det.rules : Rule[q].type = t /\ q \in det.ever
    BY <1>1 DEF PerceptionInv, NothingInvented
  <2>3. \A t \in raised \ {"FIRE", "SMOKE"} :
          \E q \in det.rules : Rule[q].type = t /\ q \in det.ever
    BY <1>4, <2>1, <2>2
  <2> QED
    BY <1>6, <2>3 DEF NothingInvented
<1>19. AfterHoursMeansClosed'
  <2>1. fires /\ type = "AFTER_HOURS_ACTIVITY" => z \in det.shut
    <3>1. SUFFICES ASSUME fires, type = "AFTER_HOURS_ACTIVITY" PROVE z \in det.shut
      OBVIOUS
    <3>2. z \in Zone /\ IsAfterHours(schedules[z], clock)
      BY <1>2, <3>1 DEF fires, RaisesAt, WindowsOf
    <3>3. schedules[z] # {} /\ schedules[z] \in SUBSET AllWindows
      BY <1>1, <3>2 DEF IsAfterHours
    <3>4. Daily(schedules[z]) => ClosedAt(schedules[z], clock)
      BY <1>1, <3>2, <3>3, AfterHoursIsClosed
    <3>5. z \in ShutAt(schedules, clock)
      BY <3>2, <3>3, <3>4 DEF ShutAt
    <3> QED
      BY <1>11, <3>5
  <2>2. "AFTER_HOURS_ACTIVITY" \in det.raised =>
          \E q \in det.rules :
            Rule[q].type = "AFTER_HOURS_ACTIVITY" /\ det.bound[q] \in det.shut
    BY <1>1 DEF PerceptionInv, AfterHoursMeansClosed
  <2> QED
    BY <1>4, <1>6, <1>9, <2>1, <2>2 DEF AfterHoursMeansClosed
<1> QED
  BY <1>8, <1>15, <1>16, <1>17, <1>18, <1>19 DEF PerceptionInv

(* The steps that end a request, or find none. *)
LEMMA QuietKeeps ==
  ASSUME PerceptionInv, Respond \/ Tick \/ Restart
  PROVE  PerceptionInv'
<1>1. CASE Respond
  <2>1. det' = Nil /\ TypeOK' /\ PresencePast' /\ TracksSeen'
    BY <1>1, SeenKept DEF PerceptionInv, Respond, TypeOK
  <2> QED
    BY <2>1, NoDetection
<1>2. CASE Tick
  <2>1. /\ det' = Nil /\ tracks' = tracks /\ presence' = presence
        /\ clock' = clock + 1 /\ clock' \in 0..MaxClock
        /\ clock \in 0..MaxClock /\ MaxClock \in Nat /\ TrackTtl \in Nat
        /\ tracks \in Seq(Track) /\ presence \in [Class -> Seen \cup {Nil}]
    BY <1>2, PerceptionConstants DEF Tick, PerceptionInv, TypeOK
  <2>2. TypeOK'
    BY <1>2, <2>1 DEF Tick, PerceptionInv, TypeOK
  <2>3. PresencePast'
    BY <2>1 DEF PerceptionInv, PresencePast, Seen
  <2>4. TracksSeen'
    <3>1. SUFFICES ASSUME NEW n \in 1..Len(tracks) PROVE TrackSeen(tracks[n])'
      BY <2>1 DEF TracksSeen
    <3>2. tracks[n] \in Track
      BY <2>1
    <3>3. /\ tracks[n].firstSeen \in 0..MaxClock /\ tracks[n].lastSeen \in 0..MaxClock
          /\ TrackSeen(tracks[n])
      BY <3>2 DEF Track, PerceptionInv, TracksSeen
    <3> QED
      BY <2>1, <3>3 DEF TrackSeen, Fresh
  <2> QED
    BY <2>1, <2>2, <2>3, <2>4, NoDetection
<1>3. CASE Restart
  <2>1. /\ det' = Nil /\ tracks' = <<>> /\ presence' = [c \in Class |-> Nil]
        /\ Len(<<>>) = 0
    BY <1>3 DEF Restart
  <2>2. TypeOK'
    BY <1>3, <2>1 DEF Restart, PerceptionInv, TypeOK
  <2>3. PresencePast' /\ TracksSeen'
    BY <2>1 DEF PresencePast, TracksSeen
  <2> QED
    BY <2>1, <2>2, <2>3, NoDetection
<1> QED
  BY <1>1, <1>2, <1>3

LEMMA StutterKeeps ==
  ASSUME PerceptionInv, UNCHANGED vars
  PROVE  PerceptionInv'
<1>1. /\ clock' = clock /\ tracks' = tracks /\ zones' = zones /\ schedules' = schedules
      /\ enabled' = enabled /\ boundTo' = boundTo /\ det' = det /\ presence' = presence
  BY DEF vars
<1>2. TypeOK' /\ PresencePast' /\ TracksSeen' /\ DwellSeen'
  BY <1>1, SeenKept DEF PerceptionInv, TypeOK, DwellSeen
<1>3. HistoryCovers'
  <2>1. /\ Asking(det, RuleId, boundTo, zones, schedules)' =
             Asking(det, RuleId, boundTo, zones, schedules)
        /\ Asking(det, enabled, boundTo, zones, schedules)' =
             Asking(det, enabled, boundTo, zones, schedules)
        /\ Shut(schedules)' = Shut(schedules)
    BY <1>1, AskingNow, AskingNext
  <2>2. UnderWay' = UnderWay
    BY <1>1 DEF UnderWay
  <2> QED
    BY <1>1, <2>1, <2>2 DEF PerceptionInv, HistoryCovers
<1>4. NotBegun' /\ RulesAsRead' /\ ZonesAsFound' /\ AllJudged'
  BY <1>1 DEF PerceptionInv, NotBegun, RulesAsRead, ZonesAsFound, AllJudged, UnderWay,
       Concerns
<1>5. LoiteringIsPresence' /\ NothingInvented' /\ AfterHoursMeansClosed'
  BY <1>1 DEF PerceptionInv, LoiteringIsPresence, NothingInvented, AfterHoursMeansClosed
<1> QED
  BY <1>2, <1>3, <1>4, <1>5 DEF PerceptionInv

(* The invariant holds in every state of every behaviour. *)
THEOREM PerceptionInvariance == Spec => []PerceptionInv
<1>1. Init => PerceptionInv
  <2> SUFFICES ASSUME Init PROVE PerceptionInv
    OBVIOUS
  <2>1. TypeOK
    BY PerceptionConstants DEF Init, TypeOK, Zone, AllWindows
  <2>2. PresencePast /\ TracksSeen
    BY DEF Init, PresencePast, TracksSeen
  <2>3. det = Nil /\ ~UnderWay
    BY DEF Init, UnderWay
  <2> QED
    BY <2>1, <2>2, <2>3 DEF PerceptionInv, DwellSeen, HistoryCovers, NotBegun, RulesAsRead,
         ZonesAsFound, AllJudged, LoiteringIsPresence, NothingInvented,
         AfterHoursMeansClosed
<1>2. PerceptionInv /\ [Next]_vars => PerceptionInv'
  BY ReceiveKeeps, ReadRulesKeeps, LookUpKeeps, JudgeKeeps, DeleteZoneKeeps,
     SwitchRuleKeeps, ScheduleKeeps, QuietKeeps, StutterKeeps DEF Next
<1> QED
  BY <1>1, <1>2, PTL DEF Spec

(* Every variable has its type, tracks and dwell times of the tracker too. *)
THEOREM PerceptionTypes == Spec => []TypeOK
BY PerceptionInvariance, PTL DEF PerceptionInv

(* Loitering is raised only for a class that was there for that long, or   *)
(* for a dwell time that the job states.                                   *)
THEOREM LoiteringWasThere == Spec => []LoiteringIsPresence
BY PerceptionInvariance, PTL DEF PerceptionInv

(* Rules, zones and schedules that change while a detection is evaluated   *)
(* neither hide an event that was asked for all the time nor invent one    *)
(* that no rule asked for.                                                 *)
THEOREM RulesDecide == Spec => []RaisedAsConfigured
<1>1. PerceptionInv => RaisedAsConfigured
  <2> SUFFICES ASSUME PerceptionInv PROVE NothingMissed
    BY DEF PerceptionInv, RaisedAsConfigured
  <2>1. SUFFICES ASSUME det # Nil, Done(det), NEW r \in det.always
                 PROVE  Rule[r].type \in det.raised
    BY DEF NothingMissed
  <2>2. det.always \subseteq RuleId /\ Nil \notin RuleId
    BY <2>1, PerceptionConstants DEF PerceptionInv, TypeOK, Detection
  <2> QED
    BY <2>1, <2>2 DEF PerceptionInv, AllJudged, Done
<1> QED
  BY <1>1, PerceptionInvariance, PTL

(* After hours, the zone was closed.                                       *)
THEOREM AfterHoursAreClosed == Spec => []AfterHoursMeansClosed
BY PerceptionInvariance, PTL DEF PerceptionInv

----------------------------------------------------------------------------
(* Polygons cut along a diagonal.                                          *)

(* An edge a point is not on is crossed in both directions or in none.     *)
LEMMA CrossesBothWays ==
  ASSUME NEW c \in [x : Int, y : Int], NEW a \in Int \X Int, NEW b \in Int \X Int,
         ~OnCut(c, a, b)
  PROVE  Crosses(c, a, b) <=> Crosses(c, b, a)
<1>1. PICK p \in Int, q \in Int : a = <<p, q>>
  OBVIOUS
<1>2. PICK s \in Int, t \in Int : b = <<s, t>>
  OBVIOUS
<1>3. PICK x \in Int, y \in Int : c.x = x /\ c.y = y
  OBVIOUS
<1> DEFINE ab == (x - 2 * p) * (t - q) - (s - p) * (y - 2 * q)
           ba == (x - 2 * s) * (q - t) - (p - s) * (y - 2 * t)
<1>4. ab = 0 - ba
  <2>1. ab = x * t - x * q - 2 * (p * t) + 2 * (p * q)
               - (s * y - 2 * (s * q) - p * y + 2 * (p * q))
    OBVIOUS
  <2>2. ba = x * q - x * t - 2 * (s * q) + 2 * (s * t)
               - (p * y - 2 * (p * t) - s * y + 2 * (s * t))
    OBVIOUS
  <2> QED
    BY <2>1, <2>2
<1>5. Side(c, a, b) = ab /\ Side(c, b, a) = ba
  BY <1>1, <1>2, <1>3 DEF Side
<1>6. ab \in Int /\ ba \in Int
  OBVIOUS
<1> HIDE DEF ab, ba
<1>7. CASE (2 * q > y) # (2 * t > y)
  <2>1. ab # 0 /\ ba # 0
    BY <1>1, <1>2, <1>3, <1>4, <1>5, <1>6, <1>7 DEF OnCut
  <2>2. Crosses(c, a, b) <=> IF t > q THEN ab < 0 ELSE ab > 0
    BY <1>1, <1>2, <1>3, <1>5, <1>7, <2>1 DEF Crosses
  <2>3. Crosses(c, b, a) <=> IF q > t THEN ba < 0 ELSE ba > 0
    BY <1>1, <1>2, <1>3, <1>5, <1>7, <2>1 DEF Crosses
  <2>4. t # q
    BY <1>7
  <2> QED
    BY <1>4, <1>6, <2>2, <2>3, <2>4
<1>8. CASE (2 * q > y) = (2 * t > y)
  BY <1>1, <1>2, <1>3, <1>8 DEF Crosses
<1> QED
  BY <1>7, <1>8

(* Sets that a bijection relates are of one size. *)
LEMMA SameSize ==
  ASSUME NEW S, NEW T, IsFiniteSet(S), NEW f \in [S -> T],
         \A a, b \in S : f[a] = f[b] => a = b,
         \A t \in T : \E s \in S : f[s] = t
  PROVE  IsFiniteSet(T) /\ Cardinality(T) = Cardinality(S)
<1>1. f \in Bijection(S, T)
  BY Fun_IsBij
<1>2. ExistsBijection(S, T)
  BY <1>1 DEF ExistsBijection
<1> QED
  BY <1>2, FS_Bijection

(* The edges of a polygon that the ray crosses. *)
Crossed(c, points) ==
  {i \in 1..Len(points) :
     Crosses(c, points[i], points[IF i = 1 THEN Len(points) ELSE i - 1])}

LEMMA CrossedIsFinite ==
  ASSUME NEW c, NEW points \in Seq(Int \X Int)
  PROVE  IsFiniteSet(Crossed(c, points)) /\ Cardinality(Crossed(c, points)) \in Nat
<1>1. IsFiniteSet(1..Len(points))
  BY FS_Interval
<1>2. Crossed(c, points) \in SUBSET (1..Len(points))
  BY DEF Crossed
<1> QED
  BY <1>1, <1>2, FS_Subset, FS_CardinalityType

(* Pieces of a sequence, by their indices. *)
LEMMA PieceOf ==
  ASSUME NEW S, NEW s \in Seq(S), NEW from \in Nat, NEW upto \in Nat,
         1 <= from, from <= upto, upto <= Len(s)
  PROVE  /\ SubSeq(s, from, upto) \in Seq(S)
         /\ Len(SubSeq(s, from, upto)) = upto - from + 1
         /\ \A k \in 1..(upto - from + 1) : SubSeq(s, from, upto)[k] = s[from + k - 1]
<1>1. \A k \in from..upto : s[k] \in S
  OBVIOUS
<1>2. from \in Int /\ upto \in Int
  OBVIOUS
<1>3. /\ SubSeq(s, from, upto) \in Seq(S)
      /\ Len(SubSeq(s, from, upto)) = IF from <= upto THEN upto - from + 1 ELSE 0
      /\ \A k \in 1..(upto - from + 1) : SubSeq(s, from, upto)[k] = s[from + k - 1]
  BY <1>1, <1>2, SubSeqProperties
<1> QED
  BY <1>3

(* The two parts of a polygon of n points cut from its i-th to its j-th.   *)
LEMMA NearPart ==
  ASSUME NEW S, NEW points \in Seq(S), NEW i \in Nat, NEW j \in Nat,
         1 <= i, i + 2 <= j, j <= Len(points)
  PROVE  LET near == SubSeq(points, i, j) IN
         /\ near \in Seq(S) /\ Len(near) = j - i + 1
         /\ near[1] = points[i] /\ near[j - i + 1] = points[j]
         /\ \A k \in 2..(j - i + 1) :
              near[k] = points[i + k - 1] /\ near[k - 1] = points[i + k - 1 - 1]
<1> DEFINE near == SubSeq(points, i, j)
<1>1. /\ near \in Seq(S) /\ Len(near) = j - i + 1
      /\ \A k \in 1..(j - i + 1) : near[k] = points[i + k - 1]
  BY PieceOf
<1> HIDE DEF near
<1>2. near[1] = points[i] /\ near[j - i + 1] = points[j]
  <2>1. 1 \in 1..(j - i + 1) /\ j - i + 1 \in 1..(j - i + 1)
        /\ i + 1 - 1 = i /\ i + (j - i + 1) - 1 = j
    OBVIOUS
  <2> QED
    BY <1>1, <2>1
<1>3. ASSUME NEW k \in 2..(j - i + 1)
      PROVE  near[k] = points[i + k - 1] /\ near[k - 1] = points[i + k - 1 - 1]
  <2>1. k \in 1..(j - i + 1) /\ k - 1 \in 1..(j - i + 1)
        /\ i + (k - 1) - 1 = i + k - 1 - 1
    OBVIOUS
  <2> QED
    BY <1>1, <2>1
<1> QED
  BY <1>1, <1>2, <1>3 DEF near

(* The place in the polygon of a point of the far part.                    *)
Place(i, j, k) == IF k <= i THEN k ELSE j + k - i - 1

(* The two ends of the cut are neighbours in the part beyond it (zone.ts:35). *)
LEMMA CutPlaces ==
  ASSUME NEW i \in Nat, NEW j \in Nat, NEW n \in Nat, 1 <= i, j <= n
  PROVE  /\ i + 1 \in 1..(i + n - j + 1) /\ i \in 1..(i + n - j + 1) /\ i + 1 # 1
         /\ i + 1 - 1 = i /\ Place(i, j, i + 1) = j /\ Place(i, j, i) = i
BY DEF Place

Diagonal(points, i, j, n) ==
  /\ i \in Nat /\ j \in Nat /\ n \in Nat /\ n = Len(points)
  /\ 1 <= i /\ i + 2 <= j /\ j <= n
Far(points, i, j, n) == SubSeq(points, 1, i) \o SubSeq(points, j, n)
IsFarPart(S, points, i, j, n, far) ==
  /\ far \in Seq(S) /\ Len(far) = i + n - j + 1
  /\ \A k \in 1..(i + n - j + 1) : far[k] = points[Place(i, j, k)]

LEMMA FarPart ==
  ASSUME NEW S, NEW points \in Seq(S), NEW i, NEW j, NEW n, Diagonal(points, i, j, n)
  PROVE  IsFarPart(S, points, i, j, n, Far(points, i, j, n))
<1> DEFINE head == SubSeq(points, 1, i)
           tail == SubSeq(points, j, n)
           far == Far(points, i, j, n)
<1> USE DEF Diagonal
<1>0. far = head \o tail
  BY DEF Far
<1> HIDE DEF far
<1>1. /\ head \in Seq(S) /\ Len(head) = i
      /\ \A k \in 1..i : head[k] = points[k]
  <2>1. /\ head \in Seq(S) /\ Len(head) = i - 1 + 1
        /\ \A k \in 1..(i - 1 + 1) : head[k] = points[1 + k - 1]
    BY PieceOf
  <2> HIDE DEF head
  <2> QED
    BY <2>1
<1>2. /\ tail \in Seq(S) /\ Len(tail) = n - j + 1
      /\ \A k \in 1..(n - j + 1) : tail[k] = points[j + k - 1]
  BY PieceOf
<1> HIDE DEF head, tail
<1>3. /\ far \in Seq(S) /\ Len(far) = Len(head) + Len(tail)
      /\ \A k \in 1..(Len(head) + Len(tail)) :
           far[k] = IF k <= Len(head) THEN head[k] ELSE tail[k - Len(head)]
  BY <1>0, <1>1, <1>2, ConcatProperties
<1>4. ASSUME NEW k \in 1..(i + n - j + 1)
      PROVE  far[k] = points[Place(i, j, k)]
  <2>1. k \in 1..(Len(head) + Len(tail))
    BY <1>1, <1>2
  <2>2. CASE k <= i
    BY <1>1, <1>3, <2>1, <2>2 DEF Place
  <2>3. CASE ~(k <= i)
    <3>1. far[k] = tail[k - i]
      BY <1>1, <1>3, <2>1, <2>3
    <3>2. k - i \in 1..(n - j + 1) /\ j + (k - i) - 1 = j + k - i - 1
      BY <2>3
    <3> QED
      BY <1>2, <2>3, <3>1, <3>2 DEF Place
  <2> QED
    BY <2>2, <2>3
<1>5. Len(far) = i + n - j + 1
  BY <1>1, <1>2, <1>3
<1> QED
  BY <1>3, <1>4, <1>5 DEF far, IsFarPart

(* Indices of the parts are indices of the whole, and so are their         *)
(* predecessors.                                                           *)
LEMMA NearIndex ==
  ASSUME NEW i \in Nat, NEW j \in Nat, NEW n \in Nat, 1 <= i, i + 2 <= j, j <= n,
         NEW k \in 2..(j - i + 1)
  PROVE  k \in 1..(j - i + 1) /\ k # 1 /\ i + k - 1 \in 1..n /\ i + k - 1 # 1
OBVIOUS

PlacedBefore(i, j, k, n) ==
  /\ (IF k = 1 THEN i + n - j + 1 ELSE k - 1) \in 1..(i + n - j + 1)
  /\ Place(i, j, k) \in 1..n
  /\ Place(i, j, IF k = 1 THEN i + n - j + 1 ELSE k - 1) =
       IF Place(i, j, k) = 1 THEN n ELSE Place(i, j, k) - 1

LEMMA FarIndex ==
  ASSUME NEW i \in Nat, NEW j \in Nat, NEW n \in Nat, 1 <= i, i + 2 <= j, j <= n,
         NEW k \in 1..(i + n - j + 1), k # i + 1
  PROVE  PlacedBefore(i, j, k, n)
<1>1. CASE k = 1
  BY <1>1 DEF Place, PlacedBefore
<1>2. CASE k # 1 /\ k <= i
  BY <1>2 DEF Place, PlacedBefore
<1>3. CASE k > i
  BY <1>3 DEF Place, PlacedBefore
<1> QED
  BY <1>1, <1>2, <1>3

(* How many edges of the near part are crossed: those that lie between the *)
(* ends of the diagonal, and the diagonal.                                 *)
NearEdges(i, j, all, crossed) ==
  /\ i \in Nat /\ j \in Nat /\ i + 2 <= j
  /\ crossed \subseteq 1..(j - i + 1) /\ IsFiniteSet(crossed)
  /\ \A k \in 2..(j - i + 1) : k \in crossed <=> i + k - 1 \in all
Between(i, j, all) == all \cap ((i + 1)..j)
OneIf(cond) == IF cond THEN 1 ELSE 0

LEMMA NearSize ==
  ASSUME NEW i, NEW j, NEW all, NEW crossed, NearEdges(i, j, all, crossed)
  PROVE  Cardinality(crossed) =
           Cardinality(Between(i, j, all)) + OneIf(1 \in crossed)
<1> DEFINE inner == all \cap ((i + 1)..j)
           part == crossed \ {1}
           f == [k \in part |-> i + k - 1]
<1>0. /\ i \in Nat /\ j \in Nat /\ i + 2 <= j
      /\ crossed \subseteq 1..(j - i + 1) /\ IsFiniteSet(crossed)
      /\ \A k \in 2..(j - i + 1) : k \in crossed <=> i + k - 1 \in all
  BY DEF NearEdges
<1>1. IsFiniteSet(part) /\ Cardinality(part) \in Nat
      /\ Cardinality(part) = Cardinality(crossed) - IF 1 \in crossed THEN 1 ELSE 0
  BY <1>0, FS_RemoveElement, FS_CardinalityType
<1>2. Cardinality(crossed) \in Nat
  BY <1>0, FS_CardinalityType
<1>3. \A k \in part : k \in 2..(j - i + 1) /\ i + k - 1 \in all
  BY <1>0
<1>4. \A k \in 2..(j - i + 1) : i + k - 1 \in all => k \in part
  BY <1>0
<1> HIDE DEF part
<1>5. f \in [part -> inner]
  <2>1. \A k \in part : i + k - 1 \in inner
    BY <1>0, <1>3
  <2> QED
    BY <2>1
<1>6. \A a, b \in part : f[a] = f[b] => a = b
  BY <1>0, <1>3
<1>7. \A t \in inner : \E s \in part : f[s] = t
  <2> TAKE t \in inner
  <2>1. t - i + 1 \in 2..(j - i + 1) /\ i + (t - i + 1) - 1 = t
    BY <1>0 DEF inner
  <2>2. t - i + 1 \in part
    BY <1>4, <2>1
  <2> QED
    BY <2>1, <2>2
<1> HIDE DEF f, inner
<1>8. Cardinality(inner) = Cardinality(part)
  BY <1>1, <1>5, <1>6, <1>7, SameSize
<1> QED
  BY <1>1, <1>2, <1>8 DEF inner, Between, OneIf

(* And of the far part: all others, and the diagonal.                      *)
FarEdges(i, j, n, all, crossed) ==
  /\ i \in Nat /\ j \in Nat /\ n \in Nat /\ 1 <= i /\ i + 2 <= j /\ j <= n
  /\ all \subseteq 1..n
  /\ crossed \subseteq 1..(i + n - j + 1) /\ IsFiniteSet(crossed)
  /\ \A k \in 1..(i + n - j + 1) :
       k # i + 1 => (k \in crossed <=> Place(i, j, k) \in all)
Outside(i, j, all) == all \ ((i + 1)..j)

LEMMA FarSize ==
  ASSUME NEW i, NEW j, NEW n, NEW all, NEW crossed, FarEdges(i, j, n, all, crossed)
  PROVE  Cardinality(crossed) =
           Cardinality(Outside(i, j, all)) + OneIf(i + 1 \in crossed)
<1> DEFINE outer == all \ ((i + 1)..j)
           part == crossed \ {i + 1}
           f == [k \in part |-> Place(i, j, k)]
<1>0. /\ i \in Nat /\ j \in Nat /\ n \in Nat /\ 1 <= i /\ i + 2 <= j /\ j <= n
      /\ all \subseteq 1..n
      /\ crossed \subseteq 1..(i + n - j + 1) /\ IsFiniteSet(crossed)
      /\ \A k \in 1..(i + n - j + 1) :
           k # i + 1 => (k \in crossed <=> Place(i, j, k) \in all)
  BY DEF FarEdges
<1>1. IsFiniteSet(part) /\ Cardinality(part) \in Nat
      /\ Cardinality(part) = Cardinality(crossed) - IF i + 1 \in crossed THEN 1 ELSE 0
  BY <1>0, FS_RemoveElement, FS_CardinalityType
<1>2. Cardinality(crossed) \in Nat
  BY <1>0, FS_CardinalityType
<1>3. \A k \in part : k \in 1..(i + n - j + 1) /\ k # i + 1 /\ Place(i, j, k) \in all
  BY <1>0
<1>4. \A k \in 1..(i + n - j + 1) : k # i + 1 /\ Place(i, j, k) \in all => k \in part
  BY <1>0
<1> HIDE DEF part
<1>5. f \in [part -> outer]
  <2>1. \A k \in part : Place(i, j, k) \in outer
    BY <1>0, <1>3 DEF Place
  <2> QED
    BY <2>1
<1>6. \A a, b \in part : f[a] = f[b] => a = b
  BY <1>0, <1>3 DEF Place
<1>7. \A t \in outer : \E s \in part : f[s] = t
  <2> TAKE t \in outer
  <2>1. t \in 1..n /\ t \in all /\ (t <= i \/ t > j)
    BY <1>0
  <2>2. CASE t <= i
    <3>1. t \in 1..(i + n - j + 1) /\ t # i + 1 /\ Place(i, j, t) = t
      BY <1>0, <2>1, <2>2 DEF Place
    <3>2. t \in part
      BY <1>4, <2>1, <3>1
    <3> QED
      BY <3>1, <3>2
  <2>3. CASE t > j
    <3> DEFINE k == t - j + i + 1
    <3>1. k \in 1..(i + n - j + 1) /\ k # i + 1 /\ Place(i, j, k) = t
      BY <1>0, <2>1, <2>3 DEF Place
    <3> HIDE DEF k
    <3>2. k \in part
      BY <1>4, <2>1, <3>1
    <3> QED
      BY <3>1, <3>2
  <2> QED
    BY <2>1, <2>2, <2>3
<1> HIDE DEF f, outer
<1>8. Cardinality(outer) = Cardinality(part)
  BY <1>1, <1>5, <1>6, <1>7, SameSize
<1> QED
  BY <1>1, <1>2, <1>8 DEF outer, Outside, OneIf

Odd(m) == m % 2 = 1

LEMMA ParityOfParts ==
  ASSUME NEW a \in Nat, NEW b \in Nat, NEW e \in {0, 1}
  PROVE  Odd(a + b) <=> ~(Odd(a + e) <=> Odd(b + e))
BY DEF Odd

Parted(c, points, i, j, n) ==
  PointInPolygon(c, points) =
    (PointInPolygon(c, SubSeq(points, i, j)) #
     PointInPolygon(c, SubSeq(points, 1, i) \o SubSeq(points, j, n)))

(* The diagonal is an edge of both parts, and each other edge is one of    *)
(* exactly one part: a point that is not on the diagonal is in the whole   *)
(* iff it is in just one part.                                             *)
LEMMA DiagonalCuts ==
  ASSUME NEW c \in [x : Int, y : Int], NEW points \in Seq(Int \X Int),
         NEW i \in Nat, NEW j \in Nat, NEW n \in Nat, n = Len(points),
         1 <= i, i + 2 <= j, j <= n, ~OnCut(c, points[i], points[j])
  PROVE  Parted(c, points, i, j, n)
<1> DEFINE Point == Int \X Int
           near == SubSeq(points, i, j)
           far == SubSeq(points, 1, i) \o SubSeq(points, j, n)
           all == Crossed(c, points)
           ofNear == Crossed(c, near)
           ofFar == Crossed(c, far)
           inner == Between(i, j, all)
           outer == Outside(i, j, all)
<1>1. \A k \in 1..n : points[k] \in Point
  OBVIOUS
<1>2. points \in Seq(Point)
  OBVIOUS
<1> HIDE DEF Point
<1>3. /\ near \in Seq(Point) /\ Len(near) = j - i + 1
      /\ near[1] = points[i] /\ near[j - i + 1] = points[j]
      /\ \A k \in 2..(j - i + 1) :
           near[k] = points[i + k - 1] /\ near[k - 1] = points[i + k - 1 - 1]
  BY SMTT(30), <1>2, NearPart
<1>4. /\ far \in Seq(Point) /\ Len(far) = i + n - j + 1
      /\ \A k \in 1..(i + n - j + 1) : far[k] = points[Place(i, j, k)]
  <2>1. Diagonal(points, i, j, n)
    BY DEF Diagonal
  <2>2. far = Far(points, i, j, n)
    BY DEF Far
  <2>3. IsFarPart(Point, points, i, j, n, Far(points, i, j, n))
    BY <1>2, <2>1, FarPart
  <2> HIDE DEF far
  <2> QED
    BY <2>2, <2>3 DEF IsFarPart
<1> HIDE DEF near, far
<1>5. /\ IsFiniteSet(all) /\ IsFiniteSet(ofNear) /\ IsFiniteSet(ofFar)
  BY <1>2, <1>3, <1>4, CrossedIsFinite DEF Point
<1>6. /\ all \in SUBSET (1..n)
      /\ \A k \in 1..n :
           k \in all <=> Crosses(c, points[k], points[IF k = 1 THEN n ELSE k - 1])
  BY DEF Crossed
<1>7. /\ ofNear \in SUBSET (1..(j - i + 1))
      /\ \A k \in 1..(j - i + 1) :
           k \in ofNear <=> Crosses(c, near[k], near[IF k = 1 THEN j - i + 1 ELSE k - 1])
  BY <1>3 DEF Crossed
<1>8. /\ ofFar \in SUBSET (1..(i + n - j + 1))
      /\ \A k \in 1..(i + n - j + 1) :
           k \in ofFar <=> Crosses(c, far[k], far[IF k = 1 THEN i + n - j + 1 ELSE k - 1])
  BY <1>4 DEF Crossed
<1> HIDE DEF all, ofNear, ofFar
<1>9. \A k \in 2..(j - i + 1) : k \in ofNear <=> i + k - 1 \in all
  <2> TAKE k \in 2..(j - i + 1)
  <2>1. k \in 1..(j - i + 1) /\ k # 1 /\ i + k - 1 \in 1..n /\ i + k - 1 # 1
    BY NearIndex
  <2>2. k \in ofNear <=> Crosses(c, near[k], near[k - 1])
    BY <1>7, <2>1
  <2>3. i + k - 1 \in all <=> Crosses(c, points[i + k - 1], points[i + k - 1 - 1])
    <3> DEFINE at == i + k - 1
    <3>1. at \in 1..n /\ at # 1
      BY <2>1
    <3> HIDE DEF at
    <3>2. at \in all <=> Crosses(c, points[at], points[at - 1])
      BY <1>6, <3>1
    <3> QED
      BY <3>2 DEF at
  <2> QED
    BY <1>3, <2>2, <2>3
<1>10. \A k \in 1..(i + n - j + 1) :
         k # i + 1 => (k \in ofFar <=> Place(i, j, k) \in all)
  <2> TAKE k \in 1..(i + n - j + 1)
  <2>1. HAVE k # i + 1
  <2> DEFINE before == IF k = 1 THEN i + n - j + 1 ELSE k - 1
             at == Place(i, j, k)
  <2>2. before \in 1..(i + n - j + 1) /\ at \in 1..n
        /\ Place(i, j, before) = IF at = 1 THEN n ELSE at - 1
    <3>1. /\ i \in Nat /\ j \in Nat /\ n \in Nat
          /\ 1 <= i /\ i + 2 <= j /\ j <= n
      OBVIOUS
    <3>2. PlacedBefore(i, j, k, n)
      BY <2>1, <3>1, FarIndex
    <3> QED
      BY <3>2 DEF PlacedBefore
  <2>3. k \in ofFar <=> Crosses(c, far[k], far[before])
    BY <1>8
  <2>4. at \in all <=> Crosses(c, points[at], points[IF at = 1 THEN n ELSE at - 1])
    BY <1>6, <2>2
  <2>5. far[k] = points[at]
    BY <1>4
  <2> HIDE DEF before, at
  <2>6. far[before] = points[IF at = 1 THEN n ELSE at - 1]
    BY <1>4, <2>2
  <2>7. k \in ofFar <=> at \in all
    BY <2>3, <2>4, <2>5, <2>6
  <2> QED
    BY <2>7 DEF at
<1>11. 1 \in ofNear <=> i + 1 \in ofFar
  <2>1. 1 \in ofNear <=> Crosses(c, points[i], points[j])
    <3>1. 1 \in 1..(j - i + 1)
      OBVIOUS
    <3> QED
      BY <1>3, <1>7, <3>1
  <2>2. i + 1 \in ofFar <=> Crosses(c, points[j], points[i])
    <3>1. i + 1 \in 1..(i + n - j + 1) /\ i \in 1..(i + n - j + 1) /\ i + 1 # 1
          /\ i + 1 - 1 = i /\ Place(i, j, i + 1) = j /\ Place(i, j, i) = i
      <4>1. i \in Nat /\ j \in Nat /\ n \in Nat /\ 1 <= i /\ j <= n
        OBVIOUS
      <4>. QED  BY <4>1, CutPlaces
    <3>2. i + 1 \in ofFar <=> Crosses(c, far[i + 1], far[i])
      <4>1. i + 1 \in ofFar <=>
              Crosses(c, far[i + 1], far[IF i + 1 = 1 THEN i + n - j + 1 ELSE i + 1 - 1])
        <5> DEFINE k == i + 1
        <5>1. k \in 1..(i + n - j + 1)
          BY <3>1
        <5> HIDE DEF k
        <5>2. k \in ofFar <=> Crosses(c, far[k], far[IF k = 1 THEN i + n - j + 1 ELSE k - 1])
          BY <1>8, <5>1
        <5> QED
          BY <5>2 DEF k
      <4>2. (IF i + 1 = 1 THEN i + n - j + 1 ELSE i + 1 - 1) = i
        BY <3>1
      <4> QED
        BY <4>1, <4>2
    <3>3. far[i + 1] = points[j] /\ far[i] = points[i]
      BY <1>4, <3>1
    <3> QED
      BY <3>2, <3>3
  <2>3. points[i] \in Int \X Int /\ points[j] \in Int \X Int
    BY <1>1 DEF Point
  <2> QED
    BY <2>1, <2>2, <2>3, CrossesBothWays
<1>12. Cardinality(ofNear) = Cardinality(inner) + OneIf(1 \in ofNear)
  <2>1. NearEdges(i, j, all, ofNear)
    BY <1>5, <1>7, <1>9 DEF NearEdges
  <2> QED
    BY <2>1, NearSize
<1>13. Cardinality(ofFar) = Cardinality(outer) + OneIf(1 \in ofNear)
  <2>1. FarEdges(i, j, n, all, ofFar)
    BY <1>5, <1>6, <1>8, <1>10 DEF FarEdges
  <2>2. Cardinality(ofFar) = Cardinality(outer) + OneIf(i + 1 \in ofFar)
    BY <2>1, FarSize
  <2> QED
    BY <1>11, <2>2 DEF OneIf
<1>14. /\ Cardinality(inner) \in Nat /\ Cardinality(outer) \in Nat
       /\ Cardinality(all) = Cardinality(inner) + Cardinality(outer)
  <2>1. inner \in SUBSET all /\ outer \in SUBSET all
        /\ inner \cup outer = all /\ inner \cap outer = {}
    BY Zenon DEF Between, Outside
  <2> HIDE DEF inner, outer
  <2>2. /\ IsFiniteSet(inner) /\ IsFiniteSet(outer)
        /\ Cardinality(inner) \in Nat /\ Cardinality(outer) \in Nat
    BY <1>5, <2>1, FS_Subset, FS_CardinalityType
  <2>3. Cardinality(inner \cup outer) =
          Cardinality(inner) + Cardinality(outer) - Cardinality(inner \cap outer)
    BY <2>2, FS_Union
  <2>4. Cardinality(inner \cap outer) = 0
    BY <2>1, FS_EmptySet
  <2>5. Cardinality(all) = Cardinality(inner) + Cardinality(outer) - 0
    BY <2>1, <2>3, <2>4, Zenon
  <2> QED
    BY <2>2, <2>5
<1>15. \A s : PointInPolygon(c, s) <=> Cardinality(Crossed(c, s)) % 2 = 1
  BY DEF PointInPolygon, Crossed
<1>16. PointInPolygon(c, points) <=> (PointInPolygon(c, near) # PointInPolygon(c, far))
  <2>1. PICK a \in Nat, b \in Nat, e \in {0, 1} :
          a = Cardinality(inner) /\ b = Cardinality(outer) /\ e = OneIf(1 \in ofNear)
    BY <1>14 DEF OneIf
  <2>2. PointInPolygon(c, points) <=> Odd(a + b)
    BY <1>14, <1>15, <2>1 DEF all, Odd
  <2>3. PointInPolygon(c, near) <=> Odd(a + e)
    BY <1>12, <1>15, <2>1 DEF ofNear, Odd
  <2>4. PointInPolygon(c, far) <=> Odd(b + e)
    BY <1>13, <1>15, <2>1 DEF ofFar, Odd
  <2>5. Odd(a + b) <=> ~(Odd(a + e) <=> Odd(b + e))
    BY ParityOfParts
  <2>6. \A s : PointInPolygon(c, s) \in BOOLEAN
    BY DEF PointInPolygon
  <2> QED
    BY <2>2, <2>3, <2>4, <2>5, <2>6
<1> QED
  <2>1. \A s : PointInPolygon(c, s) \in BOOLEAN
    BY DEF PointInPolygon
  <2> QED
    BY <1>16, <2>1 DEF near, far, Parted

(* Zones that are cut in two share no point and miss none, but on the cut. *)
THEOREM ZonesAreTiled == Spec => []ZonesTile
<1>1. TypeOK => ZonesTile
  <2>1. SUFFICES ASSUME TypeOK, det # Nil, NEW z \in Zone, Geometry[z] # Nil,
                        Geometry[z].type = "polygon",
                        NEW i \in 1..(Len(Geometry[z].points) - 2),
                        NEW j \in 3..Len(Geometry[z].points), i + 2 <= j,
                        ~OnCut(Center(det.box), Geometry[z].points[i],
                               Geometry[z].points[j])
                 PROVE  LET points == Geometry[z].points
                            c == Center(det.box) IN
                        PointInPolygon(c, points) =
                          (PointInPolygon(c, SubSeq(points, i, j)) #
                           PointInPolygon(c, SubSeq(points, 1, i)
                                               \o SubSeq(points, j, Len(points))))
    BY DEF ZonesTile
  <2>2. Center(det.box) \in [x : Int, y : Int]
    <3>1. det.box \in [x : Int, y : Int, w : Int, h : Int]
      BY <2>1, PerceptionConstants DEF TypeOK, Detection
    <3> QED
      BY <3>1 DEF Center
  <2>3. Geometry[z].points \in Seq(Int \X Int)
    BY <2>1, PerceptionConstants
  <2> DEFINE points == Geometry[z].points
             c == Center(det.box)
             n == Len(points)
  <2>4. /\ n \in Nat /\ i \in Nat /\ j \in Nat
        /\ 1 <= i /\ i + 2 <= j /\ j <= n
    BY <2>1, <2>3
  <2>5. ~OnCut(c, points[i], points[j])
    BY <2>1
  <2>6. c \in [x : Int, y : Int] /\ points \in Seq(Int \X Int) /\ n = Len(points)
    BY <2>2, <2>3
  <2> HIDE DEF points, c, n
  <2>7. Parted(c, points, i, j, n)
    BY ZenonT(30), <2>4, <2>5, <2>6, DiagonalCuts
  <2> QED
    BY <2>7 DEF points, c, n, Parted
<1> QED
  BY <1>1, PerceptionTypes, PTL

=============================================================================
