---------------------------- MODULE MCPerception ----------------------------
(* Instances of Perception for TLC. *)
EXTENDS Perception

CONSTANTS person, night, area, yard

(* The box in the middle overlaps both others equally, which do not overlap *)
(* each other; centers are inside, on a diagonal and on the edge of a zone. *)
Boxes == {[x |-> 1, y |-> 1, w |-> 2, h |-> 2], [x |-> 2, y |-> 1, w |-> 2, h |-> 2],
          [x |-> 3, y |-> 1, w |-> 2, h |-> 2]}

Rules == [r \in {person, night} |->
  CASE r = person -> [type |-> "LOITERING_SECURITY", zone |-> area,
                      minConfidence |-> 1, minDwell |-> 2]
    [] r = night  -> [type |-> "AFTER_HOURS_ACTIVITY", zone |-> yard,
                      minConfidence |-> 2, minDwell |-> 0]]

(* The area is a polygon; the yard is a rectangle that does not say so and *)
(* begins at the top of the frame.                                         *)
Geometries == [z \in {area, yard} |->
  CASE z = area -> [type |-> "polygon", x |-> Nil, y |-> Nil, width |-> Nil, height |-> Nil,
                    points |-> << <<0, 0>>, <<4, 0>>, <<4, 2>>, <<2, 4>>, <<0, 4>> >>]
    [] z = yard -> [type |-> Nil, x |-> 3, y |-> Nil, width |-> 3, height |-> 5,
                    points |-> Nil]]

(* A center on an edge is found left of the edge in one of its directions. *)
RoundedUp ==
  LET corners == (0..4) \X (0..4) IN
  {e \in {Center(b) : b \in Boxes} \X corners \X corners : e[3][2] > e[2][2]}

(* The yard is open every night, and in the daytime of one day.            *)
Schedules == [z \in {area, yard} |->
  CASE z = area -> {}
    [] z = yard -> {[weekday |-> Nil, open |-> 2, close |-> 1],
                    [weekday |-> 0, open |-> 1, close |-> 2]}]

(* The yard is open in the night that begins on day 0.                     *)
OneNight == [z \in {area, yard} |->
  CASE z = area -> {[weekday |-> 0, open |-> 1, close |-> 2]}
    [] z = yard -> {[weekday |-> 0, open |-> 2, close |-> 1]}]

(* Bounds: one rule is switched; a fire burns at the start, in one place;  *)
(* the configuration is changed only with one person in front of the camera. *)
NightStays == night \in enabled
FireEarly ==
  /\ presence["FIRE"] # Nil => presence["FIRE"].last = 0
  /\ \A i \in DOMAIN tracks : tracks[i].label = "FIRE" => tracks[i].box.x = 1
AsAtFirst == zones = Zone /\ schedules = Windows /\ enabled = RuleId
OneAtATime ==
  ~AsAtFirst => Len(tracks) <= 1 /\ \A i \in DOMAIN tracks : tracks[i].label = "PERSON"
=============================================================================
