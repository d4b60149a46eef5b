CONSTANTS
  person = person
  night = night
  area = area
  yard = yard
  Nil = Nil
  Box <- Boxes
  Class = {"PERSON", "FIRE"}
  Confidence = {1, 2}
  GivenDwell = {2}
  Rule <- Rules
  Geometry <- Geometries
  Unit = 6
  Rounded <- RoundedUp
  Windows <- Schedules
  TrackTtl = 1
  DayLength = 3
  WeekLength = 2
  MaxClock = 4
SPECIFICATION Spec
INVARIANTS
  TypeOK
  LoiteringIsPresence
  RaisedAsConfigured
  ZonesTile
  AfterHoursMeansClosed
CONSTRAINTS
  FireEarly
  NightStays
  OneAtATime
