SPECIFICATION Spec
CONSTANTS
  r1 = r1
  r2 = r2
  Projects <- MCProjects
  Zones <- MCZones
  Start = 138
  MaxHour = 192
  MaxCommands = 2
  Faults = TRUE
PROPERTIES
  OncePerDay
  NoDayMissed
CHECK_DEADLOCK FALSE
