SPECIFICATION Spec
CONSTANTS
  MaxEngines = 2
  Dashboards = {"d1"}
  Settings <- MCSettings
  Known <- MCKnown
  Default <- MCDefault
  CommandNames = {"resume", "halt", "resume_risk", "stop"}
  MaxCommands = 2
  MaxVersions = 3
  MaxEvents = 2
  MaxRefusals = 1
  Mixed = FALSE
CHECK_DEADLOCK FALSE
INVARIANTS OneEngine OwnCommands EffectsInOrder SettingsInForce
PROPERTIES StatusHeals CommandAnswered
