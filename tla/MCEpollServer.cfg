CONSTANTS
  MaxEvents = 6
  MaxConnections = 3
SPECIFICATION Spec
INVARIANTS TypeOK EventsOfLiveEntries NothingLeftOpen
PROPERTIES SignalEndsServer
CHECK_DEADLOCK FALSE
