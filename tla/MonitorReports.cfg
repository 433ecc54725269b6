\* Two full reconnects, three events: what is reported is true.
SPECIFICATION Spec
CONSTANTS
  None = None
  EventNames <- Names
  ReconnectEvents <- OfReconnection
  Events <- Connection
  MaxReconnects = 2
  MaxEvents = 3
INVARIANTS
  GenerationIsTrue
  NameIsTrue
CHECK_DEADLOCK FALSE
