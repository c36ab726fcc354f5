SPECIFICATION FairTransportSpec
CONSTANTS
  MaxConn = 2
  MaxTurn = 2
  EventRoom = 1
  Themes <- MCThemes
  ItemPhases = {"final_answer", "partial_answer", "commentary", "none"}
INVARIANTS TransportTypeOK OwnAnswer NothingLost StreamIsHistory
PROPERTIES CallsEnd AsksAnswered
CHECK_DEADLOCK FALSE
