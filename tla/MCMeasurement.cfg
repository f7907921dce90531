SPECIFICATION MeasurementSpec
CONSTANTS
  Legs <- MCLegs
  Mids = {0, 1, 2}
  First = 1
  Second = 2
  Grace = 3
  Cooldown = 1
  Window = 2
  Move = 2
  MinBaseline = 1
  MaxPending = 2
INVARIANTS TypeOK RowsAreTimely SlotsAreFreed
PROPERTIES OneTriggerPerEpisode
