SPECIFICATION FairSpec
CONSTANTS
  Radios = {"sim", "adapter"}
  Rilds = {"rild"}
  Guests = {g1, g2}
  NoGuest = NoGuest
  MaxHandled = 3
  MaxLives = 1
  MaxVisits = 2
INVARIANTS EndsOnlyInTelephony QuietAfterStop PropertiesTellTheState
PROPERTIES HandlerReturns AskedIsAnswered
CHECK_DEADLOCK FALSE
