\* Two connections and the tick handler; streams fail in every way.
CONSTANTS
  Links = {c1, c2}
  Ticker = ticker
  MaxMessages = 4
SPECIFICATION DeliveryFairSpec
INVARIANTS DeliveryTypeOK OneWriteAtATime
PROPERTIES  SentIsWritten
CHECK_DEADLOCK FALSE
