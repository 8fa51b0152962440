\* Two streams, buffers of two events and one event more than fits.
SPECIFICATION FairSpec
CONSTANTS
  Streams = {s1, s2}
  Publisher = publisher
  Buffer = 2
  MaxEvents = 3
  Closer = closer
  Nobody = nobody
INVARIANTS
  NeverPanics
  NoSubscriptionLeaks
  EventsAfterOpenArrive
  DropsAreFollowed
PROPERTIES
  ShutdownCompletes
