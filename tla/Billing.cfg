CONSTANTS
  Handlers = {h1, h2}
  MaxVersion = 3
  Subscriber <- MCSubscriber
  Strangers = {3}
  MaxSyncs = 1
  MaxFaults = 1
SPECIFICATION Spec
INVARIANTS OneHandlerPerEvent ProcessedIsApplied AckedIsApplied
PROPERTIES LoneSyncAgrees OlderOnlyByOverlap EventsAreApplied
