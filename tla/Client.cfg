\* A page that sends up to six requests, two at a time or one by one.
CONSTANTS
  MaxRequests = 6
  MaxFlights = 2
  MaxSentences = 3
  MaxRecordings = 2
SPECIFICATION FairSpec
INVARIANTS TypeOK StartedInOrder PageIsSound VoiceIsSound
PROPERTIES QueueDrains
\* Users may stop clicking.
CHECK_DEADLOCK FALSE
