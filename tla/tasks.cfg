SPECIFICATION FairSpec
CONSTANTS
  Built = {"update_rtt", "log_goodput", "log_goodput_to_client"}
  SEND_PROBE_MULTIPLIER = 2
  MaxSessions = 2
  MaxFailures = 1
INVARIANTS
  TypeOK
  TasksSeeTheirSession
  JoinHasATimer
PROPERTIES
  SessionsEnd
  
