\* Three callers that submit again and again, no cancellation.
CONSTANTS
  kill = kill
  boot = boot
  r1 = r1
  r2 = r2
  Nobody = Nobody
  Callers = {kill, boot, r1}
  Prio <- MCPrio
  MaxRetries = 1
  Cancels = FALSE
SPECIFICATION FairSpec
PROPERTIES CallsAreSpaced NoStarvation
