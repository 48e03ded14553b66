\* Three callers of the three priorities, tasks cancelled at any await.
CONSTANTS
  kill = kill
  boot = boot
  r1 = r1
  r2 = r2
  Nobody = Nobody
  Callers = {kill, boot, r1}
  Prio <- MCPrio
  MaxRetries = 1
  Cancels = TRUE
SPECIFICATION Spec
INVARIANTS TypeOK SerialCalls NoneStranded KillOvertakenOnce
