SPECIFICATION FairSpec
CONSTANTS
  Tab = {t1, t2}
  Nobody = nobody
  Gone = gone
  Ttl = 5
  HeartbeatEvery = 2
  MaxMounts = 4
INVARIANTS TypeOK LockRespected HolderStaysFresh
PROPERTY LoneTabWorks
CHECK_DEADLOCK FALSE
