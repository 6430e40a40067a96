SPECIFICATION Spec
CONSTANTS
  web = web  host = host  node = node  open = open  close = close  app = app  gone = gone
  t1 = t1  t2 = t2  t3 = t3  t4 = t4  t5 = t5  t6 = t6  t7 = t7
  sshkey = sshkey  token = token  ca = ca  p1 = p1  p2 = p2  d1 = d1  chat = chat  pager = pager  board = board
  Never = Never  NoRouting = NoRouting
  Targets <- MCTargets
  Via <- MCVia
  Vaulted <- MCVaulted
  Configs <- MCConfigs
  Topic <- MCTopic
  Severity <- MCSeverity
  NotifyOn <- MCNotifyOn
  Routing <- MCRouting
  Workloads <- OneCommand
  Retention = 3
  MaxTime = 4
  Pods = {p1, p2, d1}
  Daemons = {d1}
  Channels = {chat, pager, board}
  Place <- MCPlace
  Malformed = {chat}
  Window = 2
  Pagers = {pager}
  Threads = 2
  Ids = {1, 2, 3}
  MaxRestarts = 1
  Faults = {}
INVARIANTS EveryPagerTold
CHECK_DEADLOCK FALSE
