SPECIFICATION Spec
CONSTANTS
  t1 = t1
  t2 = t2
  w1 = w1
  w2 = w2
  p1 = p1
  p2 = p2
  NoProxy = NoProxy
  Topic = {t1}
  Watcher = {w1}
  Proxy = {p1, p2}
  WatchTopic <- OneTopicOfWatcher
  ProxyTopic <- OneTopicOfProxy
  Cap = 3
  MaxLen = 2
  RetryMax = 1
  MaxMsgs = 4
  MaxFails = 1
  Unreadable = {}
  MaxCrashes = 1
  MaxKills = 0
INVARIANTS TypeOK RamIsTail SleepsOnlyWhenEmpty
PROPERTIES NoSecondPush MailboxSpec
CHECK_DEADLOCK FALSE
SYMMETRY Proxies
