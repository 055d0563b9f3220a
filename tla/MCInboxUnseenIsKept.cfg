SPECIFICATION Spec
CONSTANTS
  t1 = t1
  t2 = t2
  w1 = w1
  w2 = w2
  p1 = p1
  p2 = p2
  NoProxy = NoProxy
  Topic = {t1}
  Watcher = {w1}
  Proxy = {p1}
  WatchTopic <- OneTopicOfWatcher
  ProxyTopic <- OneTopicOfProxy
  Cap = 0
  MaxLen = 2
  RetryMax = 1
  MaxMsgs = 2
  MaxFails = 0
  Unreadable = {}
  MaxCrashes = 0
  MaxKills = 0
PROPERTY UnseenIsKept
CHECK_DEADLOCK FALSE
