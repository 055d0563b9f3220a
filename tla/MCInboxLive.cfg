SPECIFICATION FairSpec
CONSTANTS
  t1 = t1
  t2 = t2
  w1 = w1
  w2 = w2
  p1 = p1
  p2 = p2
  NoProxy = NoProxy
  Topic = {t1}
  Watcher = {w1, w2}
  Proxy = {p1}
  WatchTopic <- OneTopicOfWatcher
  ProxyTopic <- OneTopicOfProxy
  Cap = 0
  MaxLen = 1
  RetryMax = 2
  MaxMsgs = 2
  MaxFails = 1
  Unreadable = {1}
  MaxCrashes = 1
  MaxKills = 1
PROPERTIES BufferedIsOffered ReadReturns
CHECK_DEADLOCK FALSE
