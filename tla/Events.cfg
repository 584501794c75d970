SPECIFICATION EventsSpec
CONSTANTS
  backoffMax = 30
  Callers <- MCCallers
  MaxCalls = 4
  Posters = {"p"}
  Subs = {"s", "t"}
  Closers <- MCClosers
  Readers = {"s"}
  MaxPosts = 2
  Senders = {"p", "q"}
  FeedSubs = {"s1", "s2", "s3"}
  Channels = {"c", "d"}
  ChanOf <- MCChanOf
  FeedReaders = {"c"}
  TypeOf <- MCTypeOf
  Cap = 1
  MaxSends = 2
INVARIANTS OneSubscriptionInUse
PROPERTIES FeedDelivers MuxClosesCleanly LeavingReturns
CHECK_DEADLOCK FALSE
