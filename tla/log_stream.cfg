CONSTANTS
  None = None
  Loggers = {t1, t2}
  Malformed = Malformed
  NoticeSize <- SizeOfNotice
  Messages <- SomeMessages
  MaxEvents = 2
  MaxBytes = 7
  MaxEventSize = 4
  Padding = 1
  Future = 0
  Past = 1
  Span = 1
  Retries = 2
  MaxNow = 2
  MaxTicks = 1
  MaxLogged = 3
SPECIFICATION FairSpec
INVARIANT TypeOK
INVARIANT BatchAccepted
INVARIANT CharactersWhole
INVARIANT OrderKept
PROPERTY ChannelSpec
PROPERTY CloseReturns
CHECK_DEADLOCK FALSE
