CONSTANTS
  Channels = {"event", "work"}
  Sharers = {"task", "worker", "owner"}
  LastEvent = 1
  LastCommand = 2
  Holders = {"h1", "h2"}
  Subs = {"s1", "s2"}
  QueueSize = 1
  LastPost = 3
  Durations = {1, 2}
  LastNow = 6
  LastChange = 4
  MaxNews = 2
  Fds = {4}
  WsSenders = {"w1", "w2"}
  LastSession = 3
  LastPiece = 2
  LastRequest = 2
  MaxBody = 2
  LastAnswer = 4
  LastFrame = 4
  Base = 3
  Width = 3
  Raws <- SmallRaws
  LastSet = 2
  NoEntry = NoEntry
  Panic = Panic
  Slots = {a, b}
  LastHandle = 3
  LastBox = 3
  EthNews = 1
  Rounds = 2
  Count = 2
  Guests = {1, 2}
  NowTakers = {1, 2}
  SntpTakers = {1, 2}
  Keys = {"sta", "ap"}
  LastNews = 1
  MdnsTakers = {1, 2}
  Services = {"http", "ftp"}
  TxtKeys = {"k"}
  LastResult = 2
  AlarmTasks = {1, 2, 3}
  MaxAlarms = 2
SPECIFICATION PlatformSpec
INVARIANTS BorrowSafe NobodyOversleeps ResultIsOwn StrongNeverMisled NeverEarly
  AsyncNeverMisses AnswersAreTrue NoStrayFrame ReadsWhatWasSet HandleEndedOnce
  EachFrameOnce BodyAsPromised RepliedOnce EthPointsAlive CallbackIsOwn AlarmsWhole
  ResourcesOwned
PROPERTY CallersReturn
CHECK_DEADLOCK FALSE
