SPECIFICATION FairSpec
CONSTANTS
  Fds = {3, 4}
  Main = 3
  BadFd = BadFd
  Conns = {a, o}
  Clients = {a}
  Others = {o}
  Listener = Listener
  None = None
  Elsewhere = Elsewhere
  MaxLength = 15
  MaxSent = 2
  Cuts = {1}
  Wire <- MCWire
  Outcome <- MCOutcome
  Followers <- MCFollowers
INVARIANTS TypeOK ParserKnown ParserFresh
PROPERTIES ServiceSpec AllAnswered
CHECK_DEADLOCK FALSE
