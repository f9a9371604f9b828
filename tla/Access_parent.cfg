SPECIFICATION Spec
CONSTANTS
  t1 = t1
  t2 = t2
  Threads <- TwoThreads
  Keys = {"192.168.1.7"}
  Passwords = {"admin123", "odd #1", "odd", "accented"}
  Default = "admin123"
  Short = {"odd"}
  NonAscii = {"accented"}
  Reread <- RereadOdd
  Window = 2
  LoginLimit = 2
  GeneralLimit = 2
  Lifetime = 1
  MaxTime = 2
  MaxRequests = 3
  MaxRestarts = 1
SYMMETRY AnyThread
INVARIANTS LoginsBounded SessionsCurrent PasswordKept
CHECK_DEADLOCK FALSE
