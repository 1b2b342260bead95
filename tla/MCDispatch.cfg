SPECIFICATION DispatchFairSpec
CONSTANTS
    w1 = w1
    w2 = w2
    Workers = {w1, w2}
    NextWorker <- MCNextWorker
    Fds = {f1, f2}
    NoFd = NoFd
    IdleTimeout = 0
    MaxConns = 2
    PipeSize = 2
    MaxConnects = 3
    MaxSeconds = 1
  
PROPERTIES  ListensAgain
CHECK_DEADLOCK FALSE
