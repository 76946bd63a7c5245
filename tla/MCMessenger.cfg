\* Up to two constructNode attempts; a two-second wait polled every second,
\* so the deadline and the second poll fire together; one peer.  One
\* goroutine of each kind: the pubsub loop stands for printLogsStats and
\* checkExternalLoggers, which also select first on netMes.ctx.
CONSTANTS
    MaxRetriesIfBindError = 2
    Goroutines = {"pubsubLoop", "pocRefresh", "connCheck"}
    MaxWaitingTime = 2
    PollInterval = 1
    MaxPeers = 1
SPECIFICATION MessengerSpec
CHECK_DEADLOCK FALSE
PROPERTY GoroutinesStopAfterClose
PROPERTY WaitReturns
