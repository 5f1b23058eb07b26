\* Exchanges and requests fail, probes are cancelled; long, short and tiny lifetimes.
SPECIFICATION ClientSpec
CONSTANTS
    t1 = t1
    t2 = t2
    NoToken = NoToken
    Unlimited = Unlimited
    Tasks = {t1, t2}
    Lifetimes = {1, 3}
    _REFRESH_MARGIN_SECONDS = 2
    ExchangeLimit = 1
    RequestLimit = 1
    SleepSlack = 0
    max_retries = 1
    backoff_base_seconds = 1
    _MAX_BACKOFF_SECONDS = 1
    LastStart = 1
    MaxTime = 8
INVARIANTS HandedOutInTime OneExchangeEach TokenOutlivesRequest
PROPERTIES RefreshedOnlyWhenSpent ImplementsRetry EveryCallEnds
\* The calls end.
CHECK_DEADLOCK FALSE
