-------------------------------- MODULE Metrics --------------------------------
(***************************************************************************)
(* core/metrics.py: the counters and latencies of a process and the rates  *)
(* read off them.  A key is a metric with a set of <<label, value>> pairs  *)
(* (they are rendered in sorted order); a rate is a fraction, unrounded.   *)
(***************************************************************************)
EXTENDS Naturals, Sequences, FiniteSets

CONSTANT None

-----------------------------------------------------------------------------
\* The keys of a dict of counters, which keeps them in the order they came in.
recorded(counters) == {counters[n].key : n \in DOMAIN counters}

\* MetricsRegistry.increment, by 1 as everywhere in the service.
increment(counters, key) ==
    IF key \in recorded(counters)
    THEN LET n == CHOOSE n \in DOMAIN counters : counters[n].key = key
         IN  [counters EXCEPT ![n] = [key |-> key, count |-> @.count + 1]]
    ELSE Append(counters, [key |-> key, count |-> 1])

\* The counters after increments under these keys, in this order.
counters_after(keys) ==
    LET after[n \in 0..Len(keys)] ==
            IF n = 0 THEN <<>> ELSE increment(after[n - 1], keys[n])
    IN  after[Len(keys)]

\* The sum over the counters that have one of these keys.
total(counters, keys) ==
    LET sum[n \in 0..Len(counters)] ==
            IF n = 0 THEN 0
            ELSE IF counters[n].key \in keys THEN sum[n - 1] + counters[n].count ELSE sum[n - 1]
    IN  sum[Len(counters)]

\* Fault: the label is looked up as if it were the only one.
_sum_where_exact(counters, metric, label) ==
    total(counters, {k \in recorded(counters) :
        k.metric = metric /\ k.labels # {} /\ (label # None => k.labels = {label})})

\* A metric over every label set, or over those with one label; the prefix it
\* looks for ends in a brace, which only a key with labels has.
_sum_where(counters, metric, label) ==
    total(counters, {k \in recorded(counters) :
        k.metric = metric /\ k.labels # {} /\ (label # None => label \in k.labels)})

\* None, not 0, when nothing has happened yet.
_ratio(numerator, denominator) ==
    IF denominator = 0 THEN None ELSE <<numerator, denominator>>

CallsTotal == [metric |-> "calls_total", labels |-> {}]

_derived_rates(counters) ==
    LET share(metric, outcome) ==
            _ratio(_sum_where(counters, metric, <<"outcome", outcome>>),
                   _sum_where(counters, metric, None))
    IN [authentication_success_rate |-> share("authentication_attempts_total", "success"),
        tool_success_rate |-> share("tool_calls_total", "SUCCESS"),
        postcall_persistence_success_rate |-> share("postcall_total", "persisted"),
        escalation_rate |->
            _ratio(_sum_where(counters, "escalations_total", None),
                   total(counters, {CallsTotal}))]

\* LatencySummary.observe
observe(summary, duration) ==
    [count |-> summary.count + 1,
     total_ms |-> summary.total_ms + duration,
     min_ms |-> IF summary.min_ms = None \/ duration < summary.min_ms
                THEN duration ELSE summary.min_ms,
     max_ms |-> IF summary.max_ms = None \/ duration > summary.max_ms
                THEN duration ELSE summary.max_ms]

LatencySummary == [count |-> 0, total_ms |-> 0, min_ms |-> None, max_ms |-> None]

\* The mean is total_ms / count when it is read.
observed(durations) ==
    LET summary[n \in 0..Len(durations)] ==
            IF n = 0 THEN LatencySummary ELSE observe(summary[n - 1], durations[n])
    IN  summary[Len(durations)]

-----------------------------------------------------------------------------
\* How many of the increments were of this metric, and of this outcome.
happened(keys, metric) == Cardinality({n \in DOMAIN keys : keys[n].metric = metric})

turned_out(keys, metric, outcome) ==
    Cardinality({n \in DOMAIN keys :
        keys[n].metric = metric /\ <<"outcome", outcome>> \in keys[n].labels})

\* Each rate is the share of what happened, whichever other labels the events
\* carried and however they were spread over them, and there is none before
\* anything has happened (core/metrics.py:126-175).
RatesCountEverything(keys) ==
    LET rates == _derived_rates(counters_after(keys))
        share(metric, outcome) ==
            IF happened(keys, metric) = 0 THEN None
            ELSE <<turned_out(keys, metric, outcome), happened(keys, metric)>>
    IN /\ rates.authentication_success_rate = share("authentication_attempts_total", "success")
       /\ rates.tool_success_rate = share("tool_calls_total", "SUCCESS")
       /\ rates.postcall_persistence_success_rate = share("postcall_total", "persisted")
       /\ rates.escalation_rate =
              IF happened(keys, "calls_total") = 0 THEN None
              ELSE <<happened(keys, "escalations_total"), happened(keys, "calls_total")>>

\* The extremes are those of all durations, a zero among them
\* (core/metrics.py:42-46).
ExtremesOfAll(durations) ==
    LET summary == observed(durations)
        all == {durations[n] : n \in DOMAIN durations}
    IN  durations # <<>> =>
            /\ summary.min_ms \in all /\ \A d \in all : summary.min_ms <= d
            /\ summary.max_ms \in all /\ \A d \in all : d <= summary.max_ms

=============================================================================
