--------------------------- MODULE MCWatchdogTiming ---------------------------
EXTENDS WatchdogTiming

\* 30 30 60 120 300 300 seconds in units of 30.
Schedule == <<1, 1, 2, 4, 10, 10>>
\* 24 rounds of wait_for_health, each a sleep of 5 s and a curl of at most 5 s;
\* a curl of 5 s and an ssh of 20 s fit into one unit.
Attempt == Command + LongestWait
ScheduleBudget[k \in 0..Len(Schedule)] ==
    IF k = 0 THEN Poll + Attempt
             ELSE ScheduleBudget[k - 1] + Schedule[k] + Attempt
\* Up to eight minutes: one more than the wait and the longest backoff.
Loads == 1..16
=============================================================================
