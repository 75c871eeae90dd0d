------------------------------ MODULE Rescoring ------------------------------
(***************************************************************************)
(* A recovery run scores a session that is past, with what has been stored *)
(* since then in the tables; compared with the run of that evening.        *)
(***************************************************************************)
EXTENDS Technical

\* What the tables have of date t and before.
Evening(t) ==
    [bars |-> [d \in Dates |-> IF d <= t THEN stored[d] ELSE NoRows],
     index |-> {d \in indexed : d <= t}]

\* Nothing after T changes the score of T (resample.py:7): a run for an earlier session gives what
\* the run of its evening gave from the same bars, as long as the calendar, which is read
\* backwards from today, still reaches the first session of the window.
RescoreSame ==
    \A t \in Sessions(Tables, today) :
        today - Lookback <= WindowStart(Evening(t), t, t) =>
            TechResult(Tables, today, t, FALSE) = TechResult(Evening(t), t, t, FALSE)
==============================================================================
