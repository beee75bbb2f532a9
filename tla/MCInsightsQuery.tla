---------------------------- MODULE MCInsightsQuery ----------------------------
(* InsightsQuery with the backoff schedule scaled down: the delays of       *)
(* BACKOFF_SCHEDULE grow, and the last is cut by the budget.                *)
EXTENDS InsightsQuery

Backoff == <<1, 2, 2, 2>>
===============================================================================
