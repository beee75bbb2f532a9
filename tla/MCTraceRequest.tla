---------------------------- MODULE MCTraceRequest ----------------------------
(* TraceRequest over the three registered sources, with a short schedule. *)
EXTENDS TraceRequest

Backoff == <<1, 2, 2>>
===============================================================================
