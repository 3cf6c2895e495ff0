------------------------------ MODULE MCEvents ------------------------------
(* EventStream on a small instance. *)
EXTENDS EventStream

\* telemetry rows are capped (at one here), audit rows never are.
CapOfClass == [telemetry |-> 1, audit |-> 0]
SomeShapes == {[class |-> "telemetry", reach |-> "wanted"], [class |-> "telemetry", reach |-> "hidden"],
               [class |-> "audit", reach |-> "narrowed"]}
=============================================================================
