---------------------------- MODULE MCRateLimit ----------------------------
(* Constants for model checking RateLimit: the limits and the lives keep    *)
(* the order they have in the code (minute, short ban, hour, long ban).     *)
EXTENDS RateLimit

MCLimit == [minute |-> 2, hour |-> 3]

MCLife == [minute |-> 1, short |-> 2, hour |-> 3, long |-> 4]

=============================================================================
