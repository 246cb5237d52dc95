--------------------------- MODULE MCSenderMonitor ---------------------------
(* Constants for model checking SenderMonitor. *)
EXTENDS SenderMonitor

MCWindow == [short |-> 2, long |-> 6]

MCLimit == [short |-> 2, long |-> 4]

=============================================================================
