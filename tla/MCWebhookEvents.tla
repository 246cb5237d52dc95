-------------------------- MODULE MCWebhookEvents ---------------------------
(* Constants for model checking WebhookEvents. *)
EXTENDS WebhookEvents, TLC

CONSTANTS a1, a2, b1, b2, b3

\* A batch in which what the filters skip precedes the transfers, to two recipients, one of
\* whom is paid twice by one transaction; a batch of one transfer; and one with nothing to
\* notify.
MCActivities ==
    b1 :> << [to |-> a1, kind |-> "spam", hash |-> "x"],
             [to |-> a1, kind |-> "worthless", hash |-> "x"],
             [to |-> a2, kind |-> "transfer", hash |-> "x"],
             [to |-> a1, kind |-> "transfer", hash |-> "y"],
             [to |-> a1, kind |-> "transfer", hash |-> "y"] >>
    @@ b3 :> << [to |-> a2, kind |-> "internal", hash |-> "w"] >>
    @@ b2 :> << [to |-> a1, kind |-> "transfer", hash |-> "z"],
                [to |-> a1, kind |-> "no_recipient", hash |-> "z"] >>

=============================================================================
