----------------------------- MODULE MCAsyncJobs -----------------------------
(* The start calls the server's tools make: two publishes of one checkout, *)
(* and a monitor watch that may be retried.                                *)
EXTENDS AsyncJobs

CONSTANTS publishA, publishB, watch, checkout, input1, input2, w1

Publish(k, i) == [key |-> k, input |-> i, scope |-> checkout, singleFlight |-> TRUE,
                  cancellable |-> FALSE, retry |-> FALSE]
Watch == [key |-> watch, input |-> input1, scope |-> NoKey, singleFlight |-> FALSE,
          cancellable |-> TRUE, retry |-> TRUE]
(* No tool combines single flight with cancellation yet; the registry      *)
(* accepts it.                                                             *)
Cancellable == [key |-> publishB, input |-> input1, scope |-> checkout, singleFlight |-> TRUE,
                cancellable |-> TRUE, retry |-> FALSE]

MCRequest == {Publish(publishA, input1), Publish(publishA, input2), Cancellable, Watch}
=============================================================================
