------------------------------ MODULE MCDelivery ------------------------------
(* An issue with two linked pull requests, of two heads and of one, and    *)
(* two calls at a time: head 1 is as report w1 says, head 2 as w2.         *)
EXTENDS Delivery, TLC

CONSTANTS p1, p2, w1, w2

MCMaxHead == p1 :> 2 @@ p2 :> 1
MCPayload == {w1, w2}
MCAsked == {"readiness", "finalize", "automation"} \X {p1} \cup {<<"finalize", p2>>, <<"close", NoPr>>}
MCSound == {<<1, w1>>, <<2, w2>>}
MCSymmetry == Permutations(Call)
=============================================================================
