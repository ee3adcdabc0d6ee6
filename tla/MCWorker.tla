------------------------------ MODULE MCWorker ------------------------------
(* Worker on small instances; each .cfg picks the features it exercises. *)
EXTENDS WorkerProps, TLC

CONSTANTS r1, r2

Stop(r)      == Control("stop", r, "now")
StopLater(r) == Control("stop", r, "later")
BadStop(r)   == Control("stop", r, "bad")
Withdraw(r)  == Control("withdraw", r, "")
Durable(r)   == Control("subscribe", r, "durable")
Lease(r)     == Control("subscribe", r, "lease")
BadSub(r)    == Control("subscribe", r, "bad")
Unknown(r)   == Control("unknown", r, "")

NoAsks     == {}
StopAsks   == {Stop(r1), BadStop(r1), Withdraw(r1), Stop(NoId)}
FaultAsks  == {Stop(r1), Lease(r1), Durable(r1), BadSub(r1), Unknown(r1)}
LiveAsks   == {Stop(r1), StopLater(r1), Lease(r1)}

Release   == {<<"cause", TRUE>>}
BothKinds == {<<"lost", TRUE>>, <<"cause", FALSE>>}

(* The requests and the calls share a budget: many of both are not needed *)
(* together for a fault to bite.                                            *)
SharedBudget == asked + called <= 5

Symmetric == Permutations(Workers)
=============================================================================
