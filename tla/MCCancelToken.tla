------------------------------ MODULE MCCancelToken ------------------------------
(* Model-checking instance of CancelToken: three waiters, so that they can     *)
(* stand at three different steps of cancelled(), and two clones that cancel.  *)
EXTENDS CancelToken

CONSTANTS w1, w2, w3, c1, c2

MCWaiters == {w1, w2, w3}
MCCancellers == {c1, c2}
==================================================================================
