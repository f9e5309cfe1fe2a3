------------------------------ MODULE MCApiKeys ------------------------------
(* Instances of ApiKeys for TLC: workerCall is a call of the worker, every     *)
(* other one runs in the Api process.                                          *)
EXTENDS ApiKeys

CONSTANTS worker, workerCall

CallsIn == [c \in Calls |-> IF c = workerCall THEN worker ELSE Api]
=============================================================================
