--------------------------------- MODULE MCTunFd ---------------------------------
(* Model-checking instance of TunFd: fewer numbers than attempts and files, so *)
(* that numbers are given out again.                                           *)
EXTENDS TunFd

CONSTANTS f1, f2

MCFds == {f1, f2}
==================================================================================
