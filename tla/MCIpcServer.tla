------------------------------ MODULE MCIpcServer ------------------------------
(* Model-checking instances of IpcServer.  A connection meets another one only *)
(* in what it does to the session, a cancel, which EngineCancels does as well: *)
(* one client is enough.                                                       *)
EXTENDS IpcServer

CONSTANT c1

OneClient == {c1}
==================================================================================
