----------------------------- MODULE MCMonitoring -----------------------------
(* The instance of Monitoring that TLC checks: the database and one other    *)
(* component, which the initial state chooses.                               *)
EXTENDS Monitoring

MCWatched == {<<"mongodb", c>> : c \in Components \ {"mongodb"}}
=============================================================================
