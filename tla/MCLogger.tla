-------------------------------- MODULE MCLogger --------------------------------
(* A small instance of Logger: an hour of 2 and periods of 2 to 5 minutes,  *)
(* so that a period is one hour, whole hours, or leaves a rest.             *)
EXTENDS Logger

AskedValues == {1, 2, 3, 4, 5, 6}
StoredValues == {Unset, 2, 5}
=============================================================================
