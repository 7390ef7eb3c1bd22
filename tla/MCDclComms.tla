----------------------------- MODULE MCDclComms -----------------------------
(* Small instances of DclComms.                                            *)
EXTENDS DclComms

(* A disconnect of a station that may have a collection, and a temperature *)
(* reading: the notify values 4 and 10 add up to NOTIFY_SOCKET_THREAD_STOP. *)
StationAndTemperature == {<<"station", "radio">>, <<"temperature">>}
StationUpdate == {<<"station", "radio">>}
=============================================================================
