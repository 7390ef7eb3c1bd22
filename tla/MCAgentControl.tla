------------------------------ MODULE MCAgentControl ------------------------------
(* A small instance of AgentControl: two scripts at a time, an RFC that     *)
(* restarts the firewall only and that -enable restores, and one that       *)
(* restarts the agent and is not restored; a device that boots with all     *)
(* switches on, or all off.                                                 *)
EXTENDS AgentControl

Two == 1 .. 2
SateIcmp == {"sate", "icmp6"}
RouterAndBridge == {"0", "2"}
StoredConfigs == {[fp |-> b, sb |-> b, rfc |-> [s \in SateIcmp |-> b]] : b \in BOOLEAN}
=============================================================================
