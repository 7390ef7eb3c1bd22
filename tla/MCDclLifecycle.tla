--------------------------- MODULE MCDclLifecycle ---------------------------
(* The instance is given by the configurations.                            *)
EXTENDS DclLifecycle
=============================================================================
