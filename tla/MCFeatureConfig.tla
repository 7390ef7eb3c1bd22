---------------------------- MODULE MCFeatureConfig ----------------------------
(* Small instances of FeatureConfig.                                        *)
EXTENDS FeatureConfig

OneRfc == {"raptr"}

(* A device fresh from the factory, and one with the agent, safe browsing   *)
(* and data collection on.                                                  *)
On(S) == [f \in BlobFeatures \cup {"levl", "dcl", "raptr"} |-> f \in S]
FactoryOrRunning == {On({}), On({"fp", "sb", "dcl"})}

(* Everything off, and a change of several switches at once.                *)
Doc(S) == [f \in BlobFeatures |-> f \in S]
TwoDocs == {Doc({}), Doc({"fp", "sf", "pp"})}
=============================================================================
