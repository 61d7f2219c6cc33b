--------------------------- MODULE MCControlPlane ---------------------------
(* Instances of ControlPlane for TLC.                                      *)
EXTENDS ControlPlane

CONSTANTS t1, n1

OneName == [t \in Tenants |-> n1]

Bare(type) == [type |-> type, wipe |-> {}]

DeployDestroy == {Bare("deploy"), [type |-> "destroy", wipe |-> {"volume", "workspace"}]}

=============================================================================
