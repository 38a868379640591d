---------------------------- MODULE MCEnrollment ----------------------------
(* Every provision token is scoped to every device.                        *)
EXTENDS Enrollment

MCScope == [t \in ProvToken |-> Device]
=============================================================================
