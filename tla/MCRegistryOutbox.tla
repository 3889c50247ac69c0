-------------------------- MODULE MCRegistryOutbox --------------------------
(* Instances of RegistryOutbox for TLC.                                    *)
EXTENDS RegistryOutbox

=============================================================================
