-------------------------------- MODULE Null --------------------------------
(* The null pointer: a value that is no address, object or port.           *)
CONSTANT NULL
=============================================================================
