-------------------------- MODULE MCAoiReplication --------------------------
(* Small instances of AoiReplication.                                      *)
EXTENDS AoiReplication

=============================================================================
