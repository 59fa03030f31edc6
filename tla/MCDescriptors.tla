--------------------------- MODULE MCDescriptors ----------------------------
(* Small instances of Descriptors for TLC. *)
EXTENDS Descriptors

AllOpen == {{0, 1, 2}}

=============================================================================
