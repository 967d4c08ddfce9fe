--------------------------- MODULE MCNodeInstall ----------------------------
(* NodeInstall on small instances.                                         *)
EXTENDS NodeInstall
=============================================================================
