------------------------------ MODULE MCAdminApi ----------------------------
(***************************************************************************)
(* Instances of AdminApi for TLC.                                          *)
(***************************************************************************)
EXTENDS AdminApi, TLC

CONSTANTS m1

Lists == {{m1}}
=============================================================================
