------------------------------ MODULE MCOrgScan ------------------------------
(* Small instances of OrgScan. *)
EXTENDS OrgScan
===============================================================================
