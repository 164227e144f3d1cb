---------------------------- MODULE MCPackageRows ----------------------------
(* PackageRows for TLC, on the sites of MCSiteAudit. *)
EXTENDS PackageRows, MCSiteAudit

MCConnected == [semrush |-> FALSE, ga4 |-> TRUE]
MCImported == <<"gsc">>
=============================================================================
