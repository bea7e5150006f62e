------------------------------- MODULE MCBrowse -------------------------------
(* The lists alone; nobody signs in or changes roles. *)
EXTENDS Browse

MCBrowseSpec ==
  BrowseInit /\ RolesInit /\ [][BrowseNext /\ UNCHANGED rolesVars]_<<browseVars, rolesVars>>
=============================================================================
