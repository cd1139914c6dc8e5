-------------------------- MODULE MCDeskHomeMigration --------------------------
(* An installation of two folders, the configuration and the managed         *)
(* installation, and three settings: the launcher, a new one, the locator.   *)
EXTENDS DeskHomeMigration
MCMade == {2, 3}
===============================================================================
