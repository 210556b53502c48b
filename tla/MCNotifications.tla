-------------------------- MODULE MCNotifications --------------------------
(***************************************************************************)
(* Two notifications and two workers are enough for a job that is run by   *)
(* two workers at once while another waits.                                *)
(***************************************************************************)
EXTENDS Notifications
=============================================================================
