---------------------------- MODULE MCEventFeed ----------------------------
(***************************************************************************)
(* Instance of EventFeed: the CONSTANTs are in the .cfg files.             *)
(***************************************************************************)
EXTENDS EventFeed
=============================================================================
