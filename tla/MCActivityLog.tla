--------------------------- MODULE MCActivityLog ---------------------------
(* An instance of ActivityLog: brokers of the version of the app. *)
EXTENDS ActivityLog

NoLegacy == [w \in Writer |-> "app"]
=============================================================================
