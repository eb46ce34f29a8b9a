----------------------------- MODULE MCWebPages ------------------------------
(* The pages of the web client on instances small enough for TLC.          *)
EXTENDS WebPages, TLC

MCWidgets == <<"entity_stats", "quick_links", "status_monitor">>

\* A user of two sessions, and another one
MCOwner == "t1" :> "u1" @@ "t2" :> "u1" @@ "t3" :> "u2"

MCFormFields ==
  {[key |-> "clusters",    kind |-> "rows"],
   [key |-> "laneOrder",   kind |-> "items"],
   [key |-> "ssoEnabled",  kind |-> "switch"],
   [key |-> "defaultRole", kind |-> "role"]}

MCFirstRows == <<"a", "b">>

MCClean == "b" :> "b" @@ "B" :> "b"

MCDependent == "project" :> {"repository"}

MCEntitiesOf == "Service" :> {"s"} @@ "Team" :> {"t"}

MCKindSeq == <<"Service", "Flow">>

MCLevel == "qa" :> 2 @@ "admin" :> 4
=============================================================================
