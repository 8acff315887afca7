--------------------------- MODULE MCHomeScreens ---------------------------
(* HomeScreens for TLC. The button for 5 km asks for 200 km.                  *)
EXTENDS HomeScreens, TLC

MCMeters == 100 :> 100 @@ 250 :> 250 @@ 5000 :> 200000
============================================================================
