------------------------- MODULE MCSafetySupervisor -------------------------
(***************************************************************************)
(* SafetySupervisor for TLC: the stops that tach_actions.c and app_main.c  *)
(* make, those that the interface offers besides, and what goes wrong.     *)
(***************************************************************************)
EXTENDS SafetySupervisor

NoStops == {}
MixedStops == {<<"GLOBAL", TRUE>>, <<"TACH_ALL", TRUE>>, <<"GLOBAL", FALSE>>,
               <<"PLAIN", TRUE>>, <<"PLAIN", FALSE>>}

LostHeart == {{"heart"}}
OneTrouble == {{"stream"}, {"heart"}}
BothTroubles == {{"stream", "heart"}}

=============================================================================
