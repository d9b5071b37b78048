------------------------------ MODULE MCEngine ------------------------------
(* Lists in either order, with unknown suites before and without known ones. *)
EXTENDS Engine

MCSuiteLists ==
    {<<>>, <<"ECDHE">>, <<"PSK">>, <<"ECDHE", "PSK">>, <<"PSK", "ECDHE">>,
     <<"OTHER">>, <<"OTHER", "PSK">>}
=============================================================================
