------------------------------ MODULE MCSuites ------------------------------
(* Lists in either order, with unknown suites before and without known ones. *)
EXTENDS Suites

MCSuiteLists ==
    {<<>>, <<"ECDHE">>, <<"PSK">>, <<"ECDHE", "PSK">>, <<"PSK", "ECDHE">>,
     <<"OTHER">>, <<"OTHER", "PSK">>}
=============================================================================
