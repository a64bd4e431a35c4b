-------------------------- MODULE MCDaemonLifecycle -------------------------
(* DaemonLifecycle with a home directory, the data directory in it, and    *)
(* volumes inside and outside of it.                                       *)
EXTENDS DaemonLifecycle

MCHome == <<"Users", "u">>
MCDataDir == MCHome \o <<"pelagos">>
XdgDataDir == <<"xdg", "pelagos">>

InHome == VolumeArg(MCHome \o <<"src">>, <<"w">>, FALSE)
OutA == VolumeArg(<<"a">>, <<"w">>, TRUE)
OutB == VolumeArg(<<"b">>, <<"w">>, FALSE)

NoVolumeArgs == {<<>>}
MCVolumeArgs == {<<>>, <<InHome>>, <<OutA, InHome, OutB>>}
=============================================================================
