-------------------------------- MODULE MCEvent --------------------------------
(***************************************************************************)
(* Instances of Event.  Delays are those of the repository's callers in    *)
(* kind: whole seconds (appclient.c, probe.c, damon.c) and fractions of    *)
(* one second (glut.c, glx.c).                                             *)
(***************************************************************************)
EXTENDS Event

Mixed     == {Time(0, 1), Time(1, 0), Time(2, 0)}
OneSecond == {Time(1, 0)}
================================================================================
