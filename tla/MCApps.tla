------------------------------- MODULE MCApps -------------------------------
(***************************************************************************)
(* The root thread with one application, and with both in the order of     *)
(* user/apps/build.mk.                                                     *)
(***************************************************************************)
EXTENDS Apps

MCImages == {<<"l4test">>, <<"pingpong">>, <<"l4test", "pingpong">>}
=============================================================================
