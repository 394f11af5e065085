---------------------------- MODULE MCScrobbling ----------------------------
(* One user with an account on two services, the second of which may never  *)
(* answer.                                                                  *)
EXTENDS Scrobbling

MCReachable == {<<"user", "listenbrainz">>}
MCBudgets   == {[plays |-> 2, saves |-> 2, toggles |-> 0, crashes |-> 1]}
=============================================================================
