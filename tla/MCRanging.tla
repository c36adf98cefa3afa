------------------------------- MODULE MCRanging -------------------------------
(* Casts for Ranging: each pair of programs on two radios, and the museum's  *)
(* tag, which is node 1, with three beacons: once with all of them answering *)
(* one poll, once with a round that is long enough for a position and for    *)
(* readings to be removed, where beacons are apart and a poll reaches one.   *)
EXTENDS Ranging

Pair(initiator, responder, times, foreign) ==
  [ prog |-> <<initiator, responder, "off", "off">>, up |-> FALSE,
    times |-> times, clock |-> <<0, 490, 0, 0>>, flight |-> <<0, 2, 0, 0>>,
    noise |-> [n \in 1..4 |-> {0}], faults |-> {"failed", "missed", "badsts"},
    reach |-> 1, apart |-> {}, foreign |-> foreign, samples |-> 1 ]

Museum(noise, reach, apart, samples) ==
  [ prog |-> <<"tag", "beacon", "beacon", "beacon">>, up |-> TRUE,
    times |-> {500}, clock |-> <<0, 100, 200, 300>>, flight |-> <<0, 0, 1, 4>>,
    noise |-> <<{0}, noise, {0}, {0}>>, faults |-> {"missed"},
    reach |-> reach, apart |-> apart, foreign |-> FALSE, samples |-> samples ]

MCCasts ==
  { Pair("init", "resp", {3, 509}, TRUE),
    Pair("init_sts", "resp_sts", {3, 509}, TRUE),
    Pair("init_nd", "resp_nd", {3, 509}, TRUE),
    Pair("init_aes", "resp_aes", {3, 509}, FALSE),
    Pair("init_aes", "resp_aes", {3}, TRUE),
    Museum({0}, 3, {}, 2), Museum({-1}, 1, {{2, 3}, {2, 4}, {3, 4}}, 5) }
=============================================================================
