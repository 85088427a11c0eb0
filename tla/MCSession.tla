------------------------------ MODULE MCSession ------------------------------
(***************************************************************************)
(* Small sessions for TLC.  The intervals and durations keep the ratios    *)
(* that matter: a duration that is a multiple of the interval, one that is *)
(* not, one equal to it; sessions of one and of several iterations, whose  *)
(* duration may be shorter than the interval (validation allows it then).  *)
(***************************************************************************)
EXTENDS Session

Config(interval, duration, n, live) ==
  [interval_ms |-> interval, duration_ms |-> duration,
   iterations |-> n, live_output |-> live]

MCConfigs ==
  {Config(i, d, 0, live) : i \in {2, 3}, d \in {3, 4, 5}, live \in BOOLEAN}
    \cup {Config(i, 1, n, FALSE) : i \in {1, 2}, n \in {1, 3}}

MCStartTimes == {0, 3}

=============================================================================
