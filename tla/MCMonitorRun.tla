---------------------------- MODULE MCMonitorRun ----------------------------
(***************************************************************************)
(* Runs with small limits, so that sessions are short: intervals of 1 to 3 *)
(* and durations of 2 to 4, with 4 iterations at most.  The texts lie on   *)
(* both sides of all the limits; iterations may ask for more time than the *)
(* duration, and an edit of the menu may cross the other value.            *)
(***************************************************************************)
EXTENDS MonitorRun, TLC

MCstrtol == "0" :> 0 @@ "1" :> 1 @@ "2" :> 2 @@ "3" :> 3 @@ "4" :> 4 @@ "5" :> 5

MCTexts == DOMAIN MCstrtol \cup {"local", "on", "off"}

MCNames == {"local"}

MCLines == {<<text>> : text \in MCTexts}

=============================================================================
