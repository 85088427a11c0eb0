--------------------------- MODULE MCServerMonitor ---------------------------
(***************************************************************************)
(* ServerMonitor with the limits of monitor_config.h.  The numbers lie on  *)
(* both sides of those limits and of each other; "piece" begins a line too *)
(* long for the buffer of fgets, of which a number is the rest.            *)
(***************************************************************************)
EXTENDS ServerMonitor, TLC

MCstrtol ==
  "0" :> 0 @@ "1" :> 1 @@ "2" :> 2 @@ "3" :> 3 @@ "4" :> 4 @@ "5" :> 5
  @@ "99" :> 99 @@ "100" :> 100 @@ "999" :> 999 @@ "1000" :> 1000
  @@ "60000" :> 60000 @@ "3600000" :> 3600000 @@ "3600001" :> 3600001
  @@ "864000" :> 864000 @@ "864001" :> 864001
  @@ "86400000" :> 86400000 @@ "86400001" :> 86400001

MCTexts == DOMAIN MCstrtol \cup {"", "local", "on", "off", "piece"}

MCNames == {"", "local"}

MCLines ==
  {<<text>> : text \in MCTexts}
    \cup {<<"piece", text>> : text \in {"1", "2", "100", "5"}}

=============================================================================
