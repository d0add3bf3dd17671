--------------------------- MODULE MCProbeRuntime ---------------------------
(* ProbeRuntime instantiated for TLC: a body runs one aggregation or one  *)
(* printf.                                                                 *)
EXTENDS ProbeRuntime

MCBodies == {<<"agg">>, <<"print">>}

====
