--------------------------- MODULE MCPacedRequests ---------------------------
(* Paced requests on small instances; the cfg file gives the bounds. *)
EXTENDS PacedRequests

MCClockSteps == {-1, 1}

MCGateSequences == {<<>>, <<"interval">>, <<"daily">>, <<"daily_always", "interval">>}
=============================================================================
