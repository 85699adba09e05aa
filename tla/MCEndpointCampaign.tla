------------------------ MODULE MCEndpointCampaign ------------------------
(***************************************************************************)
(* Three gated endpoints with inputs that tell them apart.                 *)
(***************************************************************************)
EXTENDS EndpointCampaign

CONSTANTS d1, d2, d3

MCTiles == <<d1, d2, d3>>
MCDev == {d1, d2, d3}
MCInputs == [d \in MCDev |-> [i \in 1..MaxWords |->
               IF d = d1 THEN i ELSE IF d = d2 THEN 10 + i ELSE 20 + i]]
NoWrites == [f \in Field |-> {}]
MCCases == {"none", "request_failure", "completion_failure", "log_capacity",
            "stale_epoch", "invalid_range"}
=============================================================================
