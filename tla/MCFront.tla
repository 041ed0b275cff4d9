------------------------------ MODULE MCFront ------------------------------
(* The pages of the front end on small instances.                          *)
EXTENDS Front
CONSTANTS e1, e2
MCFiles == {<<e1, e2, Bad>>, <<e2, e2, e1>>, <<e1>>}

\* Log: the first two recipients are one person, written to by two campaigns.
MCCampaignOf == [p \in Recipients |-> IF p = 1 THEN 1 ELSE 2]
MCAddressOf  == [p \in Recipients |-> IF p <= 2 THEN 1 ELSE p]
=============================================================================
