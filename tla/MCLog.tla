------------------------------- MODULE MCLog -------------------------------
EXTENDS Log
\* The first two are one person in two campaigns.
MCCampaignOf == [p \in Recipients |-> IF p = 1 THEN 1 ELSE 2]
MCAddressOf == [p \in Recipients |-> IF p <= 2 THEN 1 ELSE p]
=============================================================================
