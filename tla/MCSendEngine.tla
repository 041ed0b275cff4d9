---------------------------- MODULE MCSendEngine ----------------------------
(* The send engine on small instances.                                     *)
EXTENDS SendEngine, TLC

\* One campaign holds every contact.
OneCampaign == [c \in Contacts |-> CHOOSE k \in Campaigns : TRUE]

\* One contact each.
CampaignEach ==
  CHOOSE f \in [Contacts -> Campaigns] : \A k \in Campaigns : \E c \in Contacts : f[c] = k

Symmetry == Permutations(Contacts) \cup Permutations(Workers)
=============================================================================
