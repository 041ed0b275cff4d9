------------------------------- MODULE Quota -------------------------------
(***************************************************************************)
(* Sharing one daily allowance between campaigns (services/quota.ts): in   *)
(* proportion to what each has left, in whole messages.                    *)
(*                                                                         *)
(* Campaigns are numbered in the order of the list.  A deal is what each   *)
(* has left, the allowance, and a first share for each.                    *)
(***************************************************************************)
EXTENDS Integers, FiniteSetsExt

CONSTANTS
  MaxSharing,   \* the split is compared with its reference for up to so many campaigns,
  MaxNeed       \* with up to this much left in each

Total(f) == MapThenSumSet(LAMBDA i : f[i], DOMAIN f)
Larger(a, b) == IF a > b THEN a ELSE b
Smaller(a, b) == IF a < b THEN a ELSE b

\* The exact share, less what i has, in units of 1 / Total(needs).
Short(d, i) == d.needs[i] * d.limit - d.shares[i] * Total(d.needs)

\* Largest remainder first when handing out, smallest first when taking back.
Before(d, i, j) ==
  \/ IF Total(d.shares) < d.limit THEN Short(d, i) > Short(d, j) ELSE Short(d, i) < Short(d, j)
  \/ Short(d, i) = Short(d, j) /\ i < j

\* One pass in that order: a message more, or less, for each that can, while any is left.
Pass(d, s) ==
  LET left   == d.limit - Total(s)
      able   == {i \in DOMAIN s : IF left > 0 THEN s[i] < d.needs[i] ELSE s[i] > 1}
      served == {i \in able : Cardinality({j \in able : Before(d, j, i)})
                               < Larger(left, -left)}
  IN  [i \in DOMAIN s |-> IF i \notin served THEN s[i]
                          ELSE IF left > 0 THEN s[i] + 1 ELSE s[i] - 1]

\* distribute: two passes more than there are campaigns.
Distribute(d) ==
  LET passes == Cardinality(DOMAIN d.needs) + 2
      after[n \in 0..passes] == IF n = 0 THEN d.shares ELSE Pass(d, after[n - 1])
  IN  after[passes]

\* Variant: nobody is kept above zero.
FloorOnly(exact, need) == Smaller(exact, need)

\* At least one, never more than it can use.
Floored(exact, need) == Smaller(Larger(1, exact), need)

\* suggestShares, of what each has left.
NoShares == [i \in {} |-> 0]
Suggest(needs, limit) ==
  IF Cardinality(DOMAIN needs) \notin 1..limit THEN NoShares
  ELSE Distribute([needs |-> needs, limit |-> limit, shares |->
         [i \in DOMAIN needs |-> Floored((needs[i] * limit) \div Total(needs), needs[i])]])

-----------------------------------------------------------------------------
\* A fair split, of quota.ts: "the shares always sum to exactly the allowance" (or to
\* what is left, when that is less), "nobody gets 0", "nobody gets more than it can
\* use", more left is never a smaller share, and where neither rule bends the
\* proportion it is kept within one message.
Fair(needs, limit, shares) ==
  LET total == Total(needs)
      Kept  == limit <= total /\ \A j \in DOMAIN needs : needs[j] * limit >= total IN
  /\ DOMAIN shares = DOMAIN needs /\ Total(shares) = Smaller(limit, total)
  /\ \A i \in DOMAIN needs :
       /\ shares[i] \in 1..needs[i]
       /\ \A j \in DOMAIN needs : needs[i] > needs[j] => shares[i] >= shares[j]
       /\ Kept => needs[i] * limit - shares[i] * total \in -(total - 1)..(total - 1)

\* Every split is fair, whatever is left and allowed.
SharesAreFair ==
  \A n \in 1..MaxSharing : \A needs \in [1..n -> 1..MaxNeed], limit \in n..(MaxNeed + 2) :
    Fair(needs, limit, Suggest(needs, limit))
=============================================================================
