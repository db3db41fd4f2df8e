---------------------------- MODULE MCBrokers ----------------------------
EXTENDS Brokers, TLC
CONSTANTS ann, bob, fetch, gone, barred, s1, s2
Two == {ann, bob}
BothWrite == [x \in Two |-> [enabled |-> TRUE, include_referee |-> FALSE, peers |-> {}]]
Slots == {s1, s2}
AnnTwice == [s \in Slots |-> ann]
Tools == {fetch, gone, barred}
AnnGrants == [x \in {ann} |-> Tools]
Quotas == [t \in Tools |-> IF t = gone THEN NoQuota ELSE IF t = fetch THEN 2 ELSE 0]
Singled == [t \in Tools |-> IF t = fetch THEN [x \in {ann} |-> 1] ELSE <<>>]
Allowance == [x \in Two |-> IF x = ann THEN 1 ELSE 0]
=============================================================================
