---------------------------- MODULE MCArbiter ----------------------------
EXTENDS Arbiter, TLC
CONSTANTS r1, r2, ann, bob
Two == {r1, r2}
Both == {ann, bob}
Points == {1}
=============================================================================
