----------------------------- MODULE MCBilling -----------------------------
(* Billing on small instances: whose sessions and requests there are.        *)
EXTENDS Billing, TLC
CONSTANTS alice, bob, s1, s2, r1

\* Two users with a session each; alice also looks at her balance.
OwnerEach == (s1 :> alice) @@ (s2 :> bob) @@ (r1 :> alice)
\* Two sessions and a request of one user.
OwnerSame == [x \in {s1, s2, r1} |-> alice]
=============================================================================
