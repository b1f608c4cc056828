------------------------------ MODULE NonceSpec ------------------------------
(***************************************************************************)
(* What the nonce store promises its callers (spec section 4.3): a nonce   *)
(* string is accepted only if the store issued it, and at most once.       *)
(* Expiry is left out here: an abstract nonce may be rejected at any time, *)
(* which is a stuttering step of this specification.                       *)
(***************************************************************************)
EXTENDS Naturals

CONSTANT Nonces            \* the nonce strings a caller can present

VARIABLES issued,          \* the nonce strings handed out so far
          uses             \* uses[n]: how often n has been accepted

vars == <<issued, uses>>

Init == /\ issued = {}
        /\ uses = [n \in Nonces |-> 0]

Issue(n) == /\ n \notin issued
            /\ issued' = issued \cup {n}
            /\ UNCHANGED uses

Consume(n) == /\ n \in issued
              /\ uses[n] = 0
              /\ uses' = [uses EXCEPT ![n] = 1]
              /\ UNCHANGED issued

Next == \E n \in Nonces : Issue(n) \/ Consume(n)

Spec == Init /\ [][Next]_vars
=============================================================================
