---------------------------- MODULE MCNonceStore ----------------------------
(* Model-checking instance of NonceStore.  The cfgs give two keys and two *)
(* values, so two nonces can be live at once, a window of one tick and a   *)
(* clock of three, so a nonce can be fresh, at the edge of the window, and *)
(* expired when it is checked.  Keys and values are interchangeable.       *)
EXTENDS NonceStore, TLC

Symmetry == Permutations(Keys) \cup Permutations(Vals)
=============================================================================
