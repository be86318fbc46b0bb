----------------------------- MODULE MCMutation -----------------------------
(* Small instances of Mutation for TLC.                                    *)
EXTENDS Mutation, TLC

CONSTANTS k1, d1, d2, n1, n2

\* Requests for two names, the first of which is delegated at times. The same
\* request under another key competes for the name.
TwoNames == (d1 :> n1) @@ (d2 :> n2)

\* Keys run the same code: one stands for all.
OnePatient == {[key |-> k1, digest |-> d1]}
=============================================================================
