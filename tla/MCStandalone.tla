---------------------------- MODULE MCStandalone ----------------------------
(* Small instances of Standalone for TLC. *)
EXTENDS Standalone, TLC

CONSTANTS r1, r2, p1, p2, p3

Willing(p) == [phone |-> p, optOut |-> FALSE, consent |-> TRUE, complete |-> TRUE]

Symmetry == Permutations(Runs)

\* Three numbers; one of them twice around an opted-out row; an incomplete, an
\* unconsenting and an unreadable row before a complete one of the same number.
MCInputs ==
    {<<Willing(p1), Willing(p2), Willing(p3)>>,
     <<Willing(p2), [Willing(p1) EXCEPT !.optOut = TRUE], Willing(p2)>>,
     <<[Willing(p1) EXCEPT !.complete = FALSE], [Willing(p2) EXCEPT !.consent = FALSE],
       [Willing(p2) EXCEPT !.phone = Bad], Willing(p1)>>}
=============================================================================
