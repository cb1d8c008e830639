------------------------------ MODULE MCOAuth ------------------------------
(* Instances of OAuth for TLC. *)
EXTENDS OAuth

CONSTANTS s1, s2, k1, k2, c1, c2, u1, u2, r1, r2

TwoStates == {s1, s2}
TwoCodes == {k1, k2}
TwoCalls == {c1, c2}
TwoUsers == {u1, u2}
TwoRedirects == {r1, r2}
OneHint == {u1}

=============================================================================
