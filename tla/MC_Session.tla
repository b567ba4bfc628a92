----------------------------- MODULE MC_Session -----------------------------
EXTENDS Session

CONSTANTS ann, bea

MCUsers == {ann, bea}

\* Two accounts differ in nothing but their name: the first code goes to ann.
AnnFirst == bound.sends = 0 /\ bound'.sends = 1 => otp'.who = ann
=============================================================================
