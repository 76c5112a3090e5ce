----------------------------- MODULE MCLLMSpend -----------------------------
EXTENDS LLMSpend, TLC

Symmetry == Permutations(Thread)

\* What racing threads, or a total that is NaN, let through grows without
\* limit: TLC stops soon after the cap was passed, and sooner with a NaN.
Bounded == spent <= DailyCap /\ (total = NaN => spent <= PerCallCap)
=============================================================================
