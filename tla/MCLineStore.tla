----------------------------- MODULE MCLineStore -----------------------------
\* Three line numbers and two texts in a memory of five records, of which an
\* address kept in a byte reaches the first two, and a cache of one or two lines.
EXTENDS LineCache, TLC
CONSTANTS a, b
Interchangeable == Permutations({a, b})
=============================================================================
