---- MODULE MCRateLimiter ----
EXTENDS RateLimiter

\* Clients, and handlers, are interchangeable.
Symmetry == Permutations(Clients) \cup Permutations(Threads)

\* At most MaxAdmitted admissions of the tracked clients.
MaxAdmitted == 4

FewAdmitted == MapThenSumSet(LAMBDA c : Len(granted[c]), Clients) <= MaxAdmitted
====
