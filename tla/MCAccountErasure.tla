---------------------------- MODULE MCAccountErasure ----------------------------
\* An instance of AccountErasure: two vacancies, two uploads, two requests, two API
\* processes.
EXTENDS AccountErasure

CONSTANTS j1, j2, k1, k2, r1, r2, w1, w2

TwoVacancies == {j1, j2}
TwoUploads == {k1, k2}
TwoRequests == {r1, r2}
TwoProcesses == {w1, w2}

=============================================================================
