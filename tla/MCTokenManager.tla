--------------------------- MODULE MCTokenManager ---------------------------
\* Instances of TokenManager for TLC.
EXTENDS TokenManager, TLC

CONSTANTS h1, h2, main, worker

\* uvicorn: the request threads share the refresher's process.
UvicornHome == [h \in Handlers |-> main]

\* gunicorn: they run in a worker forked from it.
GunicornHome == [h \in Handlers |-> worker]

Interchangeable == Permutations(Keys) \cup Permutations(Handlers)
=============================================================================
