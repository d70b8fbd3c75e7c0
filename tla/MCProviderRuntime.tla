---- MODULE MCProviderRuntime ----
\* Instance of ProviderRuntime for TLC: the two providers and tasks enough to
\* queue behind one another.
EXTENDS ProviderRuntime
====
