------------------------------- MODULE MCServer -------------------------------
EXTENDS Server

\* The model of the environment, another one, and none at all.
SomeSettings == {[llm |-> TRUE, model |-> "other"], [llm |-> FALSE, model |-> ""]}
=============================================================================
