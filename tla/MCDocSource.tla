----------------------------- MODULE MCDocSource -----------------------------
\* DocSource for TLC: a second file appears, and the first one goes.
EXTENDS DocSource

MCContents == <<{"a"}, {"b"}>>
MCWorkspaceOf == [s \in Sources |-> "w"]
MCNames == {"a", "b"}
=============================================================================
