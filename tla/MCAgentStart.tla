------------------------------ MODULE MCAgentStart ------------------------------
EXTENDS AgentStart

\* One run may be held; the other starts out delayed, or is refused for good.
OneOfEach == [r \in Runs |-> IF r = "r1" THEN {"open", "held"}
                             ELSE {"later", "refused"}]
\* One run is held, the others can be claimed.
OneHeld   == [r \in Runs |-> IF r = "r1" THEN {"held"} ELSE {"open"}]

\* No call takes any time, except one that waits for a call of its own.
PromptNext == Next /\ (Tick => \E c \in Calls : pc[c] = "nested")
PromptSpec == Init /\ [][PromptNext]_vars
================================================================================
