---------------------------- MODULE MCAgentState ----------------------------
(* Instances of AgentState for TLC. *)
EXTENDS AgentState

Decision(tool, passed, amount, bindable) ==
    [agent |-> "bot", passed |-> passed, tool |-> tool, risk |-> "financial",
     amount |-> amount, bindable |-> bindable]

Pay == Decision("pay", TRUE, 2, TRUE)
Look == Decision("look", FALSE, None, TRUE)
Odd == Decision("pay", TRUE, None, FALSE)   \* its amount cannot be bound

Query(kind, key) == [kind |-> kind, agent |-> "bot", key |-> key]

MCWorks ==
    [w1 |-> {[kind |-> "record_decision_batch", records |-> <<Pay, Look>>],
             [kind |-> "record_decision_batch", records |-> <<Pay, Odd>>]},
     w2 |-> {[kind |-> "record_decision", records |-> <<Pay>>]},
     q  |-> {Query("detect_velocity_spike", "pay"), Query("compute_K", None),
             Query("compute_V", None), Query("get_total_amount", "financial"),
             Query("get_recent_tools", None), Query("get_history", None)}]

\* In memory; on a file; on a file that another process uses as well.
MCDeployments ==
    {[memory |-> TRUE, storeOf |-> [t \in Threads |-> "s1"]],
     [memory |-> FALSE, storeOf |-> [t \in Threads |-> "s1"]],
     [memory |-> FALSE, storeOf |-> [t \in Threads |-> IF t = "w1" THEN "s2" ELSE "s1"]]}
=============================================================================
