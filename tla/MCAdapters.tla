----------------------------- MODULE MCAdapters -----------------------------
(* Instances of Adapters for TLC. *)
EXTENDS Adapters

Tool(name, methods, keywords, risk, capability) ==
    [name |-> name, methods |-> methods, keywords |-> keywords, risk |-> risk,
     capability |-> capability]

\* A name may hold the keywords of two categories; `ghost` is not registered.
Read == Tool("get", {"invoke", "call"}, {"read_only"}, None, None)
Pay == Tool("list_and_pay", {"invoke", "ainvoke"}, {"payment_initiation", "read_only"}, None, None)
Book == Tool("book", {"call"}, {}, "write", None)
Ghost == Tool("ghost", {}, {}, None, None)
MCTools == {Read, Pay, Book, Ghost}

CallOf(id, tool, args) == [id |-> id, tool |-> tool, args |-> args]

\* t3's adapter was given neither a gate nor a policy.
MCAdapter == [t1 |-> LangGraphAinvoke, t2 |-> LlamaIndexAcall, t3 |-> OpenAIInvoke]
MCScript ==
    [t1 |-> <<CallOf("a", Read, "x"), CallOf("b", Pay, "y"), CallOf("c", Read, "z")>>,
     t2 |-> <<CallOf("d", Book, "y"), CallOf("e", Ghost, "x")>>,
     t3 |-> <<CallOf("f", Read, "x")>>]
MCTurns == [t1 |-> <<2, 3>>, t2 |-> <<1, 2>>, t3 |-> <<1>>]
MCMaxAttempts == [t1 |-> 2, t2 |-> 2, t3 |-> 1]

MCGrantable == {Capability(LangGraphCall, Pay)}

MCPolicy ==
    [x \in {Capability(e, tool) : e \in EntryPoints, tool \in MCTools}
            \X ({Categories[i] : i \in DOMAIN Categories} \cup {"medium"}) |->
        IF x[2] \in {"payment_initiation", "write"} THEN "ask" ELSE "allow"]
=============================================================================
