--------------------------- MODULE MCOrchestrator ---------------------------
(* A small instance of Orchestrator: plans of three tasks.                  *)
EXTENDS Orchestrator

CONSTANTS a, b, c, x, nil

MCIds == {a, b, c}

Rows(types, deps) ==
  <<[id |-> a, type |-> types[1], dependsOn |-> deps[1]],
    [id |-> b, type |-> types[2], dependsOn |-> deps[2]],
    [id |-> c, type |-> types[3], dependsOn |-> deps[3]]>>

\* Lists of the two other tasks.
Lists(p, q) == {<<>>, <<p>>, <<q>>, <<p, q>>}
Graphs == {<<k, l, m>> : k \in Lists(b, c), l \in Lists(a, c), m \in Lists(a, b)}

\* Every graph of three tasks, with and without the types ValidatePlan wants.
Typings == {<<"research", "knowledge_graph", "synthesis">>, <<"synthesis", "research", "knowledge_graph">>,
            <<"synthesis", "knowledge_graph", "synthesis">>, <<"research", "other", "synthesis">>,
            <<"research", "knowledge_graph", "other">>, <<"unknown", "knowledge_graph", "synthesis">>}
Plain == {[tasks |-> Rows(t, g), order |-> <<>>] : t \in Typings, g \in Graphs}

\* Execution orders: right, wrong, too short, with an id twice or unknown.
Chain == {<<<<>>, <<a>>, <<a, b>>>>, <<<<>>, <<>>, <<a>>>>, <<<<b>>, <<c>>, <<>>>>}
Orders == {<<a, b, c>>, <<c, b, a>>, <<b, a, c>>, <<a, b>>, <<a, a, c>>, <<a, b, c, c>>, <<a, b, x>>, <<x, a, b, c>>}
Ordered == {[tasks |-> Rows(<<"research", "knowledge_graph", "synthesis">>, g), order |-> o] :
              g \in Chain, o \in Orders}

\* Dependencies on the task itself, on no task and given twice; an id twice; two tasks, none.
Odd == {[tasks |-> Rows(<<"research", "knowledge_graph", "synthesis">>, <<<<>>, <<>>, l>>), order |-> <<>>] :
          l \in {<<c>>, <<x>>, <<a, a>>, <<a, x>>}}
       \cup {[tasks |-> <<Rows(<<"research", "synthesis", "other">>, <<<<>>, <<>>, <<>>>>)[i],
                          [id |-> a, type |-> "knowledge_graph", dependsOn |-> <<>>]>>,
              order |-> <<>>] : i \in {1, 2}}
       \cup {[tasks |-> <<>>, order |-> <<>>]}

MCDocuments == Plain \cup Ordered \cup Odd

Limits(cost, tokens, time, threshold, approval) ==
  [maxCost |-> cost, maxTokens |-> tokens, maxTime |-> time, threshold |-> threshold,
   requireApproval |-> approval]
MCBudgets == {Limits(nil, nil, nil, nil, FALSE), Limits(0, nil, nil, 0, FALSE),
              Limits(1, nil, 1, 1, FALSE), Limits(2, 1, nil, nil, FALSE), Limits(nil, nil, nil, nil, TRUE)}

MCUsages == {[cost |-> 0, tokens |-> 0], [cost |-> 1, tokens |-> 0], [cost |-> 1, tokens |-> 1]}
=============================================================================
