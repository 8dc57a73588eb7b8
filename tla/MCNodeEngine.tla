---------------------------- MODULE MCNodeEngine ----------------------------
(* Graphs for NodeEngine. *)
EXTENDS NodeEngine

CONSTANTS A, B, C

To(n, out, m, pin) == [from |-> n, out |-> out, to |-> m, pin |-> pin, static |-> FALSE]
Held(n, out, m, pin) == [To(n, out, m, pin) EXCEPT !.static = TRUE]
Yields(a, b) == [n \in Nodes |-> IF n = A THEN a ELSE IF n = B THEN b ELSE <<>>]

\* Two sources meet in a join, twice.
Join == [links |-> <<To(A, "o", C, "x"), To(B, "o", C, "y")>>,
         starts |-> <<A, B>>, yields |-> Yields(<<"o", "o">>, <<"o", "o">>),
         risks |-> {"raise", "evaluation"}]
\* The same once, for the troubles that leave most to happen after them.
Brief == [Join EXCEPT !.yields = Yields(<<"o">>, <<"o">>),
                      !.risks = {"credits", "cancel", "crash"}]
\* Two sources feed one pin, and one of them the other pin too.
Merge == [links |-> <<To(A, "o", C, "x"), To(B, "o", C, "x"), To(B, "p", C, "y")>>,
          starts |-> <<A, B>>, yields |-> Yields(<<"o">>, <<"p", "o", "p">>),
          risks |-> {"evaluation"}]
\* A static value that two executions share, whichever comes first.
Static == [links |-> <<To(A, "o", C, "x"), Held(B, "o", C, "s")>>,
           starts |-> <<A, B>>, yields |-> Yields(<<"o", "o">>, <<"o">>), risks |-> {"task", "credits"}]
\* Two overlapping executions of one node, whose errors go the way of its results.
Chain == [links |-> <<To(A, "o", B, "x"), To(B, "o", C, "x"), To(B, "error", C, "x")>>,
          starts |-> <<A>>, yields |-> Yields(<<"o", "o">>, <<"o">>),
          risks |-> {"evaluation"}]
\* One such execution that may raise.
Fallible == [Chain EXCEPT !.yields = Yields(<<"o">>, <<"o">>), !.risks = {"raise", "task"}]

AllGraphs == {Join, Brief, Merge, Static, Chain, Fallible}
JustBrief == {Brief}
=============================================================================
