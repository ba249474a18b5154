---------------------------- MODULE MCNamespace ----------------------------
EXTENDS Namespace

\* "a" takes one slot of a block, the others two; two blocks are a bucket of
\* the first level, so that three names need a second.
MCHash == [n \in Names |-> CASE n = "a" -> 0 [] n = "b" -> 1 [] OTHER -> 2]
MCSlots == [n \in Names |-> IF n = "a" THEN 1 ELSE 2]
MCPaths == {<<"a">>, <<".", "..", "b">>, <<"c">>, <<"a", "b">>}
MCFlatPaths == {<<"a">>, <<"b">>, <<"c">>}
MCDotPaths == {<<"b">>, <<"a", "..", "b">>}
MCTwoDirPaths == {<<"a">>, <<"c">>, <<"a", "b">>, <<"c", "b">>}
=============================================================================
