------------------------------ MODULE MCParts ------------------------------
(* The instance of Parts that TLC checks. *)
EXTENDS Parts

Strings(S, n) == UNION {[1 .. k -> S] : k \in 0 .. n}

MCMessage == [w1 |-> <<<<1, 2, 3>>, <<4>>>>, w2 |-> <<<<5, 6>>>>]
MCUses == {[u1 |-> <<1, 2, 1>>, u2 |-> <<3, 4>>], [u1 |-> <<1, 1>>, u2 |-> <<1, 1>>]}
MCPrios == {-1, 0, 2}

Command(does, joins, amp) == [does |-> does, joins |-> joins, amp |-> amp]
Runs(joins) == Command("run", joins, "none")
Back == Command("run", << >>, "last")
Built(does) == Command(does, << >>, "none")
MCTyped == {
  <<Runs(<<"&&", "&&">>), Built("nothing"), Runs(<< >>), Built("exit")>>,
  <<Back, Built("cd"), Runs(<<"&&&">>), Built("exit")>>,
  <<Back, Back, Built("exit")>>,
  <<Back, Built("nothing"), Back>>,
  <<Command("run", <<"&&">>, "last"), Command("run", << >>, "inside"), Runs(<<"&&&", "&&">>)>>}

Line(n) == [len |-> n, end |-> FALSE]
End == [len |-> 4, end |-> TRUE]
MCLines == {<<Line(1), Line(6), Line(2)>>, <<Line(3), End>>, <<Line(6), Line(1), End>>, << >>}

MCSearches ==
  {<<re, Append(t, "NL")>> : re \in Strings({"a", ".", "*", "^", "$"}, 3), t \in Strings({"a", "b"}, 2)}
    \cup {<<re, <<"b", "a", "a", "NL">>>> : re \in Strings({"a", ".", "*", "$"}, 4)}
    \cup {<<<<"a">>, f>> : f \in Strings({"a", "b", "NL"}, 5)}

MCTexts == Strings({"a", " ", "|", ">", "&", ";", "(", ")", "<"}, 5)
============================================================================
