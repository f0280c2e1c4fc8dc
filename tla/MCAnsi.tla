------------------------------- MODULE MCAnsi -------------------------------
(* A line of a few columns, and a page that keeps two lines.               *)
EXTENDS AnsiParser
MCChars  == {"a"}
MCPairs  == {"a", "w"}
MCWide   == {"w"}
MCParams == {<<0>>, <<1>>, <<2>>, <<38, 5, 1>>, <<1, 0, 1>>, <<Private>>}
=============================================================================
