---------------------------- MODULE MCHttpRequest ----------------------------
(***************************************************************************)
(* HttpRequest for TLC: responses with and without 200 OK, with the length *)
(* as a line in the middle and as the last one, and bodies that look like  *)
(* text, like lines, like an empty line, and like a status.                *)
(***************************************************************************)
EXTENDS HttpRequest

Pieces == {CR, LF, "HTTP", "200 OK", "404", "Content-Length", "number", "text",
           "b1", "b2"}

Ok     == <<"HTTP", "200 OK">>
NotOk  == <<"HTTP", "404">>
Length == <<"Content-Length", "number">>
Other  == <<"text">>

Lines ==
  {<<Ok>>, <<Ok, Length>>, <<Ok, Length, Other>>, <<NotOk>>, <<NotOk, Other>>}

HeadOf(lines) ==
  FoldLeft(LAMBDA text, line : text \o line \o <<CR, LF>>, <<>>, lines)

HeadsOfLines == {HeadOf(lines) : lines \in Lines}

Data == {<<>>, <<"b1">>, <<"b1", CR, LF, "b2">>, <<CR, LF, "b1">>,
         <<"b1", LF, CR, "b2">>, <<"200 OK", CR, LF>>}
=============================================================================
