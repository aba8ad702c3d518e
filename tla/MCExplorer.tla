----------------------------- MODULE MCExplorer -----------------------------
(***************************************************************************)
(* The Explorer on a bus with one device of two properties, on which late  *)
(* responses and two queries at once can give one property the value of    *)
(* the other.                                                              *)
(***************************************************************************)
EXTENDS Explorer

CONSTANT d1

MCHome == <<d1, d1>>

\* A second query beside the first one, which an edit makes possible; edits
\* that overtake each other; a device in and out of the table; and scans
\* after a scan, or after a query that fails.
MCSession ==
  {<<"scan", "get", "set", "get">>, <<"scan", "set", "set">>,
   <<"scan", "get", "check", "check">>, <<"failed", "scan", "scan">>}

MCTyped == {<<1, 1>>}
=============================================================================
