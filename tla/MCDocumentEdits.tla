-------------------------- MODULE MCDocumentEdits --------------------------
(***************************************************************************)
(* Instances of DocumentEdits: files of up to three lines, one of them for *)
(* the key A in one of the ways a value is written.                        *)
(***************************************************************************)
EXTENDS DocumentEdits

A == <<"A">>
B == <<"B">>
G == <<"G">>

Words == {"A", "B", "G", "x", "n"}
Keys == {A, B}
Values == { << >>, <<"x">>, <<"x", Space, Hash, "x">>, <<"'", Hash>>, <<Backslash, "\"">>,
            <<"x", LF, "A", Equals, "n">>, <<"x", LF, "B", Equals, "n">> }
Names == { << >>, Other, G, <<"x">> }
Descriptions == { << >>, << <<"x">>, <<"n">> >> }

\* The ways A is written, without the end of the line.
Written ==
  { <<"A", Equals, "x">>, <<"A", Equals>>,
    <<Export, Space, "A", Space, Equals, Space, "x", Space, Hash, "x">>,
    <<"A", Equals, "\"", "x", Backslash, "\"", "\"">>, <<"A", Equals, "'", "x", "'", Space, Hash>> }
Troubled ==
  { <<"A", Equals, Space, Hash, "x">>, <<"A", Equals, "\"", "x", LF, "n", "\"">> }

Around ==
  { <<"B", Equals, "x">>, <<Hash, "x">>, <<Hash, Space, Group, Space, "G">>, << >>,
    <<Hash, Space, Marker, Space, "G", Space, Marker>>, <<"x">> }

Below == { <<"B", Equals, "x">>, <<Hash, Space, Group, Space, "G">>, <<Hash, "x">> }

Files(lines, below, newline, end) ==
  { first \o newline \o line \o newline \o last \o end :
      first \in Around, line \in lines, last \in below }

\* Files that the edits find plain.
PlainFiles ==
  Files(Written, Below, <<LF>>, <<LF>>) \cup Files({ <<"A", Equals, "x">> }, Below, <<CR, LF>>, <<CR, LF>>)

\* Files that end within a line, or hold a value the edits have trouble with.
RaggedFiles == Files(Written \cup Troubled, Around, <<LF>>, << >>)
=============================================================================
