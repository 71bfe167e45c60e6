------------------------------ MODULE MCSending ------------------------------
(* A small instance of Sending. *)
EXTENDS Sending

CONSTANTS me, bob, mask, other, almost, decoy

Attached(n) == [name |-> n, inline |-> FALSE]
Embedded(n) == [name |-> n, inline |-> TRUE]
MCFile == {Attached(n) : n \in {"a", "exe"}} \cup {Embedded("b")}
Mail(to, files, size) ==
  [to |-> to, files |-> files, size |-> size, quotes |-> FALSE]
Quoting(to, files) == [Mail(to, files, 1) EXCEPT !.quotes = TRUE]

\* No recipients, one, one twice, two within, one at a mask, one elsewhere and one
\* at a domain whose name contains ours, one at a domain whose name contains that
\* of the masks; two files of one name, one inline and one prohibited; sizes that
\* fit in both forms, in one, and in none; a text that quotes the content id.
MCMessage ==
  {Mail(<<>>, <<Attached("a")>>, 1),
   Mail(<<bob>>, <<Attached("a"), Attached("a")>>, 1),
   Mail(<<bob, bob>>, <<Attached("a")>>, 1),
   Mail(<<bob, me>>, <<Embedded("b"), Attached("a")>>, 1),
   Mail(<<bob>>, <<Attached("a")>>, 2),
   Mail(<<mask>>, <<Embedded("b")>>, 1),
   Mail(<<bob, other>>, <<Attached("a")>>, 1),
   Mail(<<almost>>, <<Attached("a")>>, 3),
   Quoting(<<decoy>>, <<>>),
   Mail(<<bob>>, <<Attached("exe")>>, 1)}
=============================================================================
