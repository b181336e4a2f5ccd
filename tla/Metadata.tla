------------------------------ MODULE Metadata ------------------------------
(***************************************************************************)
(* The key/value parsers of https_client.c on the metadata file.           *)
(*                                                                         *)
(* A text is a sequence of cells: a key with its "=", a number, a letter   *)
(* of a path, the end of a line, or the NUL that ends the string.  What a  *)
(* parser finds is a set, empty where the code returns -1.                 *)
(***************************************************************************)

EXTENDS Integers, Sequences

CONSTANTS Cell,             \* what values are made of: numbers, letters of a path
          IntOf,            \* the numbers: a function from their cells to integers
          PathSize          \* of server_firmware_path, the NUL included

LineEnd == {"CR", "LF"}
Keys    == {"INTERVAL=", "VERSION=", "FILE="}
Absent  == <<"absent">>

ASSUME PathAssumption   == PathSize \in Nat \ {0}
ASSUME NumberAssumption == /\ DOMAIN IntOf \subseteq Cell
                           /\ \A cell \in DOMAIN IntOf : IntOf[cell] \in Int
ASSUME CellAssumption   == Cell \cap (Keys \cup LineEnd \cup {"NUL", "absent"}) = {}

\* The first occurrence of key in the string.
strstr(text, key) ==
    {i \in 1..Len(text) : /\ text[i] = key
                          /\ \A j \in 1..(i - 1) : text[j] \notin {key, "NUL"}}

atoi(cell) == IF cell \in DOMAIN IntOf THEN IntOf[cell] ELSE 0

http_parse_key_value_int(text, key) == {atoi(text[i + 1]) : i \in strstr(text, key)}

\* Where a copy of what is behind place i may stop: before the end of the line or of
\* the string.
EndOfValue(text, i) == {n \in i..(Len(text) - 1) : text[n + 1] \in LineEnd \cup {"NUL"}}

First(places) == CHOOSE n \in places : \A m \in places : n =< m

\* Mutant: there is no limit.
CopyAll(text, i) == SubSeq(text, i + 1, First(EndOfValue(text, i)))

\* No more is copied than there is room for in front of the NUL.
Copy(text, i) ==
    SubSeq(text, i + 1, First(EndOfValue(text, i) \cup {i + PathSize - 1}))

http_parse_key_value_string(text, key) == {Copy(text, i) : i \in strstr(text, key)}

-----------------------------------------------------------------------------
(* The reference: the file as it is published.  It gives each key a value, *)
(* a sequence of cells, or leaves it out.                                  *)

Line(file, key, eol) == IF file[key] = Absent THEN << >> ELSE <<key>> \o file[key] \o eol

Text(file, order, eol, last) ==
    Line(file, order[1], eol) \o Line(file, order[2], eol) \o Line(file, order[3], last)
        \o <<"NUL">>

\* What a file may hold, in lines of any order: the last one may lack its end.
Number == {<<cell>> : cell \in DOMAIN IntOf}

Published(p) ==
    /\ p.file["INTERVAL="] \in Number \cup {Absent}
    /\ p.file["VERSION="] \in Number \cup {Absent}
    /\ p.file["FILE="] \in Seq(Cell) \cup {Absent}
    /\ {p.order[1], p.order[2], p.order[3]} = Keys
    /\ p.eol \in Seq(LineEnd) \ {<< >>}
    /\ p.last \in Seq(LineEnd)

Truncated(value) == SubSeq(value, 1, IF Len(value) < PathSize THEN Len(value) ELSE PathSize - 1)
=============================================================================
