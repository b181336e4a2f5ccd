--------------------------- MODULE MetadataProofs ---------------------------
(***************************************************************************)
(* What the parsers find in every file that may be published, in whatever  *)
(* order its lines come and however they end.                              *)
(***************************************************************************)

EXTENDS Metadata, SequenceTheorems, TLAPS

AnyCell == Cell \cup Keys \cup LineEnd \cup {"NUL"}

\* Where strstr(text, key) stops, and where a value does.
Sought(key) == {key, "NUL"}
Stops       == LineEnd \cup {"NUL"}

Lacks(s, cells) == \A i \in 1..Len(s) : s[i] \notin cells

LEMMA CellsAreCells ==
    /\ Cell \subseteq AnyCell /\ Keys \subseteq AnyCell
    /\ LineEnd \subseteq AnyCell /\ "NUL" \in AnyCell
    /\ Cell \cap Stops = {} /\ Cell \cap Keys = {}
    /\ Keys \cap Stops = {}
    /\ "absent" \notin Cell
BY CellAssumption DEF AnyCell, Stops, Keys, LineEnd

\* A value is not what stands for one that is left out.
LEMMA ValueIsNotAbsent == \A v \in Seq(Cell) : v # Absent
<1>1. SUFFICES ASSUME Absent \in Seq(Cell) PROVE FALSE
  OBVIOUS
<1>2. Absent[1] \in Cell
  BY <1>1 DEF Absent
<1>3. QED
  BY <1>2, CellsAreCells DEF Absent

-----------------------------------------------------------------------------
(* Sequences of cells.                                                     *)

LEMMA OneCell ==
    ASSUME NEW cell \in AnyCell
    PROVE  <<cell>> \in Seq(AnyCell) /\ Len(<<cell>>) = 1 /\ <<cell>>[1] = cell
OBVIOUS

\* Under a name, which the provers match where they do not match the equality.
Regroups(s, t, u, w) == ((s \o t) \o u) \o w = s \o (t \o (u \o w))

LEMMA FourInARow ==
    ASSUME NEW s \in Seq(AnyCell), NEW t \in Seq(AnyCell), NEW u \in Seq(AnyCell), NEW w \in Seq(AnyCell)
    PROVE  Regroups(s, t, u, w)
<1>1. s \o t \in Seq(AnyCell) /\ u \o w \in Seq(AnyCell)
  BY ConcatProperties
<1>2. ((s \o t) \o u) \o w = (s \o t) \o (u \o w)
  BY <1>1, ConcatAssociative, SMTT(30)
<1>3. \A x \in Seq(AnyCell) : (s \o t) \o x = s \o (t \o x)
  BY ConcatAssociative, SMTT(30)
<1>4. QED
  BY <1>1, <1>2, <1>3, Zenon DEF Regroups

LEMMA LacksConcat ==
    ASSUME NEW cells, NEW s \in Seq(AnyCell), NEW t \in Seq(AnyCell), Lacks(s, cells), Lacks(t, cells)
    PROVE  s \o t \in Seq(AnyCell) /\ Lacks(s \o t, cells)
<1>1. /\ s \o t \in Seq(AnyCell) /\ Len(s \o t) = Len(s) + Len(t)
      /\ Len(s) \in Nat /\ Len(t) \in Nat
      /\ \A i \in 1..(Len(s) + Len(t)) : (s \o t)[i] = IF i =< Len(s) THEN s[i] ELSE t[i - Len(s)]
  BY ConcatProperties, LenProperties
<1>2. SUFFICES ASSUME NEW i \in 1..Len(s \o t) PROVE (s \o t)[i] \notin cells
  BY <1>1 DEF Lacks
<1>3. CASE i =< Len(s)
  BY <1>1, <1>3 DEF Lacks
<1>4. CASE i > Len(s)
  <2>1. i - Len(s) \in 1..Len(t) /\ (s \o t)[i] = t[i - Len(s)]
    BY <1>1, <1>4
  <2>2. QED
    BY <2>1 DEF Lacks
<1>5. QED
  BY <1>1, <1>3, <1>4

LEMMA LacksNothing ==
    ASSUME NEW cells
    PROVE  << >> \in Seq(AnyCell) /\ Lacks(<< >>, cells)
BY EmptySeq DEF Lacks

\* The first occurrence of a key is behind a text that holds neither it nor the NUL.
LEMMA FirstOccurrence ==
    ASSUME NEW key \in Keys, NEW before \in Seq(AnyCell), NEW after \in Seq(AnyCell),
           Lacks(before, Sought(key))
    PROVE  strstr(before \o (<<key>> \o after), key) = {Len(before) + 1}
<1> DEFINE tail == <<key>> \o after
           text == before \o tail
           at   == Len(before) + 1
<1>1. /\ <<key>> \in Seq(AnyCell) /\ Len(<<key>>) = 1 /\ <<key>>[1] = key
      /\ Len(before) \in Nat /\ Len(after) \in Nat
  BY OneCell, CellsAreCells, LenProperties
<1>2. tail \in Seq(AnyCell) /\ Len(tail) = 1 + Len(after) /\ tail[1] = key
  BY <1>1, ConcatProperties
<1> HIDE DEF tail
<1>3. /\ Len(text) = Len(before) + Len(tail)
      /\ \A i \in 1..(Len(before) + Len(tail)) :
             text[i] = IF i =< Len(before) THEN before[i] ELSE tail[i - Len(before)]
  <2>1. tail \in Seq(AnyCell)
    BY <1>2
  <2>2. QED
    BY <2>1, ConcatProperties
<1> HIDE DEF text
<1>4. at \in 1..Len(text) /\ text[at] = key /\ \A j \in 1..(at - 1) : text[j] \notin Sought(key)
  BY <1>1, <1>2, <1>3 DEF Lacks
<1>5. \A i \in 1..Len(text) : i > at => at \in 1..(i - 1)
  BY <1>1
<1>6. \A i \in 1..Len(text) : i < at => i \in 1..(at - 1)
  BY <1>1
<1>7. strstr(text, key) = {at}
  <2>1. \A i \in strstr(text, key) : i = at
    <3> SUFFICES ASSUME NEW i \in 1..Len(text), text[i] = key,
                        \A j \in 1..(i - 1) : text[j] \notin Sought(key)
                 PROVE  i = at
      BY DEF strstr, Sought
    <3>1. ~(i > at)
      BY <1>4, <1>5 DEF Sought
    <3>2. ~(i < at)
      BY <1>4, <1>6 DEF Sought
    <3>3. QED
      BY <1>1, <3>1, <3>2
  <2>2. at \in strstr(text, key)
    BY <1>4 DEF strstr, Sought
  <2>3. QED
    BY <2>1, <2>2
<1>8. QED
  BY <1>7 DEF text, tail

\* A key that is not there is not found.
LEMMA NoOccurrence ==
    ASSUME NEW key \in Keys, NEW text \in Seq(AnyCell), Lacks(text, {key})
    PROVE  strstr(text, key) = {}
BY DEF strstr, Lacks

-----------------------------------------------------------------------------
(* The shape of a file.                                                    *)

LEMMA LineShape ==
    ASSUME NEW file, NEW other \in Keys, file[other] \in Seq(Cell) \cup {Absent},
           NEW eol \in Seq(LineEnd)
    PROVE  /\ Line(file, other, eol) \in Seq(AnyCell)
           /\ \A key \in Keys \ {other} : Lacks(Line(file, other, eol), Sought(key))
           /\ \A key \in Keys : file[key] = Absent => Lacks(Line(file, other, eol), Sought(key))
<1>1. CASE file[other] = Absent
  BY <1>1, LacksNothing DEF Line
<1>2. CASE file[other] # Absent
  <2> DEFINE v == file[other]
  <2>1. v \in Seq(Cell) /\ Line(file, other, eol) = <<other>> \o v \o eol
    BY <1>2 DEF Line
  <2>2. v \in Seq(AnyCell) /\ eol \in Seq(AnyCell) /\ <<other>> \in Seq(AnyCell)
    BY <2>1, CellsAreCells, SeqMonotonic, OneCell
  <2>3. ASSUME NEW key \in Keys \ {other}
        PROVE  Lacks(Line(file, other, eol), Sought(key))
    <3>1. \A i \in 1..Len(v) : v[i] \in Cell
      BY <2>1, ElementOfSeq
    <3>2. Lacks(v, Sought(key))
      BY <3>1, CellsAreCells DEF Lacks, Sought, Stops
    <3>3. Lacks(eol, Sought(key))
      BY ElementOfSeq DEF Lacks, Sought, LineEnd, Keys
    <3>4. Lacks(<<other>>, Sought(key))
      BY <2>3, CellsAreCells DEF Lacks, Sought, Stops
    <3>5. <<other>> \o v \in Seq(AnyCell) /\ Lacks(<<other>> \o v, Sought(key))
      BY <2>2, <3>2, <3>4, LacksConcat
    <3>6. Lacks((<<other>> \o v) \o eol, Sought(key))
      BY <2>2, <3>3, <3>5, LacksConcat
    <3>7. QED
      BY <2>1, <3>6
  <2>4. Line(file, other, eol) \in Seq(AnyCell)
    BY <2>1, <2>2, ConcatProperties
  <2>5. QED
    BY <1>2, <2>3, <2>4
<1>3. QED
  BY <1>1, <1>2

\* A file has a line for a key at one place: what stands before it has not the key, and
\* what stands behind its value begins with the end of a line or of the string.
SplitAt(text, key, value, before, after) ==
    /\ before \in Seq(AnyCell) /\ Lacks(before, Sought(key))
    /\ after \in Seq(AnyCell) /\ after # << >> /\ after[1] \in Stops
    /\ text = before \o (<<key>> \o (value \o after))

TextOf(p) == Text(p.file, p.order, p.eol, p.last)

LEMMA LineSplits ==
    ASSUME NEW file, NEW key \in Keys, file[key] \in Seq(Cell), NEW eol \in Seq(LineEnd),
           NEW before \in Seq(AnyCell), NEW rest \in Seq(AnyCell), Lacks(before, Sought(key)),
           eol = << >> => rest # << >> /\ rest[1] \in Stops
    PROVE  \E after : SplitAt(before \o (Line(file, key, eol) \o rest), key, file[key], before, after)
<1> DEFINE v     == file[key]
           after == eol \o rest
<1>1. Line(file, key, eol) = <<key>> \o v \o eol
  BY ValueIsNotAbsent DEF Line
<1>2. v \in Seq(AnyCell) /\ eol \in Seq(AnyCell) /\ <<key>> \in Seq(AnyCell)
  BY CellsAreCells, SeqMonotonic, OneCell
<1>3. v \o eol \in Seq(AnyCell) /\ after \in Seq(AnyCell)
  BY <1>2, ConcatProperties
<1>4. ((<<key>> \o v) \o eol) \o rest = <<key>> \o (v \o after)
  <2>1. Regroups(<<key>>, v, eol, rest)
    BY <1>2, FourInARow
  <2>2. QED
    BY <2>1 DEF Regroups
<1>5. before \o (Line(file, key, eol) \o rest) = before \o (<<key>> \o (v \o after))
  BY <1>1, <1>4, Zenon
<1>6. after # << >> /\ after[1] \in Stops
  <2>1. CASE eol = << >>
    <3>1. after = rest
      BY <2>1, ConcatEmptySeq
    <3>2. QED
      BY <2>1, <3>1
  <2>2. CASE eol # << >>
    <3>1. Len(eol) \in Nat \ {0} /\ Len(rest) \in Nat
      BY <2>2, EmptySeq, LenProperties
    <3>2. 1 \in 1..Len(eol) /\ 1 \in 1..(Len(eol) + Len(rest)) /\ 1 =< Len(eol)
      BY <3>1
    <3>3. after[1] = eol[1] /\ Len(after) # 0
      BY <1>2, <3>1, <3>2, ConcatProperties
    <3>4. eol[1] \in LineEnd
      BY <3>2, ElementOfSeq
    <3>5. QED
      BY <3>3, <3>4, EmptySeq DEF Stops
  <2>3. QED
    BY <2>1, <2>2
<1>7. QED
  BY <1>3, <1>5, <1>6 DEF SplitAt

LEMMA DistinctKeys ==
    ASSUME NEW a, NEW b, NEW c, {a, b, c} = Keys
    PROVE  a # b /\ a # c /\ b # c
<1>1. "INTERVAL=" \in {a, b, c} /\ "VERSION=" \in {a, b, c} /\ "FILE=" \in {a, b, c}
  BY DEF Keys
<1>2. QED
  BY <1>1

\* Every key has its place in the file, or none.
LEMMA FileSplits ==
    ASSUME NEW p, Published(p), NEW key \in Keys
    PROVE  /\ p.file[key] = Absent => TextOf(p) \in Seq(AnyCell) /\ Lacks(TextOf(p), {key})
           /\ p.file[key] # Absent =>
                  /\ p.file[key] \in Seq(Cell)
                  /\ \E before, after : SplitAt(TextOf(p), key, p.file[key], before, after)
<1> DEFINE one   == Line(p.file, p.order[1], p.eol)
           two   == Line(p.file, p.order[2], p.eol)
           three == Line(p.file, p.order[3], p.last)
           nul   == <<"NUL">>
<1>1. \A k \in Keys : p.file[k] \in Seq(Cell) \cup {Absent}
  <2>1. \A v \in Number : v \in Seq(Cell)
    <3>1. ASSUME NEW cell \in Cell PROVE <<cell>> \in Seq(Cell)
      OBVIOUS
    <3>2. QED
      BY <3>1, NumberAssumption, Zenon DEF Number
  <2>2. QED
    BY <2>1 DEF Published, Keys
<1>2. /\ p.order[1] \in Keys /\ p.order[2] \in Keys /\ p.order[3] \in Keys
      /\ p.eol \in Seq(LineEnd) /\ p.eol # << >> /\ p.last \in Seq(LineEnd)
  BY DEF Published
<1>3. p.order[1] # p.order[2] /\ p.order[1] # p.order[3] /\ p.order[2] # p.order[3]
  BY DistinctKeys DEF Published
<1>4. key \in {p.order[1], p.order[2], p.order[3]}
  BY DEF Published
<1>5. one \in Seq(AnyCell) /\ two \in Seq(AnyCell) /\ three \in Seq(AnyCell)
  BY <1>1, <1>2, LineShape
<1>6. nul \in Seq(AnyCell) /\ Len(nul) = 1 /\ nul[1] \in Stops /\ nul # << >>
  BY OneCell, CellsAreCells, EmptySeq DEF Stops
<1>7. TextOf(p) = ((one \o two) \o three) \o nul
  BY DEF TextOf, Text
<1>8. /\ p.order[1] # key \/ p.file[key] = Absent => Lacks(one, Sought(key))
      /\ p.order[2] # key \/ p.file[key] = Absent => Lacks(two, Sought(key))
      /\ p.order[3] # key \/ p.file[key] = Absent => Lacks(three, Sought(key))
  BY <1>1, <1>2, LineShape
<1> HIDE DEF one, two, three, nul
<1>9. TextOf(p) = one \o (two \o (three \o nul))
  <2>1. Regroups(one, two, three, nul)
    BY <1>5, <1>6, FourInARow
  <2>2. QED
    BY <1>7, <2>1, Zenon DEF Regroups
<1>10. three \o nul \in Seq(AnyCell) /\ two \o (three \o nul) \in Seq(AnyCell) /\ one \o two \in Seq(AnyCell)
  BY <1>5, <1>6, ConcatProperties
<1>11. CASE p.file[key] = Absent
  <2>1. /\ one \o two \in Seq(AnyCell) /\ Lacks(one \o two, Sought(key))
    BY <1>5, <1>8, <1>11, LacksConcat
  <2>2. (one \o two) \o three \in Seq(AnyCell) /\ Lacks((one \o two) \o three, Sought(key))
    BY <1>5, <1>8, <1>11, <2>1, LacksConcat
  <2>3. Lacks((one \o two) \o three, {key})
    BY <2>2 DEF Lacks, Sought
  <2>4. Lacks(nul, {key})
    BY CellsAreCells, OneCell DEF Lacks, nul, Stops
  <2>5. TextOf(p) \in Seq(AnyCell) /\ Lacks(TextOf(p), {key})
    BY <1>6, <1>7, <2>2, <2>3, <2>4, LacksConcat
  <2>6. QED
    BY <1>11, <2>5
<1>12. CASE p.file[key] # Absent
  <2>1. p.file[key] \in Seq(Cell)
    BY <1>1, <1>12
  <2>2. CASE key = p.order[1]
    <3>1. \E after : SplitAt(<< >> \o (one \o (two \o (three \o nul))), key, p.file[key], << >>, after)
      BY <1>2, <1>10, <2>1, <2>2, LacksNothing, LineSplits DEF one
    <3>2. one \o (two \o (three \o nul)) \in Seq(AnyCell)
      BY <1>5, <1>10, ConcatProperties
    <3>3. << >> \o (one \o (two \o (three \o nul))) = TextOf(p)
      BY <1>9, <3>2, ConcatEmptySeq
    <3>4. QED
      BY <1>12, <2>1, <3>1, <3>3
  <2>3. CASE key = p.order[2]
    <3>1. Lacks(one, Sought(key))
      BY <1>3, <1>8, <2>3
    <3>2. \E after : SplitAt(one \o (two \o (three \o nul)), key, p.file[key], one, after)
      BY <1>2, <1>5, <1>10, <2>1, <2>3, <3>1, LineSplits DEF two
    <3>3. QED
      BY <1>9, <1>12, <2>1, <3>2
  <2>4. CASE key = p.order[3]
    <3>1. Lacks(one, Sought(key)) /\ Lacks(two, Sought(key))
      BY <1>3, <1>8, <2>4
    <3>2. Lacks(one \o two, Sought(key))
      BY <1>5, <3>1, LacksConcat
    <3>3. \E after : SplitAt((one \o two) \o (three \o nul), key, p.file[key], one \o two, after)
      BY <1>2, <1>6, <1>10, <2>1, <2>4, <3>2, LineSplits DEF three
    <3>4. (one \o two) \o (three \o nul) = TextOf(p)
      <4>1. \A x \in Seq(AnyCell) : (one \o two) \o x = one \o (two \o x)
        BY <1>5, ConcatAssociative, SMTT(30)
      <4>2. QED
        BY <1>9, <1>10, <4>1, Zenon
    <3>5. QED
      BY <1>12, <2>1, <3>3, <3>4
  <2>5. QED
    BY <1>4, <2>2, <2>3, <2>4
<1>13. QED
  BY <1>11, <1>12

-----------------------------------------------------------------------------
(* What is found.                                                          *)

\* Behind place i of the text stands v, and then something that ends a value.
ValueAt(text, i, v) ==
    /\ i \in Nat \ {0} /\ Len(text) \in Nat /\ i + Len(v) < Len(text)
    /\ text \in Seq(AnyCell)
    /\ \A k \in 1..Len(v) : text[i + k] = v[k]
    /\ text[i + Len(v) + 1] \in Stops

LEMMA SplitHasValue ==
    ASSUME NEW text, NEW key \in Keys, NEW v \in Seq(Cell), NEW before, NEW after,
           SplitAt(text, key, v, before, after)
    PROVE  strstr(text, key) = {Len(before) + 1} /\ ValueAt(text, Len(before) + 1, v)
<1> DEFINE behind == v \o after
           tail   == <<key>> \o behind
<1>1. /\ before \in Seq(AnyCell) /\ after \in Seq(AnyCell) /\ v \in Seq(AnyCell)
      /\ <<key>> \in Seq(AnyCell) /\ Len(<<key>>) = 1
      /\ after # << >> /\ after[1] \in Stops
  BY CellsAreCells, SeqMonotonic, OneCell DEF SplitAt
<1>2. /\ Len(before) \in Nat /\ Len(v) \in Nat /\ Len(after) \in Nat \ {0}
  BY <1>1, LenProperties, EmptySeq
<1>3. /\ behind \in Seq(AnyCell) /\ Len(behind) = Len(v) + Len(after)
      /\ \A k \in 1..(Len(v) + Len(after)) : behind[k] = IF k =< Len(v) THEN v[k] ELSE after[k - Len(v)]
  BY <1>1, ConcatProperties
<1> HIDE DEF behind
<1>4. /\ tail \in Seq(AnyCell) /\ Len(tail) = 1 + Len(behind)
      /\ \A k \in 1..(1 + Len(behind)) : k > 1 => tail[k] = behind[k - 1]
  BY <1>1, <1>3, ConcatProperties
<1>5. text = before \o tail /\ Lacks(before, Sought(key))
  BY DEF SplitAt, behind
<1>6. strstr(text, key) = {Len(before) + 1}
  BY <1>1, <1>3, <1>5, FirstOccurrence
<1> HIDE DEF tail
<1>7. /\ text \in Seq(AnyCell) /\ Len(text) = Len(before) + Len(tail)
      /\ \A k \in 1..(Len(before) + Len(tail)) : k > Len(before) => text[k] = tail[k - Len(before)]
  <2>1. /\ before \o tail \in Seq(AnyCell) /\ Len(before \o tail) = Len(before) + Len(tail)
        /\ \A k \in 1..(Len(before) + Len(tail)) :
               (before \o tail)[k] = IF k =< Len(before) THEN before[k] ELSE tail[k - Len(before)]
    BY <1>1, <1>4, ConcatProperties
  <2>2. \A k \in 1..(Len(before) + Len(tail)) : k > Len(before) => ~(k =< Len(before))
    BY <1>2
  <2>3. QED
    BY <1>5, <2>1, <2>2
<1>8. \A k \in 1..Len(behind) : text[Len(before) + 1 + k] = behind[k]
  <2>1. SUFFICES ASSUME NEW k \in 1..Len(behind) PROVE text[Len(before) + 1 + k] = behind[k]
    OBVIOUS
  <2>2. /\ Len(before) + 1 + k \in 1..(Len(before) + Len(tail)) /\ Len(before) + 1 + k > Len(before)
        /\ (Len(before) + 1 + k) - Len(before) = k + 1
        /\ k + 1 \in 1..(1 + Len(behind)) /\ k + 1 > 1 /\ (k + 1) - 1 = k
    BY <1>2, <1>3, <1>4
  <2>3. text[Len(before) + 1 + k] = tail[k + 1]
    BY <1>7, <2>2
  <2>4. tail[k + 1] = behind[k]
    BY <1>4, <2>2
  <2>5. QED
    BY <2>3, <2>4
<1>9. \A k \in 1..Len(v) : text[Len(before) + 1 + k] = v[k]
  BY <1>2, <1>3, <1>8
<1>10. text[Len(before) + 1 + Len(v) + 1] \in Stops
  <2>1. /\ Len(v) + 1 \in 1..Len(behind) /\ Len(v) + 1 \in 1..(Len(v) + Len(after)) /\ ~(Len(v) + 1 =< Len(v))
        /\ Len(before) + 1 + (Len(v) + 1) = Len(before) + 1 + Len(v) + 1
        /\ (Len(v) + 1) - Len(v) = 1
    BY <1>2, <1>3
  <2>2. behind[Len(v) + 1] = after[1]
    BY <1>3, <2>1
  <2>3. text[Len(before) + 1 + (Len(v) + 1)] = behind[Len(v) + 1]
    BY <1>8, <2>1
  <2>4. QED
    BY <1>1, <2>1, <2>2, <2>3
<1>11. Len(text) \in Nat /\ (Len(before) + 1) + Len(v) < Len(text)
  BY <1>2, <1>3, <1>4, <1>7
<1>12. QED
  BY <1>2, <1>6, <1>7, <1>9, <1>10, <1>11 DEF ValueAt

\* A key that has a value is found at one place, in front of that value; one that has
\* none is not found.
LEMMA KeyIsFound ==
    ASSUME NEW p, Published(p), NEW key \in Keys
    PROVE  /\ p.file[key] = Absent => strstr(TextOf(p), key) = {}
           /\ p.file[key] # Absent => /\ p.file[key] \in Seq(Cell)
                                      /\ \E i : /\ strstr(TextOf(p), key) = {i}
                                                /\ ValueAt(TextOf(p), i, p.file[key])
BY FileSplits, NoOccurrence, SplitHasValue

\* A number is read as what it is.
THEOREM NumberIsRead ==
    ASSUME NEW p, Published(p), NEW key \in {"INTERVAL=", "VERSION="}
    PROVE  /\ p.file[key] = Absent => http_parse_key_value_int(TextOf(p), key) = {}
           /\ p.file[key] # Absent =>
                  /\ http_parse_key_value_int(TextOf(p), key) = {IntOf[p.file[key][1]]}
                  /\ IntOf[p.file[key][1]] \in Int
<1>1. key \in Keys
  BY DEF Keys
<1>2. CASE p.file[key] = Absent
  BY <1>1, <1>2, KeyIsFound DEF http_parse_key_value_int
<1>3. CASE p.file[key] # Absent
  <2>1. p.file[key] \in Number
    BY <1>3 DEF Published
  <2>2. PICK cell \in DOMAIN IntOf : p.file[key] = <<cell>>
    BY <2>1 DEF Number
  <2>3. PICK i : strstr(TextOf(p), key) = {i} /\ ValueAt(TextOf(p), i, <<cell>>)
    BY <1>1, <1>3, <2>2, KeyIsFound
  <2>4. Len(<<cell>>) = 1 /\ <<cell>>[1] = cell
    OBVIOUS
  <2>5. TextOf(p)[i + 1] = cell
    BY <2>3, <2>4 DEF ValueAt
  <2>6. atoi(cell) = IntOf[cell] /\ IntOf[cell] \in Int
    BY NumberAssumption DEF atoi
  <2>7. http_parse_key_value_int(TextOf(p), key) = {IntOf[cell]}
    BY <2>3, <2>5, <2>6 DEF http_parse_key_value_int
  <2>8. QED
    BY <1>3, <2>2, <2>4, <2>6, <2>7
<1>4. QED
  BY <1>2, <1>3

LEMMA FirstIs ==
    ASSUME NEW places, NEW n \in places, places \subseteq Int, \A m \in places : n =< m
    PROVE  First(places) = n
<1>1. /\ First(places) \in places
      /\ \A m \in places : First(places) =< m
  BY DEF First
<1>2. First(places) =< n /\ n =< First(places)
  BY <1>1
<1>3. \A a, b \in Int : a =< b /\ b =< a => a = b
  OBVIOUS
<1>4. First(places) \in Int /\ n \in Int
  BY <1>1
<1>5. QED
  BY <1>2, <1>3, <1>4

\* What is copied is the value, as far as there is room for it.
LEMMA CopyIsTruncated ==
    ASSUME NEW text, NEW i, NEW v \in Seq(Cell), ValueAt(text, i, v)
    PROVE  /\ Copy(text, i) = Truncated(v)
           /\ Truncated(v) \in Seq(Cell) /\ Len(Truncated(v)) < PathSize
<1> DEFINE ends == EndOfValue(text, i)
           room == i + PathSize - 1
           m    == IF Len(v) < PathSize THEN Len(v) ELSE PathSize - 1
<1>1. /\ Len(v) \in Nat /\ PathSize \in Nat \ {0} /\ i \in Nat \ {0} /\ Len(text) \in Nat
      /\ m \in 0..Len(v) /\ m < PathSize
  BY LenProperties, PathAssumption DEF ValueAt
<1>2. i + Len(v) \in ends /\ ends \subseteq Int
  BY <1>1 DEF ValueAt, EndOfValue, Stops
<1>3. \A n \in ends : i + Len(v) =< n
  <2>1. SUFFICES ASSUME NEW n \in ends, n < i + Len(v) PROVE FALSE
    BY <1>1, <1>2
  <2>2. n \in i..(Len(text) - 1) /\ text[n + 1] \in Stops
    BY DEF EndOfValue, Stops
  <2>3. (n - i) + 1 \in 1..Len(v) /\ i + ((n - i) + 1) = n + 1
    BY <1>1, <2>1, <2>2
  <2>4. text[n + 1] = v[(n - i) + 1]
    BY <2>3 DEF ValueAt
  <2>5. v[(n - i) + 1] \in Cell
    BY <2>3, ElementOfSeq
  <2>6. QED
    BY <2>2, <2>4, <2>5, CellsAreCells
<1>4. First(ends \cup {room}) = i + m
  <2>1. i + m \in ends \cup {room}
    BY <1>1, <1>2
  <2>2. ends \cup {room} \subseteq Int
    BY <1>1, <1>2
  <2>3. \A n \in ends \cup {room} : i + m =< n
    BY <1>1, <1>2, <1>3
  <2> HIDE DEF ends, room, m
  <2>4. QED
    BY <2>1, <2>2, <2>3, FirstIs
<1>5. Copy(text, i) = SubSeq(text, i + 1, i + m)
  BY <1>4 DEF Copy
<1> HIDE DEF m
<1>6. SubSeq(text, i + 1, i + m) = SubSeq(v, 1, m)
  <2> DEFINE a == SubSeq(text, i + 1, i + m)
             b == SubSeq(v, 1, m)
  <2>1. /\ a = [k \in 1..m |-> text[k + i]]
        /\ b = [k \in 1..m |-> v[k]]
    BY <1>1
  <2>2. \A k \in 1..m : text[k + i] = v[k]
    BY <1>1 DEF ValueAt
  <2>3. QED
    BY <2>1, <2>2
<1>7. SubSeq(v, 1, m) \in Seq(Cell) /\ Len(SubSeq(v, 1, m)) = m
  BY <1>1, SubSeqProperties
<1>8. Truncated(v) = SubSeq(v, 1, m)
  BY DEF Truncated, m
<1>9. QED
  BY <1>1, <1>5, <1>6, <1>7, <1>8

\* A path is read as far as there is room for it.
THEOREM PathIsRead ==
    ASSUME NEW p, Published(p)
    PROVE  /\ p.file["FILE="] = Absent => http_parse_key_value_string(TextOf(p), "FILE=") = {}
           /\ p.file["FILE="] # Absent =>
                  /\ http_parse_key_value_string(TextOf(p), "FILE=") = {Truncated(p.file["FILE="])}
                  /\ Len(Truncated(p.file["FILE="])) < PathSize
<1>1. "FILE=" \in Keys
  BY DEF Keys
<1>2. CASE p.file["FILE="] = Absent
  BY <1>1, <1>2, KeyIsFound DEF http_parse_key_value_string
<1>3. CASE p.file["FILE="] # Absent
  <2>1. PICK i : /\ p.file["FILE="] \in Seq(Cell)
                 /\ strstr(TextOf(p), "FILE=") = {i}
                 /\ ValueAt(TextOf(p), i, p.file["FILE="])
    BY <1>1, <1>3, KeyIsFound
  <2>2. /\ Copy(TextOf(p), i) = Truncated(p.file["FILE="])
        /\ Len(Truncated(p.file["FILE="])) < PathSize
    BY <2>1, CopyIsTruncated
  <2>3. QED
    BY <1>3, <2>1, <2>2 DEF http_parse_key_value_string
<1>4. QED
  BY <1>2, <1>3
=============================================================================
