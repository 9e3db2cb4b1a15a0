--------------------------------- MODULE PgText ---------------------------------
(***************************************************************************)
(* What postgresql makes of the text it is given: a line of COPY, the text *)
(* of a composite value, of an array and of the basic types.  External:    *)
(* modelled from its manual, as far as fill-pg's lines go.                 *)
(***************************************************************************)
EXTENDS Integers, Sequences, FiniteSetsExt, SequencesExt

Backslash == "\\"
Quote == "\""
Tab == "\t"
Newline == "\n"

\* A cell that is null, and text that postgresql refuses.
NullCell == [null |-> TRUE]
Refused == [refused |-> TRUE]

\* The parts of a text between the places where it is split.
Parts(text, IsEnd(_)) ==
  LET places == SelectSeq([i \in DOMAIN text |-> i], IsEnd)
      ends == <<0>> \o places \o <<Len(text) + 1>>
  IN [k \in 1..(Len(ends) - 1) |-> [from |-> ends[k] + 1, to |-> ends[k + 1] - 1]]

\* A backslash takes the next character as it is, and is not part of the text: a
\* character after an odd number of them is taken.
Taken(text, i) == (i - Max({0} \cup {j \in 1..(i - 1) : text[j] # Backslash})) % 2 = 0
Means(text, i) == Taken(text, i) \/ text[i] # Backslash

\* In a COPY line the character may stand for another one.  Lines are split at tabs.
Unescaped(c) == CASE c = "t" -> Tab [] c = "n" -> Newline [] OTHER -> c
Unescape(text) ==
  LET left == SelectSeq([i \in DOMAIN text |-> i], LAMBDA i : Means(text, i))
  IN [k \in DOMAIN left |-> IF Taken(text, left[k]) THEN Unescaped(text[left[k]]) ELSE text[left[k]]]
CopyColumns(line) ==
  LET column(text) == IF text = <<Backslash, "N">> THEN NullCell ELSE [text |-> Unescape(text)]
      split == Parts(line, LAMBDA i : line[i] = Tab)
  IN [i \in DOMAIN split |-> column(SubSeq(line, split[i].from, split[i].to))]

\* The items of a composite value or an array, between its brackets: split at the
\* commas outside quotes; an item without text or quotes is null.
Items(text, open, close) ==
  LET inner == SubSeq(text, 2, Len(text) - 1)
      quotes == {i \in DOMAIN inner : inner[i] = Quote /\ ~Taken(inner, i)}
      quoted(i) == Cardinality({q \in quotes : q < i}) % 2 = 1
      split == Parts(inner, LAMBDA i : inner[i] = "," /\ ~Taken(inner, i) /\ ~quoted(i))
      places(part) == [i \in 1..(part.to - part.from + 1) |-> part.from + i - 1]
      left(part) == SelectSeq(places(part), LAMBDA i : i \notin quotes /\ Means(inner, i))
      item(part) == IF part.to < part.from THEN NullCell
                    ELSE [text |-> [k \in DOMAIN left(part) |-> inner[left(part)[k]]]]
  IN IF Len(text) < 2 \/ Head(text) # open \/ Last(text) # close \/ Cardinality(quotes) % 2 = 1
       THEN <<Refused>>
     ELSE IF open = "{" /\ inner = <<>> THEN <<>>
     ELSE [k \in DOMAIN split |-> item(split[k])]

\* bytea: hexadecimal after \x; any other text is the bytes' characters, with
\* a backslash doubled.
Bytea(text) ==
  IF Len(text) >= 2 /\ SubSeq(text, 1, 2) = <<Backslash, "x">>
    THEN [hex |-> SubSeq(text, 3, Len(text))]
    ELSE [chars |-> Unescape(text)]

Basic(base, text) ==
  CASE base = "bytea" -> Bytea(text)
    [] base \notin {"bytea", "varchar", "varchar(13)", "varchar(64)"} /\ text = <<>> -> Refused
    [] OTHER -> [text |-> text]

\* A cell as a value of an sql type; types has the columns of the composite ones.
RECURSIVE Read(_, _, _)
Read(types, type, cell) ==
  LET element == [type EXCEPT !.dims = @ - 1]
      elements == Items(cell.text, "{", "}")
      cells == Items(cell.text, "(", ")")
      columns == types[type.base]
  IN IF cell \in {NullCell, Refused} THEN cell
     ELSE IF type.dims > 0 THEN [i \in DOMAIN elements |-> Read(types, element, elements[i])]
     ELSE IF ~type.composite THEN Basic(type.base, cell.text)
     ELSE IF Len(cells) # Len(columns) THEN Refused
     ELSE [i \in DOMAIN cells |-> Read(types, columns[i].type, cells[i])]
==============================================================================
