------------------------------ MODULE Doxygen ------------------------------
(***************************************************************************)
(* src/domain/doxygen.c: the tags of comment text, and the alignment of    *)
(* the descriptions of @param and @retval.                                 *)
(*                                                                         *)
(* A word is what no wrap breaks (an atom of atom_split); its bytes are    *)
(* abstracted to a width in columns and to what the line classifiers make  *)
(* of it.  One blank separates two words of a line, but for the pad blanks *)
(* more behind the words a tag line freezes.                               *)
(***************************************************************************)
EXTENDS Integers, SequencesExt

CONSTANTS
  Word,      \* the words of comment text
  Columns,   \* [Word -> Nat]: display columns of a word
  Mark,      \* [Word -> Marks]: what a line that starts with the word is
  Bytes,     \* [Word -> ByteKinds]: what its bytes are
  Fused      \* [Word \X Word -> Word]: two words with no blank between them

\* named_commands: the tags that document a name.
NamedCommands == {"param", "retval"}

\* "code" and "endcode" are the commands around a sample, "tag" any other command.
TagMarks == NamedCommands \union {"tag", "code", "endcode"}

Marks == TagMarks \union {"prose", "list", "directive", "fence"}

\* A letter or a digit is in "text", a backtick but none of those in "tick", and
\* only other punctuation in "punct".
ByteKinds == {"text", "tick", "punct"}

ASSUME WordAssumption ==
  /\ Columns \in [Word -> Nat] /\ Mark \in [Word -> Marks]
  /\ Bytes \in [Word -> ByteKinds] /\ Fused \in [Word \X Word -> Word]

Kinds == {"prose", "tag", "listed", "code", "decoration", "directive", "blank"}

\* A body line: blanks, words, and blanks after them.
BodyLine == [kind : Kinds, indent : Nat, words : Seq(Word), pad : Nat, trail : Nat]

-----------------------------------------------------------------------------
\* doxygen_has_tag: how many words stand before the description of a tag, the
\* keyword and any name it documents.
DescriptionOffset(words) ==
  IF Mark[words[1]] \in NamedCommands /\ Len(words) > 1 THEN 2 ELSE 1

\* named_tag_index: a tag line with a name.
IsNamedTag(line) == line.kind = "tag" /\ DescriptionOffset(line.words) = 2

Command(line) == Mark[line.words[1]]
NameColumns(line) == Columns[line.words[2]]
HasDescription(line) == Len(line.words) > 2

Siblings(lines, k) ==
  {n \in 1 .. Len(lines) : IsNamedTag(lines[n]) /\ Command(lines[n]) = Command(lines[k])}

NameColumnsMax_SoFar(lines, k) ==
  Max({NameColumns(lines[n]) : n \in {m \in Siblings(lines, k) : m <= k}})
\* columns_max: the widest name that the command of line k documents in the body.
NameColumnsMax(lines, k) == Max({NameColumns(lines[n]) : n \in Siblings(lines, k)})

IsContinued(lines, k) == k < Len(lines) /\ lines[k + 1].kind = "prose"

\* align_named_line: the description, on this line or joined from the next, moves
\* to the column of its siblings'.  Blanks after a bare name are dropped.
AlignedLine(lines, k) ==
  LET line  == lines[k]
      isPadded == HasDescription(line) \/ IsContinued(lines, k)
  IN  [line EXCEPT !.pad = IF isPadded THEN NameColumnsMax(lines, k) - NameColumns(line) ELSE 0,
                   !.trail = IF HasDescription(line) THEN @ ELSE 0]

\* doxygen_align_parameters.
Aligned(lines) ==
  [k \in 1 .. Len(lines) |-> IF IsNamedTag(lines[k]) THEN AlignedLine(lines, k) ELSE lines[k]]

=============================================================================
