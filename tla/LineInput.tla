----------------------------- MODULE LineInput -----------------------------
(***************************************************************************)
(* What the console promises to read(): characters typed are edited in a   *)
(* line of their own and become readable, in order, when the line ends or  *)
(* no more fits.                                                           *)
(***************************************************************************)
EXTENDS Naturals, Sequences

CONSTANTS Char, Size, Ends   \* Ends: the characters that end a line

VARIABLES lines, edit

Init == lines = <<>> /\ edit = <<>>

Type(c) ==
  LET e == Append(edit, c)
  IN
  /\ Len(lines) + Len(edit) < Size
  /\ IF c \in Ends \/ Len(lines) + Len(e) = Size
     THEN lines' = lines \o e /\ edit' = <<>>
     ELSE edit' = e /\ UNCHANGED lines

Erase == edit # <<>> /\ edit' = SubSeq(edit, 1, Len(edit) - 1) /\ UNCHANGED lines

Take == lines # <<>> /\ lines' = Tail(lines) /\ UNCHANGED edit

Next ==
  /\ <<lines, edit>>' # <<lines, edit>>
  /\ Take \/ Erase \/ \E c \in Char : Type(c)

Spec == Init /\ [][Next]_<<lines, edit>>
=============================================================================
