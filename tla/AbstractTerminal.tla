-------------------------- MODULE AbstractTerminal --------------------------
(***************************************************************************)
(* What a terminal promises: keys are taken in the order they are typed,    *)
(* edit the line until it is entered, and what is entered is given to the   *)
(* programs that read, once and in order.                                   *)
(***************************************************************************)
EXTENDS Naturals, Sequences

CONSTANTS Room   \* characters not yet read at most: more are not taken

VARIABLES keys,   \* typed and not yet taken
          line,   \* the line that may still be edited
          text,   \* entered and not yet read
          given   \* read

avars == <<keys, line, text, given>>

AInit == line = <<>> /\ text = <<>> /\ given = <<>>

Typing ==
  /\ keys' # <<>> /\ SubSeq(keys', 1, Len(keys') - 1) = keys
  /\ UNCHANGED <<line, text, given>>

Entered(k) == IF k = "cr" THEN "nl" ELSE k

Take ==
  /\ keys # <<>>
  /\ keys' = Tail(keys)
  /\ LET k == Head(keys)
         full == Len(text) + Len(line) = Room
         longer == Append(line, Entered(k))
     IN  IF k = "^U" THEN line' = <<>> /\ UNCHANGED text
         ELSE IF k = "^H"
         THEN line' = SubSeq(line, 1, IF line = <<>> THEN 0 ELSE Len(line) - 1) /\ UNCHANGED text
         ELSE IF k = "^P" \/ full THEN UNCHANGED <<line, text>>
         ELSE IF Entered(k) \in {"nl", "^D"} \/ Len(text) + Len(longer) = Room
         THEN text' = text \o longer /\ line' = <<>>
         ELSE line' = longer /\ UNCHANGED text
  /\ UNCHANGED given

Give ==
  /\ text # <<>>
  /\ given' = Append(given, Head(text)) /\ text' = Tail(text)
  /\ UNCHANGED <<keys, line>>

ASpec == AInit /\ [][Typing \/ Take \/ Give]_avars
=============================================================================
