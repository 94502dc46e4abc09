---------------------------- MODULE ThinkingFilter ----------------------------
(***************************************************************************)
(* createThinkingTagFilter (cursor/proxy.ts): text of a model arrives in   *)
(* deltas cut anywhere, and what stands between thinking tags is kept      *)
(* apart from the answer.  Abstractions: a text is a sequence of letters;  *)
(* one tag name stands for the five, one letter for each class of letters. *)
(***************************************************************************)
EXTENDS Naturals, Sequences, SequencesExt

CONSTANTS
  Letter,    \* "<", "/", ">", letters a name is made of, a blank, and others
  Name,      \* the name of the tag
  MaxText,   \* bound on the text
  MaxDelta,  \* bound on a delta
  MaxHeld    \* MAX_THINKING_TAG_LEN

FilterAssumption ==
  /\ {"<", "/", ">"} \subseteq Letter /\ ToSet(Name) \subseteq Letter
  /\ MaxText \in Nat /\ MaxDelta \in Nat \ {0} /\ MaxHeld \in Nat

NameLetter == ToSet(Name) \cup {"z"}   \* [a-z_]

VARIABLES
  text,     \* all that came
  buffer,   \* what is held back
  inside,   \* inThinking
  content, reasoning

vars == <<text, buffer, inside, content, reasoning>>

Open == <<"<">> \o Name \o <<">">>
Shut == <<"<", "/">> \o Name \o <<">">>

\* A tag that begins at i: its length, or 0.  Blanks may precede its end.
TagAt(s, i) ==
  LET body == IF i < Len(s) /\ s[i + 1] = "/" THEN i + 2 ELSE i + 1
      named == body + Len(Name)
      end == {e \in named..Len(s) : s[e] = ">" /\ \A k \in named..(e - 1) : s[k] = " "}
  IN IF s[i] = "<" /\ named <= Len(s) /\ SubSeq(s, body, named - 1) = Name /\ end # {}
     THEN (CHOOSE e \in end : TRUE) - i + 1 ELSE 0

\* The letters from i on, split by the tags among them: scan[i] is what they
\* add to the two texts when the state before them is in.
Split(s, in) ==
  LET scan[i \in 1..(Len(s) + 1), t \in BOOLEAN] ==
        IF i > Len(s) THEN [c |-> <<>>, r |-> <<>>, in |-> t]
        ELSE IF TagAt(s, i) > 0 THEN scan[i + TagAt(s, i), s[i + 1] # "/"]
        ELSE LET rest == scan[i + 1, t]
             IN IF t THEN [rest EXCEPT !.r = <<s[i]>> \o @] ELSE [rest EXCEPT !.c = <<s[i]>> \o @]
  IN scan[1, in]

\* Mutant of Held: nothing is held back.
HeldNothing(s) == <<>>

\* The end of the text that may become a tag, after its last "<".
Held(s) ==
  LET lt == {i \in DOMAIN s : s[i] = "<" /\ \A j \in (i + 1)..Len(s) : s[j] # "<"}
  IN IF lt = {} THEN <<>>
     ELSE LET tail == SubSeq(s, CHOOSE i \in lt : TRUE, Len(s))
              name == IF Len(tail) > 1 /\ tail[2] = "/" THEN 3 ELSE 2
          IN IF Len(tail) < MaxHeld /\ \A k \in name..Len(tail) : tail[k] \in NameLetter THEN tail ELSE <<>>

Init == text = <<>> /\ buffer = <<>> /\ inside = FALSE /\ content = <<>> /\ reasoning = <<>>

\* process: a delta comes.
process ==
  \E n \in 1..MaxDelta : \E delta \in [1..n -> Letter] :
    /\ Len(text) + n <= MaxText /\ text' = text \o delta
    /\ LET input == buffer \o delta
           held == Held(input)
           split == Split(SubSeq(input, 1, Len(input) - Len(held)), inside)
       IN /\ buffer' = held /\ inside' = split.in
          /\ content' = content \o split.c /\ reasoning' = reasoning \o split.r

Next == process
Spec == Init /\ [][Next]_vars

-------------------------------------------------------------------------------
(***************************************************************************)
(* Properties.                                                             *)
(***************************************************************************)
\* flush: what is held back belongs where the text is.
Content == content \o (IF inside THEN <<>> ELSE buffer)
Reasoning == reasoning \o (IF inside THEN buffer ELSE <<>>)

\* However the deltas are cut, the answer and the thinking are those of the
\* whole text: no part of a tag, and no thinking, leaks into the answer.
CutAnywhere ==
  LET whole == Split(text, FALSE)
  IN Content = whole.c /\ Reasoning = whole.r
===============================================================================
