----------------------------- MODULE TextInput ------------------------------
(* The text field of zofi: cursor, selection and the text an input method    *)
(* is composing, as byte offsets into UTF-8. The mouse is located with the   *)
(* layout of the last frame, input methods count in UTF-16 units.           *)
EXTENDS Naturals, Sequences, SequencesExt

CONSTANTS Char           \* each stands for a grapheme of one character
CONSTANTS Utf8, Utf16    \* their lengths in bytes and in UTF-16 units
CONSTANTS Alnum          \* those that words are made of
CONSTANTS Unmarked       \* no text is being composed
CONSTANTS Placeholder    \* bytes of the placeholder, all ASCII
CONSTANTS MaxChars       \* bound: characters in the field

ASSUME TextAssumption ==
  /\ Utf8 \in [Char -> Nat \ {0}] /\ Utf16 \in [Char -> Nat \ {0}] /\ Alnum \subseteq Char
  /\ Placeholder \in Nat /\ MaxChars \in Nat

VARIABLES
  text,          \* content
  sel,           \* selected_range, and whether its start is the cursor
  marked,        \* the range being composed, or Unmarked
  hits,          \* the offsets the mouse can find in the layout last painted
  is_selecting,
  misplaced      \* the selection was set with the layout of another text (history)

textVars == <<text, sel, marked, hits, is_selecting, misplaced>>

Texts == BoundedSeq(Char, MaxChars)

(* The length of the first k characters of a text s is Octets[s][k] bytes,  *)
(* or Units[s][k] units of UTF-16.                                          *)
Lengths(f) == [s \in Texts |->
  LET n[k \in 0..Len(s)] == IF k = 0 THEN 0 ELSE n[k - 1] + f[s[k]] IN n]
Octets == Lengths(Utf8)
Units == Lengths(Utf16)
Size(s) == Octets[s][Len(s)]

Offsets == [s \in Texts |-> {Octets[s][k] : k \in 0..Len(s)}]
At(o) == CHOOSE k \in 0..Len(text) : Octets[text][k] = o

TextInit ==
  /\ text = <<>> /\ sel = [start |-> 0, end |-> 0, reversed |-> FALSE]
  /\ marked = Unmarked /\ hits = {0} /\ is_selecting = FALSE /\ misplaced = FALSE

OnText(r) == r.start <= r.end /\ {r.start, r.end} \subseteq Offsets[text]

-----------------------------------------------------------------------------
(* Where things are.                                                        *)

Cursor == IF sel.reversed THEN sel.start ELSE sel.end
Empty == sel.start = sel.end

LargestOr(S, default) == IF S = {} THEN default ELSE CHOOSE m \in S : \A n \in S : n <= m
LeastOr(S, default) == IF S = {} THEN default ELSE CHOOSE m \in S : \A n \in S : m <= n

(* Mutant of PreviousBoundary: one byte back.                               *)
PreviousByte(o) == IF o > 0 THEN o - 1 ELSE 0

PreviousBoundary(o) == LargestOr({p \in Offsets[text] : p < o}, 0)
NextBoundary(o) == LeastOr({p \in Offsets[text] : p > o}, Size(text))

(* A word is a run of alphanumeric characters.                              *)
IsWord(s, k) == k \in DOMAIN s /\ s[k] \in Alnum
PreviousWord(o) ==
  LargestOr({Octets[text][k] : k \in {j \in 0..At(o) - 1 : IsWord(text, j + 1) /\ ~IsWord(text, j)}}, 0)
NextWord(o) ==
  LeastOr({Octets[text][k] :
             k \in {j \in At(o) + 1..Len(text) - 1 : ~IsWord(text, j + 1) /\ \E i \in At(o) + 1..j : IsWord(text, i)}},
          Size(text))

(* The first character that reaches the count, or the end.                  *)
ToUtf16(o) ==
  Units[text][LeastOr({k \in 0..Len(text) : Octets[text][k] >= o}, Len(text))]
FromUtf16(u) ==
  Octets[text][LeastOr({k \in 0..Len(text) : Units[text][k] >= u}, Len(text))]

-----------------------------------------------------------------------------
(* Moving and selecting. move_to leaves the direction of the selection.     *)

MovedTo(o) == [start |-> o, end |-> o, reversed |-> sel.reversed]

Extended(r, o) ==
  LET s == IF r.reversed THEN o ELSE r.start
      e == IF r.reversed THEN r.end ELSE o
  IN IF e < s THEN [start |-> e, end |-> s, reversed |-> ~r.reversed]
     ELSE [start |-> s, end |-> e, reversed |-> r.reversed]

MoveTo(o) ==
  /\ sel' = MovedTo(o) /\ misplaced' = (misplaced /\ o \notin Offsets[text])
  /\ UNCHANGED <<text, marked, hits, is_selecting>>

Left == MoveTo(IF Empty THEN PreviousBoundary(Cursor) ELSE sel.start)
Right == MoveTo(IF Empty THEN NextBoundary(sel.end) ELSE sel.end)

(* These slice the text at the cursor, which panics off a boundary.         *)
WordLeft == Cursor \in Offsets[text] /\ MoveTo(PreviousWord(Cursor))
WordRight == Cursor \in Offsets[text] /\ MoveTo(NextWord(Cursor))

Home == MoveTo(0)
End == MoveTo(Size(text))

SelectTo(o) ==
  /\ sel' = Extended(sel, o)
  /\ UNCHANGED <<text, marked, hits, is_selecting, misplaced>>

SelectLeft == SelectTo(PreviousBoundary(Cursor))
SelectRight == SelectTo(NextBoundary(Cursor))

SelectAll ==
  /\ sel' = Extended(MovedTo(0), Size(text)) /\ misplaced' = FALSE
  /\ UNCHANGED <<text, marked, hits, is_selecting>>

-----------------------------------------------------------------------------
(* Changing the text: in the range that is given, else in the one being      *)
(* composed, else in the selection.                                         *)

InRange(given, r) == IF given # Unmarked THEN given ELSE IF marked # Unmarked THEN marked ELSE r

Replaced(range, new) ==
  /\ OnText(range) /\ At(range.start) + Len(new) + Len(text) - At(range.end) <= MaxChars
  /\ text' = SubSeq(text, 1, At(range.start)) \o new \o SubSeq(text, At(range.end) + 1, Len(text))
  /\ LET o == range.start + Size(new) IN
       sel' = [start |-> o, end |-> o, reversed |-> sel.reversed]
  /\ misplaced' = FALSE /\ UNCHANGED <<hits, is_selecting>>

Replace(range, new) == Replaced(range, new) /\ marked' = Unmarked

(* Backspace, Delete and DeleteWord select what they remove first.          *)
RemoveTo(o) ==
  IF Empty THEN Cursor # o /\ Replace(InRange(Unmarked, Extended(sel, o)), <<>>)
  ELSE Replace(InRange(Unmarked, sel), <<>>)

Backspace == RemoveTo(PreviousBoundary(Cursor))
Delete == RemoveTo(NextBoundary(Cursor))
DeleteWord == (Empty => Cursor \in Offsets[text]) /\ RemoveTo(PreviousWord(Cursor))

ClearLine == Replace(InRange(Unmarked, Extended(MovedTo(0), Size(text))), <<>>)

Cut == ~Empty /\ OnText(sel) /\ Replace(InRange(Unmarked, sel), <<>>)

(* Typed, committed or pasted.                                              *)
Insert(new) == Replace(InRange(Unmarked, sel), new)

(* gpui on Wayland gives no range, and no selection within the new text.    *)
Compose(new) ==
  LET range == InRange(Unmarked, sel) IN
    /\ Replaced(range, new)
    /\ marked' = IF new = <<>> THEN Unmarked
                 ELSE [start |-> range.start, end |-> range.start + Size(new)]

(* The input method removes what it composed, by the range it was told.     *)
Decompose ==
  /\ marked # Unmarked
  /\ Replace([start |-> FromUtf16(ToUtf16(marked.start)), end |-> FromUtf16(ToUtf16(marked.end))], <<>>)

Unmark == marked' = Unmarked /\ UNCHANGED <<text, sel, hits, is_selecting, misplaced>>

(* set_text("") of the launcher, after a switch of the source.              *)
SetText ==
  /\ text' = <<>> /\ sel' = [start |-> 0, end |-> 0, reversed |-> sel.reversed]
  /\ marked' = Unmarked /\ misplaced' = FALSE /\ UNCHANGED <<hits, is_selecting>>

-----------------------------------------------------------------------------
(* The mouse, and the frame.                                                *)

Painted(s) == IF s = <<>> THEN 0..Placeholder ELSE Offsets[s]

Paint == hits' = Painted(text) /\ UNCHANGED <<text, sel, marked, is_selecting, misplaced>>

MouseIndexes == IF text = <<>> THEN {0} ELSE {0, Size(text)} \union hits

Stale(o) == o \notin Offsets[text]

MouseDown(shift) ==
  /\ is_selecting' = TRUE
  /\ \E o \in MouseIndexes :
       /\ sel' = IF shift THEN Extended(sel, o) ELSE MovedTo(o)
       /\ misplaced' = (Stale(o) \/ (shift /\ misplaced))
  /\ UNCHANGED <<text, marked, hits>>

MouseMove ==
  /\ is_selecting
  /\ \E o \in MouseIndexes :
       sel' = Extended(sel, o) /\ misplaced' = (misplaced \/ Stale(o))
  /\ UNCHANGED <<text, marked, hits, is_selecting>>

MouseUp == is_selecting' = FALSE /\ UNCHANGED <<text, sel, marked, hits, misplaced>>

TextNext ==
  \/ Left \/ Right \/ WordLeft \/ WordRight \/ Home \/ End
  \/ SelectLeft \/ SelectRight \/ SelectAll
  \/ Backspace \/ Delete \/ DeleteWord \/ ClearLine \/ Cut
  \/ \E c \in Char : Insert(<<c>>) \/ Compose(<<c>>) \/ Compose(<<c, c>>)
  \/ Compose(<<>>) \/ Decompose \/ Unmark \/ SetText
  \/ Paint \/ MouseDown(TRUE) \/ MouseDown(FALSE) \/ MouseMove \/ MouseUp

TextSpec == TextInit /\ [][TextNext]_textVars

TextType ==
  /\ text \in Texts /\ hits \subseteq Nat
  /\ sel.start \in Nat /\ sel.end \in Nat /\ sel.reversed \in BOOLEAN
  /\ is_selecting \in BOOLEAN /\ misplaced \in BOOLEAN

(* input.rs:424-480 slices the text at these offsets, and off a character's  *)
(* boundary that panics: through every mix of moves, selections in either    *)
(* direction, edits and composed texts, selection and mark stay on the text, *)
(* and an input method's count of them converts back to them. Only a mouse   *)
(* event located with the layout of an earlier text may misplace them.      *)
OffsetsOnText ==
  /\ marked # Unmarked => OnText(marked)
  /\ ~misplaced => OnText(sel)
  /\ \A o \in Offsets[text] : FromUtf16(ToUtf16(o)) = o
=============================================================================
