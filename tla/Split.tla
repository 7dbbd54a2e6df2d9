------------------------------- MODULE Split --------------------------------
(***************************************************************************)
(* split() of libs/StringUtils.h, in its two forms: with a callback that   *)
(* takes every word of a text, and split<N>(), which gives an array of N   *)
(* views.  A step is one iteration of the loop.  A view is the positions   *)
(* from..to of the text.                                                   *)
(***************************************************************************)
EXTENDS Integers, Sequences, FiniteSetsExt

CONSTANTS Chars,
          SeparatorSets,   \* what ischar, anyof and isalphanum take for separators
          Sizes,           \* the N of split<N>(); 0 is the form with a callback
          MaxText          \* bound: characters of a text

ASSUME SeparatorsAssumption == \A s \in SeparatorSets : s \subseteq Chars
ASSUME SizesAssumption == Sizes \subseteq Nat

VARIABLES text, issep, size,   \* the arguments
          start,               \* the iterator
          fields,              \* the views given to the callback, or the array
          splitting            \* "idle", "loop", "pad" or "split"

splitVars == <<text, issep, size, start, fields, splitting>>
arguments == <<text, issep, size>>

NoView == [from |-> 1, to |-> 0]

SplitInit ==
  /\ text = <<>> /\ issep = {} /\ size = 0
  /\ start = 1
  /\ fields = <<>>
  /\ splitting = "idle"

Call ==
  /\ splitting = "idle"
  /\ text' \in UNION {[1..n -> Chars] : n \in 0..MaxText}
  /\ issep' \in SeparatorSets
  /\ size' \in Sizes
  /\ splitting' = "loop"
  /\ UNCHANGED <<start, fields>>

\* Mutant of SkipUntil: it starts behind its position.
SkipUntilLate(position, stops) ==
  Min({k \in (position + 1)..Len(text) : text[k] \in stops} \cup {Len(text) + 1})

SkipUntil(position, stops) ==
  Min({k \in position..Len(text) : text[k] \in stops} \cup {Len(text) + 1})

(***************************************************************************)
(* The callback of split<N>() takes the rest of the text for its last      *)
(* field and stops the loop.                                               *)
(***************************************************************************)
TakeWord ==
  LET from   == SkipUntil(start, Chars \ issep)
      finish == SkipUntil(from, issep)
      last   == Len(fields) + 1 = size
  IN  /\ splitting = "loop"
      /\ from <= Len(text)
      /\ fields' = Append(fields, [from |-> from, to |-> IF last THEN Len(text) ELSE finish - 1])
      /\ start' = finish
      /\ splitting' = IF last THEN "pad" ELSE "loop"
      /\ UNCHANGED arguments

LoopEnds ==
  /\ splitting = "loop"
  /\ SkipUntil(start, Chars \ issep) > Len(text)
  /\ splitting' = "pad"
  /\ UNCHANGED <<arguments, start, fields>>

\* The array's other views are empty.
Pad ==
  /\ splitting = "pad"
  /\ fields' = fields \o [k \in 1..(size - Len(fields)) |-> NoView]
  /\ splitting' = "split"
  /\ UNCHANGED <<arguments, start>>

SplitNext == Call \/ TakeWord \/ LoopEnds \/ Pad

SplitSpec == SplitInit /\ [][SplitNext]_splitVars

-----------------------------------------------------------------------------
\* The words of the text: the longest views without a separator.
TextWords ==
  LET IsWord(w) ==
        /\ w.from <= w.to
        /\ \A k \in w.from..w.to : text[k] \notin issep
        /\ w.from = 1 \/ text[w.from - 1] \in issep
        /\ w.to = Len(text) \/ text[w.to + 1] \in issep
  IN  {w \in [from : DOMAIN text, to : DOMAIN text] : IsWord(w)}

WordAt(k) ==
  CHOOSE w \in TextWords : Cardinality({v \in TextWords : v.from <= w.from}) = k

(***************************************************************************)
(* The callback gets the words of the text in order, each once, however    *)
(* many separators stand around them.  The array has the first N - 1       *)
(* words, the text from the N-th word on, separators included, and empty   *)
(* views for the words the text lacks.                                     *)
(***************************************************************************)
FieldsOfText ==
  splitting = "split" =>
    LET found == Cardinality(TextWords)
    IN  /\ Len(fields) = IF size = 0 THEN found ELSE size
        /\ \A k \in DOMAIN fields :
             fields[k] = CASE k > found -> NoView
                           [] k <= found /\ k = size -> [WordAt(k) EXCEPT !.to = Len(text)]
                           [] OTHER -> WordAt(k)
=============================================================================
