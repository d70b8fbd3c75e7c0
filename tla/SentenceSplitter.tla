-------------------------- MODULE SentenceSplitter --------------------------
(***************************************************************************)
(* voice/sentence.py: where the stream of an answer is cut into sentences. *)
(* A text is a sequence of kinds of characters.  The buffer is always the  *)
(* rest of the text since the last cut, so a cut is a position in the text *)
(* and a sentence the stretch between two cuts, without the white space at *)
(* its ends.                                                               *)
(***************************************************************************)
EXTENDS Naturals, Sequences, FiniteSets, FiniteSetsExt

Chars == {"letter", "mark", "space", "newline", "quote"}
White == {"space", "newline"}

\* Positions from .. end of the text all hold characters of these kinds.
AllOf(text, from, end, kinds) == \A i \in from .. end : text[i] \in kinds

\* _SENTENCE_END: a run of marks with the white space and quotes behind it, or a run of
\* newlines.  A match is a start and an end, as far to the right as it goes.
IsMatch(text, start, end) ==
    \/ \E marks \in start .. end :
          /\ AllOf(text, start, marks, {"mark"})
          /\ AllOf(text, marks + 1, end, White \cup {"quote"})
    \/ AllOf(text, start, end, {"newline"})

\* The end of the first match after position `from` of the text, or 0.
FirstCut(text, from) ==
    LET starts == {i \in from + 1 .. Len(text) : text[i] \in {"mark", "newline"}} IN
    IF starts = {} THEN 0
    ELSE Max({end \in Min(starts) .. Len(text) : IsMatch(text, Min(starts), end)})

\* The cuts the loop of feed makes in the text, once cut at `from`.
Cuts(text, from) ==
    LET cutsAfter[p \in 0 .. Len(text)] ==
            LET cut == FirstCut(text, p) IN
            IF cut = 0 THEN {} ELSE {cut} \cup cutsAfter[cut]
    IN cutsAfter[from]

\* The stretch from + 1 .. end, stripped; <<end + 1, end>> when nothing is left.
Strip(text, from, end) ==
    LET solid == {i \in from + 1 .. end : text[i] \notin White} IN
    IF solid = {} THEN <<end + 1, end>> ELSE <<Min(solid), Max(solid)>>

\* _MIN_SENTENCE_CHARS
LongEnough(piece) == piece[2] > piece[1]

\* The k-th of a set of positions.
Nth(positions, k) == CHOOSE p \in positions : Cardinality({q \in positions : q <= p}) = k

\* feed: the sentences that are complete now.
Sentences(text, from) ==
    LET cuts == Cuts(text, from)
        piece(end) == Strip(text, Max({from} \cup {cut \in cuts : cut < end}), end)
        ends == {cut \in cuts : LongEnough(piece(cut))}
    IN [k \in 1 .. Cardinality(ends) |-> piece(Nth(ends, k))]

\* Mutant: the buffer is emptied with every feed.
NothingStays(text, from) == Len(text)
\* What stays in the buffer begins behind this position.
LastCut(text, from) == Max({from} \cup Cuts(text, from))

\* flush: the rest, if there is enough of it.
Rest(text, from) ==
    LET piece == Strip(text, from, Len(text)) IN IF LongEnough(piece) THEN <<piece>> ELSE <<>>
=============================================================================
