----------------------------- MODULE ArtifactText -----------------------------
(***************************************************************************)
(* Bounded reads of UTF-8 text: readArtifactURL and artifactPage of        *)
(* internal/argoapi.  A text is a sequence of bytes, and a byte knows      *)
(* which one of how many bytes of its character it is: that is all the     *)
(* encoding the code looks at.  A malformed byte is of kind "bad".         *)
(***************************************************************************)
EXTENDS Integers, Sequences, SequencesExt

CONSTANT UTFMax   \* bytes of the widest character (4 in the code)

ASSUME ArtifactTextAssumption == UTFMax \in Nat \ {0}

Byte == [kind : {"char", "newline", "nul", "bad"}, at : 1..UTFMax, of : 1..UTFMax]

\* The bytes of one character, and of a sequence of characters.
Encoded(c) == [i \in 1..c.width |-> [kind |-> c.kind, at |-> i, of |-> c.width]]
Bytes(chars) == FlattenSeq([i \in DOMAIN chars |-> Encoded(chars[i])])

\* How any bytes are read from the left: a character begins where the one before
\* it ended, and its bytes count up to its width.  Only the last may be cut.  A
\* newline is a character of one byte.
Encoding(s) ==
    \A i \in DOMAIN s :
        /\ s[i].at <= s[i].of
        /\ IF i = 1 \/ s[i - 1].at = s[i - 1].of
           THEN s[i].at = 1
           ELSE s[i].at = s[i - 1].at + 1 /\ s[i].of = s[i - 1].of
        /\ s[i].kind = "newline" => s[i].of = 1

\* A character ends at position n: text can be cut there.
Boundary(s, n) == n = 0 \/ s[n].at = s[n].of
LastBoundary(s, n) == CHOOSE b \in 0..n : Boundary(s, b) /\ \A m \in (b + 1)..n : ~Boundary(s, m)

Has(s, kind) == \E i \in DOMAIN s : s[i].kind = kind

\* What a reader takes for text: whole, well-formed characters and no NUL.
IsText(s) == Boundary(s, Len(s)) /\ ~Has(s, "bad") /\ ~Has(s, "nul")

Least(a, b) == IF a < b THEN a ELSE b
-------------------------------------------------------------------------------
\* Mutant: nothing is read past the page.
NoLookahead(offset, max) == offset + max

ReadLimit(offset, max) == offset + max + UTFMax

\* The response is read up to the limit; it goes on past the limit when it was
\* read in full and its declared length, if it has one, is larger.
Data(content, offset, max) == SubSeq(content, 1, Least(Len(content), ReadLimit(offset, max)))
Bounded(content, offset, max, declared) ==
    /\ Len(Data(content, offset, max)) = ReadLimit(offset, max)
    /\ ~declared \/ Len(content) > ReadLimit(offset, max)

\* Mutant: a cut in the last character is an error though more follows.
WholeDataOnly(data, bounded) == Len(data) = LastBoundary(data, Len(data)) /\ ~Has(data, "bad")

\* The prefix is well formed, but for a last character the read limit cut.
WellFormed(data, bounded) ==
    /\ ~Has(data, "bad")
    /\ bounded \/ Boundary(data, Len(data))
ValidEnd(data) == LastBoundary(data, Len(data))

\* Mutant: a page is cut after max bytes, wherever that is.
EndAnywhere(data, offset, max) == Least(offset + max, ValidEnd(data))

\* The page stops at the last character it holds in full.
PageEnd(data, offset, max) ==
    LET end == LastBoundary(data, Least(offset + max, ValidEnd(data)))
    IN IF end > offset THEN end ELSE offset

\* What artifactPage refuses: what is no text, offsets past the end or inside
\* a character, and a budget the next character does not fit into.
PageRefused(data, offset, max, bounded) ==
    \/ ~WellFormed(data, bounded)
    \/ Has(SubSeq(data, 1, ValidEnd(data)), "nul")
    \/ offset > ValidEnd(data)
    \/ offset < ValidEnd(data) /\ data[offset + 1].at # 1
    \/ /\ offset < ValidEnd(data) /\ PageEnd(data, offset, max) = offset
       /\ data[offset + 1].of > max

Page(data, offset, max, bounded) ==
    LET end == PageEnd(data, offset, max)
    IN [text |-> SubSeq(data, offset + 1, end),
        end  |-> end,
        more |-> bounded \/ end < ValidEnd(data)]
===============================================================================
