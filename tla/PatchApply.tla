----------------------------- MODULE PatchApply -----------------------------
(***************************************************************************)
(* PatchPayload.apply (knowledge/contributions.py): the byte edits of a    *)
(* contribution are applied to the document it was made against, in one    *)
(* pass from left to right.  A document is a sequence of bytes of UTF-8,   *)
(* of which three matter: one that is a character, the first and the       *)
(* second of a character of two.  Offsets count the bytes before them.     *)
(***************************************************************************)
EXTENDS Naturals, Sequences

CONSTANTS
  Sources,        \* documents
  Replacements,   \* what an edit may put in
  MaxEdits        \* bound: edits of a patch

Char == "x"
First == "2"
Second == "c"

\* _utf8: the decoder accepts it.
Utf8(bytes) ==
  \A i \in DOMAIN bytes :
    /\ bytes[i] = First => i < Len(bytes) /\ bytes[i + 1] = Second
    /\ bytes[i] = Second => i > 1 /\ bytes[i - 1] = First

ASSUME PatchAssumption ==
  /\ Sources \cup Replacements \subseteq Seq({Char, First, Second})
  /\ \A s \in Sources \cup Replacements : Utf8(s)
  /\ MaxEdits \in Nat \ {0}

VARIABLES
  source, edits,    \* the arguments
  stale,            \* the hash the patch expects is not that of the source
  index,            \* the edit that comes next
  cursor,           \* the source is copied up to here
  output,           \* the bytes so far
  verdict           \* "running", "applied" or the code of the error

patchVars == <<source, edits, stale, index, cursor, output, verdict>>

\* ByteEdit.__post_init__
Edits(bytes) ==
  {e \in [start : 0..(Len(bytes) + 1), end : 0..(Len(bytes) + 1), new : Replacements] :
     e.start <= e.end}

PatchInit ==
  /\ source \in Sources
  /\ edits \in UNION {[1..n -> Edits(source)] : n \in 1..MaxEdits}
  /\ stale \in BOOLEAN
  /\ index = 1 /\ cursor = 0 /\ output = <<>>
  /\ verdict = "running"

\* source[from:to]
Slice(from, to) == SubSeq(source, from + 1, to)

\* _boundary: what comes before and what comes after is text.
Boundary(offset) == Utf8(Slice(0, offset)) /\ Utf8(Slice(offset, Len(source)))

\* The edit begins after the last one and ends in the source, at characters.
Fits(e) ==
  /\ e.start >= cursor
  /\ e.end <= Len(source)
  /\ Boundary(e.start) /\ Boundary(e.end)

Refuse(code) ==
  /\ verdict' = code
  /\ UNCHANGED <<source, edits, stale, index, cursor, output>>

CompareHash ==
  /\ verdict = "running" /\ stale
  /\ Refuse("CONTENT_HASH_MISMATCH")

RefuseEdit ==
  /\ verdict = "running" /\ ~stale /\ index <= Len(edits)
  /\ ~Fits(edits[index])
  /\ Refuse("INVALID_BYTE_EDITS")

\* Mutant: the replaced range is copied again.
ApplyEditKeepsRange ==
  /\ verdict = "running" /\ ~stale /\ index <= Len(edits)
  /\ LET e == edits[index]
     IN  /\ Fits(e)
         /\ output' = output \o Slice(cursor, e.start) \o e.new
         /\ cursor' = e.start
  /\ index' = index + 1
  /\ UNCHANGED <<source, edits, stale, verdict>>

\* The source up to the edit, then its replacement.
ApplyEdit ==
  /\ verdict = "running" /\ ~stale /\ index <= Len(edits)
  /\ LET e == edits[index]
     IN  /\ Fits(e)
         /\ output' = output \o Slice(cursor, e.start) \o e.new
         /\ cursor' = e.end
  /\ index' = index + 1
  /\ UNCHANGED <<source, edits, stale, verdict>>

\* The rest of the source; the result is decoded once more.
Finish ==
  /\ verdict = "running" /\ ~stale /\ index > Len(edits)
  /\ output' = output \o Slice(cursor, Len(source))
  /\ verdict' = IF Utf8(output') THEN "applied" ELSE "INVALID_UTF8"
  /\ UNCHANGED <<source, edits, stale, index, cursor>>

PatchNext == CompareHash \/ RefuseEdit \/ ApplyEdit \/ Finish

PatchSpec == PatchInit /\ [][PatchNext]_patchVars

-----------------------------------------------------------------------------
(* Properties                                                              *)

\* Reference: each edit alone replaces a range of a text, and the edits are made from the
\* last to the first, so that none moves the range of another.
PatchReplaced(bytes, e) == SubSeq(bytes, 1, e.start) \o e.new \o SubSeq(bytes, e.end + 1, Len(bytes))
AllReplaced ==
  LET after[n \in 0..Len(edits)] ==   \* the text when the last n edits are made
        IF n = 0 THEN source ELSE PatchReplaced(after[n - 1], edits[Len(edits) + 1 - n])
  IN  after[Len(edits)]

\* Reference: a patch is sound when its ranges lie in the source, in order and apart but for
\* their ends, and cut no character in two.
CutsCharacter(offset) == offset \in 1..(Len(source) - 1) /\ source[offset + 1] = Second
SoundPatch ==
  /\ \A i \in DOMAIN edits :
       edits[i].end <= Len(source) /\ ~CutsCharacter(edits[i].start) /\ ~CutsCharacter(edits[i].end)
  /\ \A i, j \in DOMAIN edits : i < j => edits[i].end <= edits[j].start

\* Types of the state; the cursor stays in the source.
PatchTypeOK ==
  /\ Utf8(source) /\ stale \in BOOLEAN
  /\ index \in 1..(Len(edits) + 1) /\ cursor \in 0..Len(source)
  /\ verdict \in {"running", "applied", "CONTENT_HASH_MISMATCH", "INVALID_BYTE_EDITS", "INVALID_UTF8"}

\* What one pass with a cursor produces is what the edits mean one by one, also where they
\* touch, are empty or insert at the same place.
ApplyMatchesEdits == verdict = "applied" => output = AllReplaced

\* Exactly the sound patches of the right source are applied: apply neither clips a range
\* at the end of the source nor refuses edits that touch.
AppliesSoundPatches ==
  /\ verdict = "applied" => SoundPatch /\ ~stale
  /\ verdict = "INVALID_BYTE_EDITS" => ~SoundPatch

\* Edits that end at characters cannot spoil the text: the last decoding never fails.
ResultIsText == verdict # "INVALID_UTF8"

\* ByteEdits.apply gives the result of the sound patches, a text, and nothing for the
\* others.
ApplyIsExact == PatchTypeOK /\ ApplyMatchesEdits /\ AppliesSoundPatches /\ ResultIsText
=============================================================================
