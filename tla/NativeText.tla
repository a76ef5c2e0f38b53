----------------------------- MODULE NativeText -----------------------------
(***************************************************************************)
(* The text algorithms of the native file tools: paging a file             *)
(* (NativeWorkspace.read_file), editing lines (edit_lines) and placing the *)
(* hunks of a patch (native_patch.py).  A behaviour pages through a file   *)
(* that others may rewrite, or takes one edit or one patch and applies it. *)
(***************************************************************************)
EXTENDS Naturals, SequencesExt, FiniteSets

CONSTANTS Texts,      \* files to page: sequences of byte classes
          PageBytes, PageLines,  \* page limits a caller may give
          Rewrites,   \* bound: times the file is rewritten during one reading
          Words, NoWord, \* what a line of an edited file may say, and that it says nothing
          EditTexts,  \* files to edit: raw lines, with or without a byte order mark
          EditLists,  \* lists of edits
          PatchTexts, \* files to patch: sequences of lines and their ends
          PatchHunks  \* lists of hunks

\* What data.decode("utf-8") accepts: a further byte of a character follows one.
Bytes == {"x", "L", "C", "n"}
WellFormed(t) == t \in Seq(Bytes) /\ \A i \in DOMAIN t : t[i] = "C" => i > 1 /\ t[i - 1] \in {"L", "C"}

ASSUME PagingAssumption ==
  /\ \A t \in Texts : WellFormed(t)
  /\ PageBytes \subseteq Nat \ {0} /\ PageLines \subseteq Nat \ {0} /\ Rewrites \in Nat

\* A raw line of an edited file is a text, the carriage returns that follow it and
\* whether a line feed ends it.  Only the last can lack that, and is then not empty.
RawLine == [word : Words, cr : Nat, lf : BOOLEAN]
Raw(word, cr, lf) == [word |-> word, cr |-> cr, lf |-> lf]
Unended == Raw(NoWord, 0, FALSE)
RawText(t) == \A i \in DOMAIN t.lines : t.lines[i].lf \/ (i = Len(t.lines) /\ t.lines[i] # Unended)

\* The lines of an edit are in order (a range that ends before it starts is
\* refused), and the new ones hold no line ends (those are normalized).
ASSUME EditAssumption ==
  /\ NoWord \in Words
  /\ EditTexts \subseteq [bom : BOOLEAN, lines : Seq(RawLine)]
  /\ \A t \in EditTexts : RawText(t)
  /\ \A edits \in EditLists : /\ edits \in Seq([start : Nat, end : Nat, new : Seq(Words)])
                              /\ \A i \in DOMAIN edits : edits[i].start <= edits[i].end

\* A line of a patch is taken apart into its outer white space and the rest, and a
\* line of the file it patches has an end besides.  An anchor is one line or none.
PatchLines == [indent : STRING, word : STRING, trail : STRING]
Empty == [indent |-> "", word |-> "", trail |-> ""]
EndedLines == [line : PatchLines, end : {"lf", "crlf", "cr", "none"}]
PatchText(t) ==
  \A i \in DOMAIN t :
    /\ t[i].end = "none" => i = Len(t) /\ t[i].line # Empty
    /\ t[i].end = "cr" /\ i < Len(t) => ~ (t[i + 1].line = Empty /\ t[i + 1].end = "lf")
ASSUME PatchAssumption ==
  /\ PatchTexts \subseteq Seq(EndedLines) /\ \A t \in PatchTexts : PatchText(t)
  /\ \A hunks \in PatchHunks : hunks \in Seq([old : Seq(PatchLines), new : Seq(PatchLines),
       anchor : Seq(PatchLines), eof : BOOLEAN, context : BOOLEAN])

VARIABLES file, pages, job
textVars == <<file, pages, job>>

----------------------------------------------------------------------------
(* Paging.  A byte is "x" (a character of one byte), "L" or "C" (the first *)
(* and a further byte of a longer one) or "n" (line feed).                 *)

LineFeeds(t) == {i \in DOMAIN t : t[i] = "n"}
TotalLines(t) == Cardinality(LineFeeds(t)) + (IF t # <<>> /\ t[Len(t)] # "n" THEN 1 ELSE 0)
\* The first byte of line i and the last, counting bytes and lines from 0.
LineStart(t, i) == IF i = 0 THEN 0 ELSE CHOOSE p \in LineFeeds(t) : Cardinality({q \in LineFeeds(t) : q <= p}) = i
LineEnd(t, i) == IF i + 1 \in 1..Cardinality(LineFeeds(t)) THEN LineStart(t, i + 1) ELSE Len(t)
Boundary(t, p) == p = Len(t) \/ t[p + 1] # "C"
Smaller(a, b) == IF a < b THEN a ELSE b

NoPages == [state |-> "new", text |-> <<>>, got |-> <<>>, index |-> 0, offset |-> 0,
            room |-> 0, lines |-> 0, selected |-> 0, rewritten |-> 0]

\* What is read is the file as it was at one moment: a file whose identity
\* changes while it is read is refused.
FileSnapshot == file

\* A request for a page.  The first pins the revision of the file; a later one
\* is refused if the file has another by now.
RequestPage ==
  /\ pages.state \in {"new", "next"}
  /\ \E room \in PageBytes, lines \in PageLines :
       pages' = IF pages.state = "next" /\ FileSnapshot # pages.text THEN [pages EXCEPT !.state = "changed"]
                ELSE [pages EXCEPT !.state = IF pages.index < TotalLines(FileSnapshot) THEN "line" ELSE "complete",
                                   !.text = FileSnapshot, !.room = room, !.lines = lines, !.selected = 0]
  /\ UNCHANGED <<file, job>>

\* (A wrong variant of Fits: characters may be split.)
FitsBytes(t, position, end, room) == Smaller(end - position, room)
\* How many bytes of a line fit, never splitting a character.
Fits(t, position, end, room) ==
  LET most == Smaller(end - position, room)
  IN CHOOSE n \in 0..most : /\ n = 0 \/ position + n = end \/ Boundary(t, position + n)
                            /\ \A m \in (n + 1)..most : position + m # end /\ ~ Boundary(t, position + m)

EndPage(p) == [p EXCEPT !.state = IF p.index < TotalLines(p.text) THEN "next" ELSE "complete"]

\* One turn of the loop: take what fits of the current line.
TakeLine ==
  /\ pages.state = "line"
  /\ LET position == LineStart(pages.text, pages.index) + pages.offset
         end == LineEnd(pages.text, pages.index)
         count == Fits(pages.text, position, end, pages.room - pages.selected)
         taken == [pages EXCEPT !.got = @ \o SubSeq(pages.text, position + 1, position + count),
                                !.selected = @ + count]
         after == [taken EXCEPT !.index = @ + 1, !.offset = 0, !.lines = @ - 1]
     IN pages' = IF position >= end \/ ~ Boundary(pages.text, position)
                 THEN [pages EXCEPT !.state = "bad_offset"]
                 ELSE IF count = 0 THEN IF pages.selected = 0 THEN [pages EXCEPT !.state = "too_small"] ELSE EndPage(pages)
                 ELSE IF position + count < end THEN EndPage([taken EXCEPT !.offset = @ + count])
                 ELSE IF after.lines = 0 \/ after.index >= TotalLines(pages.text) THEN EndPage(after) ELSE after
  /\ UNCHANGED <<file, job>>

\* Another program rewrites the file, or puts back what was there.
Rewrite(t) ==
  /\ pages.state = "next" /\ pages.rewritten < Rewrites
  /\ file' = t /\ pages' = [pages EXCEPT !.rewritten = @ + 1]
  /\ UNCHANGED job

----------------------------------------------------------------------------
(* Edits.  An edit replaces the lines from `start' up to `end', counted    *)
(* from 0 in the original, by the lines `new'.                             *)

Slice(s, a, b) == SubSeq(s, a + 1, b)
Splice(s, a, b, new) == Slice(s, 0, a) \o new \o Slice(s, b, Len(s))
\* Edits sort by where they start and end; those that agree stay in their order.
EditBefore(edits, k, i) ==
  \/ edits[k].start < edits[i].start
  \/ edits[k].start = edits[i].start /\ edits[k].end < edits[i].end
  \/ edits[k].start = edits[i].start /\ edits[k].end = edits[i].end /\ k < i
\* Some of the edits, sorted.
Ordered(edits, some) ==
  [r \in 1..Cardinality(some) |->
    edits[CHOOSE i \in some : Cardinality({k \in some : EditBefore(edits, k, i)}) = r - 1]]
OutOfRange(t, edits) == \E i \in DOMAIN edits : edits[i].start > Len(t) \/ edits[i].end > Len(t)
Overlapping(e, f) == f.start < e.end \/ (e.start = e.end /\ f = [e EXCEPT !.new = f.new])
Rejected(t, edits) ==
  LET es == Ordered(edits, DOMAIN edits)
  IN OutOfRange(t, edits) \/ \E i \in 1..(Len(es) - 1) : Overlapping(es[i], es[i + 1])

\* Placements in order become ranges of the new text and, from the last to the
\* first, the new text itself.
Shifted(acc, e) ==
  LET first == e.start + acc.added + 1 - acc.removed
  IN [ranges |-> Append(acc.ranges, [first |-> first, last |-> first + Len(e.new) - 1, new |-> e.new]),
      added |-> acc.added + Len(e.new), removed |-> acc.removed + e.end - e.start]
Ranges(placements) ==
  LET upto[k \in 0..Len(placements)] ==
        IF k = 0 THEN [ranges |-> <<>>, added |-> 0, removed |-> 0] ELSE Shifted(upto[k - 1], placements[k])
  IN upto[Len(placements)]
Spliced(t, placements) ==
  LET edit(k) == placements[Len(placements) + 1 - k]
      after[k \in 0..Len(placements)] ==
        IF k = 0 THEN t ELSE Splice(after[k - 1], edit(k).start, edit(k).end, edit(k).new)
  IN after[Len(placements)]

\* A byte order mark with nothing after it counts as one line.
RawLines(t) == IF t.bom /\ t.lines = <<>> THEN <<Unended>> ELSE t.lines
Contents(ls) ==
  [i \in DOMAIN ls |-> IF ls[i].lf THEN Raw(ls[i].word, IF ls[i].cr = 0 THEN 0 ELSE ls[i].cr - 1, FALSE)
                       ELSE ls[i]]
Closed(t) == t.lines # <<>> /\ t.lines[Len(t.lines)].lf
\* New lines get the end of the first line: the carriage returns before its line feed.
NewEnd(t) == IF t.lines # <<>> /\ t.lines[1].lf /\ t.lines[1].cr > 0 THEN 1 ELSE 0
WithEnds(e, cr) == [e EXCEPT !.new = [i \in DOMAIN e.new |-> Raw(e.new[i], cr, TRUE)]]

\* The edits that replace lines by others.
Changing(t, edits) ==
  {i \in DOMAIN edits : Contents(Slice(RawLines(t), edits[i].start, edits[i].end)) #
                        [j \in DOMAIN edits[i].new |-> Raw(edits[i].new[j], 0, FALSE)]}

\* (A wrong variant of Finished: the last line always loses an end the file had not.)
FinishedBare(t, placed) ==
  [i \in DOMAIN placed |->
     IF i < Len(placed)
     THEN IF placed[i].lf THEN placed[i] ELSE Raw(placed[i].word, placed[i].cr + NewEnd(t), TRUE)
     ELSE IF ~ Closed(t) /\ RawLines(t) # <<>> THEN Contents(placed)[i] ELSE placed[i]]
\* Lines that came before others get an end; the last one loses it if the file
\* had none there, unless it is an empty line with the end new lines get.
Finished(t, placed) ==
  [i \in DOMAIN placed |->
     IF i < Len(placed)
     THEN IF placed[i].lf THEN placed[i] ELSE Raw(placed[i].word, placed[i].cr + NewEnd(t), TRUE)
     ELSE IF ~ Closed(t) /\ RawLines(t) # <<>> /\ placed[i] # Raw(NoWord, NewEnd(t), TRUE)
     THEN Contents(placed)[i] ELSE placed[i]]
\* The lines of the file they make: what has neither a text nor an end is none.
FileOf(bom, ls) ==
  IF ls = <<>> THEN [bom |-> FALSE, lines |-> <<>>]
  ELSE [bom |-> bom, lines |-> IF ls[Len(ls)] = Unended THEN Slice(ls, 0, Len(ls) - 1) ELSE ls]

EditLines(t, edits) ==
  LET es == Ordered(edits, Changing(t, edits))
      places == [i \in DOMAIN es |-> WithEnds(es[i], NewEnd(t))]
      placed == Spliced(RawLines(t), places)
  IN IF Rejected(RawLines(t), edits)
     THEN [state |-> "rejected", text |-> t, placed |-> RawLines(t), ranges |-> <<>>, placements |-> <<>>]
     ELSE [state |-> "edited", text |-> FileOf(t.bom, Finished(t, placed)), placed |-> placed,
           ranges |-> Ranges(places).ranges, placements |-> places]

----------------------------------------------------------------------------
(* Patches.  A line is [indent, word, trail]: two lines are equal at grade *)
(* 0 exactly, at 1 but for trailing, at 2 but for any outer white space.   *)

EqualAt(l, m, grade) ==
  /\ l.word = m.word
  /\ grade < 2 => l.indent = m.indent
  /\ grade < 1 => l.trail = m.trail

PlacesOf(t, needle, cursor, eof, grade) ==
  IF needle = <<>> \/ Len(needle) > Len(t) THEN {}
  ELSE LET last == Len(t) - Len(needle)
       IN {i \in cursor..last : /\ eof => i = last
                                /\ \A j \in DOMAIN needle : EqualAt(t[i + j], needle[j], grade)}
\* The first grade at which `good' holds, or 3.
FirstGrade(grades, Good(_)) == IF \E g \in grades : Good(g)
                               THEN CHOOSE g \in grades : Good(g) /\ \A h \in grades : h < g => ~ Good(h)
                               ELSE 3
One(set) == CHOOSE x \in set : TRUE

\* Context shared at either end of the match is not replaced.
Trim(t, start, end, new) ==
  LET prefix == CHOOSE n \in 0..Smaller(end - start, Len(new)) :
                  /\ \A j \in 1..n : t[start + j] = new[j]
                  /\ n < Smaller(end - start, Len(new)) => t[start + n + 1] # new[n + 1]
      rest == Slice(new, prefix, Len(new))
      width == end - start - prefix
      suffix == CHOOSE n \in 0..Smaller(width, Len(rest)) :
                  /\ \A j \in 0..(n - 1) : t[end - j] = rest[Len(rest) - j]
                  /\ n < Smaller(width, Len(rest)) => t[end - n] # rest[Len(rest) - n]
  IN [start |-> start + prefix, end |-> end - suffix, new |-> Slice(rest, 0, Len(rest) - suffix)]

NotBlank(ls) == \E i \in DOMAIN ls : ls[i].word # ""
Failed(acc, why) == [acc EXCEPT !.state = why]
Placed(acc, e, cursor) ==
  [acc EXCEPT !.cursor = cursor,
              !.placements = IF e.start # e.end \/ e.new # <<>> THEN Append(@, e) ELSE @]

\* A hunk with nothing to match goes to the end, unless it is there already.
PlaceAtEnd(t, acc, new) ==
  LET there == Len(new) >= 2 /\ NotBlank(new)
               /\ FirstGrade({0, 1}, LAMBDA g : Cardinality(PlacesOf(t, new, acc.cursor, TRUE, g)) = 1) < 3
  IN Placed(acc, [start |-> Len(t), end |-> Len(t), new |-> IF there THEN <<>> ELSE new], Len(t))

\* Other hunks go to the only place, at or after the cursor, where their old
\* lines match at the best grade any place does; failing that, a hunk whose new
\* lines are found there has been applied already.
PlaceMatched(t, acc, h) ==
  LET grade == FirstGrade({0, 1, 2}, LAMBDA g : PlacesOf(t, h.old, acc.cursor, h.eof, g) # {})
      found == PlacesOf(t, h.old, acc.cursor, h.eof, grade)
      at == One(found)
      repeat == FirstGrade({0, 1}, LAMBDA g : Cardinality(PlacesOf(t, h.new, acc.cursor, h.eof, g)) = 1)
  IN IF grade < 3
     THEN IF Cardinality(found) # 1 THEN Failed(acc, "ambiguous")
          ELSE Placed(acc, Trim(t, at, at + Len(h.old), h.new), at + Len(h.old))
     ELSE IF (h.context \/ Len(h.new) >= 2) /\ NotBlank(h.new) /\ repeat < 3
     THEN [acc EXCEPT !.cursor = One(PlacesOf(t, h.new, acc.cursor, h.eof, repeat)) + Len(h.new)]
     ELSE Failed(acc, "not_found")

\* (A wrong variant of PlaceHunk: each hunk is looked for from the first line.)
PlaceHunkAnywhere(t, acc, h) ==
  IF acc.state # "ok" THEN acc ELSE PlaceMatched(t, [acc EXCEPT !.cursor = 0], h)

\* An anchor moves the cursor behind the first line equal to it.
PlaceHunk(t, acc, h) ==
  LET grade == FirstGrade({0, 1, 2}, LAMBDA g : \E i \in acc.cursor..(Len(t) - 1) : EqualAt(t[i + 1], h.anchor[1], g))
      line == CHOOSE i \in acc.cursor..(Len(t) - 1) :
                /\ EqualAt(t[i + 1], h.anchor[1], grade)
                /\ \A j \in acc.cursor..(i - 1) : ~ EqualAt(t[j + 1], h.anchor[1], grade)
      begun == IF h.anchor = <<>> THEN acc ELSE [acc EXCEPT !.cursor = line + 1]
  IN IF acc.state # "ok" THEN acc
     ELSE IF h.anchor # <<>> /\ grade = 3 THEN Failed(acc, "not_found")
     ELSE IF h.old = <<>> THEN PlaceAtEnd(t, begun, h.new)
     ELSE PlaceMatched(t, begun, h)

NothingPlaced == [state |-> "ok", cursor |-> 0, placements |-> <<>>]
PlacedHunks(t, hunks) ==
  LET upto[k \in 0..Len(hunks)] == IF k = 0 THEN NothingPlaced ELSE PlaceHunk(t, upto[k - 1], hunks[k])
  IN upto[Len(hunks)]

\* Lines without their ends become a file: with one kind of end for all, and
\* without the last if the file had none there, where an empty line is none.
LinesOf(t) == [i \in DOMAIN t |-> t[i].line]
OneEnd(t) == IF \E i \in DOMAIN t : t[i].end = "crlf" THEN "crlf" ELSE "lf"
Open(t) == t # <<>> /\ t[Len(t)].end = "none"
Reended(t, ls) ==
  LET kept == IF Open(t) /\ ls # <<>> /\ ls[Len(ls)] = Empty THEN Len(ls) - 1 ELSE Len(ls)
  IN [i \in 1..kept |-> [line |-> ls[i], end |-> IF Open(t) /\ i = Len(ls) THEN "none" ELSE OneEnd(t)]]

ApplyUpdate(t, hunks) ==
  LET acc == PlacedHunks(LinesOf(t), hunks)
      places == acc.placements
      placed == Spliced(LinesOf(t), places)
  IN IF acc.state # "ok"
     THEN [state |-> acc.state, text |-> t, placed |-> LinesOf(t), ranges |-> <<>>, placements |-> <<>>]
     ELSE [state |-> "patched", text |-> IF places = <<>> THEN t ELSE Reended(t, placed),
           placed |-> placed, ranges |-> Ranges(places).ranges, placements |-> places]

----------------------------------------------------------------------------
NoJob == [kind |-> "none"]
TextInit == file \in Texts /\ pages = NoPages /\ job = NoJob

Edit == /\ job = NoJob /\ pages = NoPages
        /\ \E t \in EditTexts, edits \in EditLists :
             job' = [kind |-> "edit", text |-> t, edits |-> edits, result |-> EditLines(t, edits)]
        /\ UNCHANGED <<file, pages>>
Patch == /\ job = NoJob /\ pages = NoPages
         /\ \E t \in PatchTexts, hunks \in PatchHunks :
              job' = [kind |-> "patch", text |-> t, hunks |-> hunks, result |-> ApplyUpdate(t, hunks)]
         /\ UNCHANGED <<file, pages>>
TextNext == \/ job = NoJob /\ (RequestPage \/ TakeLine \/ \E t \in Texts : Rewrite(t))
            \/ Edit \/ Patch
TextSpec == TextInit /\ [][TextNext]_textVars

----------------------------------------------------------------------------
(* Properties.                                                             *)

\* However a caller pages, and whatever happens to the file meanwhile, the
\* pages joined are a beginning of one revision of it, each page ends at the
\* end of a character, and a reading that completes has all of it (read_file).
PagesAreTheFile ==
  /\ IsPrefix(pages.got, pages.text)
  /\ pages.state \in {"next", "complete", "changed"} => Boundary(pages.text, Len(pages.got))
  /\ pages.state = "complete" => pages.got = pages.text
  /\ pages.state # "bad_offset"

\* The new lines stand where the ranges say.
RangesHold(result) ==
  \A i \in DOMAIN result.ranges :
    SubSeq(result.placed, result.ranges[i].first, result.ranges[i].last) = result.ranges[i].new

\* Between the ranges stands what is left of the original, in its order.
RestHolds(result, t, places) ==
  \A i \in 0..Len(places) :
    LET from == IF i = 0 THEN 0 ELSE places[i].end
        to == IF i = Len(places) THEN Len(t) ELSE places[i + 1].start
        last == IF i = 0 THEN 0 ELSE result.ranges[i].last
        next == IF i = Len(places) THEN Len(result.placed) + 1 ELSE result.ranges[i + 1].first
    IN next = last + to - from + 1 /\ SubSeq(result.placed, last + 1, next - 1) = SubSeq(t, from + 1, to)

\* The lines placed are those of the new file, text by text; the ends of all but
\* the last are kept.  The file ends in a line end if it did, and otherwise only
\* with an empty line whose end is that of new lines: an old one with another end
\* is lost.
EditedFile(result, t) ==
  LET n == Len(result.placed)
      ls == result.text.lines
      blank == Raw(NoWord, NewEnd(t), TRUE)
  IN /\ result.text.bom = (t.bom /\ n > 0)
     /\ Len(ls) # n => /\ Len(ls) = n - 1 /\ ~ Closed(t)
                      /\ result.placed[n].word = NoWord /\ result.placed[n] # blank
     /\ \A i \in DOMAIN ls : /\ ls[i].word = result.placed[i].word
                             /\ i < n /\ result.placed[i].lf => ls[i] = result.placed[i]
                             /\ i < n \/ Closed(t) => ls[i].lf
     /\ ~ Closed(t) /\ RawLines(t) # <<>> /\ n \in DOMAIN ls => ~ ls[n].lf \/ ls[n] = blank

\* Each edit that changes anything takes effect once, in its place in the original,
\* none touches what another replaces, and the reported ranges point at the new
\* lines (edit_lines).
EditsAreExact ==
  job.kind = "edit" /\ job.result.state = "edited" =>
    LET places == job.result.placements
        changing == Changing(job.text, job.edits)
    IN /\ Len(places) = Cardinality(changing)
       /\ {places[i] : i \in DOMAIN places} = {WithEnds(job.edits[i], NewEnd(job.text)) : i \in changing}
       /\ \A i \in 1..(Len(places) - 1) : places[i].end <= places[i + 1].start
       /\ RangesHold(job.result) /\ RestHolds(job.result, RawLines(job.text), places)
       /\ EditedFile(job.result, job.text)

\* The lines placed are those of the new file, every end of which is rewritten to
\* one kind; a file whose last line had no end still has none there, and loses an
\* empty line that comes to stand there.  If nothing is placed nothing changes.
PatchedFile(result, t) ==
  LET n == Len(result.placed)
  IN IF result.placements = <<>> THEN result.text = t
     ELSE /\ Len(result.text) # n =>
               Len(result.text) = n - 1 /\ Open(t) /\ result.placed[n] = Empty
          /\ \A i \in DOMAIN result.text :
               /\ result.text[i].line = result.placed[i]
               /\ result.text[i].end = IF i = n /\ Open(t) THEN "none" ELSE OneEnd(t)

\* Hunks are placed in order without touching one another, so the patched text
\* is the original with each of them in its place, where the reported ranges say;
\* a patch all of whose hunks were there already changes nothing, and neither does
\* one that is refused (apply_update).
PatchIsExact ==
  job.kind = "patch" =>
    LET places == job.result.placements
    IN /\ \A i \in 1..(Len(places) - 1) : places[i].end <= places[i + 1].start
       /\ job.result.state = "patched" => /\ RangesHold(job.result)
                                         /\ RestHolds(job.result, LinesOf(job.text), places)
       /\ PatchedFile(job.result, job.text)

\* Edits and hunks stand where the reported ranges say, and between them every
\* line that none of them names, with its text.  Two things change besides: the
\* ends of other lines, in a patched file of mixed ends and where a line without
\* an end is followed by others; and in a file whose last line has no end the
\* last line loses its end, and is lost itself if it is empty then (edit_lines,
\* apply_update).
TextIsExact == EditsAreExact /\ PatchIsExact

=============================================================================
