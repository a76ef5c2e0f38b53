---------------------------- MODULE MCResources ----------------------------
(***************************************************************************)
(* What is written and who may read it, side by side: the file             *)
(* transactions and text algorithms of the native tools, and the resources *)
(* of a run.  They share no state; `part' says which a behaviour is of.    *)
(***************************************************************************)
EXTENDS NativeWrites, NativeText, Barriers, TLC

CONSTANTS p1, p2, k1, c1, c2, c3
VARIABLE part

MCCallOrder == <<c1, c2, c3>>
MCPathOrder == <<p1, p2>>
Plan(one, two) == (p1 :> one) @@ (p2 :> two)
Ask(kind, key, dry, plan) == [kind |-> kind, key |-> key, dry |-> dry, plan |-> plan]
MCRequests == { Ask("changes", k1, FALSE, Plan("write", "edit")),
                Ask("changes", NoKey, TRUE, Plan("write", "same")),
                Ask("patch", k1, FALSE, Plan("delete", "create")) }
MCPresent == {{p1}, {p1, p2}}

\* One-byte and longer characters, lines with and without an end.
MCTexts == { <<>>, <<"x">>, <<"x", "n">>, <<"x", "n", "L", "C", "n">>, <<"x", "n", "L", "C", "x">>,
             <<"L", "C", "C", "n", "x">>, <<"n", "x", "x">> }

\* Lines ended alike, with and without a last end; empty lines, mixed ends, lone
\* carriage returns and a byte order mark.
LF(word) == Raw(word, 0, TRUE)
CRLF(word) == Raw(word, 1, TRUE)
Last1(word) == Raw(word, 0, FALSE)
MCRawTexts ==
  { <<>>, <<LF("a")>>, <<LF("a"), LF("b")>>, <<LF("a"), LF("a"), LF("b")>>, <<Last1("a")>>,
    <<LF("a"), Last1("b")>>, <<LF("b"), LF("a"), Last1("b")>>, <<LF("")>>, <<CRLF("")>>,
    <<LF("a"), LF(""), Last1("b")>>, <<CRLF("a"), LF(""), Last1("b")>>, <<LF("a"), CRLF(""), Last1("b")>>,
    <<CRLF("a"), LF("b")>>, <<CRLF("a"), CRLF("b"), Last1("a")>>, <<LF("a"), Raw("b", 1, FALSE)>>,
    <<Raw("a", 2, TRUE), Last1("b")>> }
MCEditTexts == [bom : {FALSE}, lines : MCRawTexts] \cup
               [bom : {TRUE}, lines : {<<>>, <<LF("a")>>, <<CRLF(""), Last1("b")>>}]
Spans == {<<start, end>> \in (0..3) \X (0..3) : start <= end}
SomeEdits == {[start |-> span[1], end |-> span[2], new |-> new] :
                span \in Spans, new \in {<<>>, <<"a">>, <<"y", "">>}}
ShortEdits == {[start |-> span[1], end |-> span[2], new |-> new] :
                 span \in {<<0, 0>>, <<0, 1>>, <<1, 1>>, <<1, 2>>, <<2, 3>>}, new \in {<<>>, <<"y", "z">>}}
MCEditLists == UNION {[1..n -> SomeEdits] : n \in 0..2} \cup [1..3 -> ShortEdits]

Plain(word) == [indent |-> "", word |-> word, trail |-> ""]
Indented(word) == [indent |-> " ", word |-> word, trail |-> ""]
Trailing(word) == [indent |-> "", word |-> word, trail |-> " "]
Hunk(old, new, anchor, eof, context) ==
  [old |-> old, new |-> new, anchor |-> anchor, eof |-> eof, context |-> context]
a == Plain("a")
b == Plain("b")
blank == Plain("")

With(ls, end, last) == [i \in DOMAIN ls |-> [line |-> ls[i], end |-> IF i = Len(ls) THEN last ELSE end]]
MCLines == UNION {[1..n -> {a, b, Indented("a"), Trailing("b"), blank}] : n \in 0..3} \cup
           {<<a, b, a, b>>, <<b, a, b, a>>, <<a, a, b, b>>}
MCPatchTexts ==
  {With(ls, "lf", "lf") : ls \in MCLines} \cup
  {With(ls, "lf", "none") : ls \in {<<a>>, <<b>>, <<a, b>>, <<b, a>>, <<a, blank, b>>, <<blank, b>>, <<a, a, b>>}} \cup
  {With(ls, "cr", "crlf") : ls \in {<<a, b>>, <<b, a>>}} \cup
  {With(ls, "crlf", "lf") : ls \in {<<a, b>>, <<a, blank, b>>}} \cup
  {With(ls, "crlf", "none") : ls \in {<<a, blank, b>>, <<b, a>>}}
SomeHunks ==
  { Hunk(<<a>>, <<b>>, <<>>, FALSE, FALSE), Hunk(<<a>>, <<a, b>>, <<>>, FALSE, TRUE),
    Hunk(<<a, b>>, <<a>>, <<>>, FALSE, TRUE), Hunk(<<b>>, <<>>, <<>>, TRUE, FALSE),
    Hunk(<<b>>, <<a, a>>, <<a>>, FALSE, FALSE), Hunk(<<>>, <<b>>, <<>>, FALSE, FALSE),
    Hunk(<<>>, <<a, b>>, <<>>, FALSE, FALSE), Hunk(<<a, b>>, <<b, b>>, <<b>>, FALSE, TRUE) }
MCPatchHunks == UNION {[1..n -> SomeHunks] : n \in 1..2}

----------------------------------------------------------------------------
\* No edit or patch depends on the file that is paged: one such file will do.
ResourcesInit == /\ part \in {"writes", "pages", "edits", "barriers"}
                 /\ WritesInit /\ TextInit /\ BarriersInit
                 /\ part # "writes" => \A p \in Paths : files[p] # Absent
                 /\ part # "pages" => file = <<>>
ResourcesNext ==
  /\ \/ part = "writes" /\ WritesNext /\ UNCHANGED <<textVars, barrierVars>>
     \/ /\ part = "pages" /\ (RequestPage \/ TakeLine \/ \E t \in Texts : Rewrite(t))
        /\ UNCHANGED <<writesVars, barrierVars>>
     \/ part = "edits" /\ (Edit \/ Patch) /\ UNCHANGED <<writesVars, barrierVars>>
     \/ part = "barriers" /\ BarriersNext /\ UNCHANGED <<writesVars, textVars>>
  /\ UNCHANGED part
ResourcesSpec == ResourcesInit /\ [][ResourcesNext]_<<part, writesVars, textVars, barrierVars>>
=============================================================================
