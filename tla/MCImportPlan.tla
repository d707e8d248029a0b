---------------------------- MODULE MCImportPlan ----------------------------
(* An import.  Its execution: an archive of two files, one request beside it;  *)
(* two uploads and an edit, two uploads and a fault, or one upload, an edit    *)
(* and two faults.  Its links: archives of two files at places of one or two   *)
(* segments, one link of each kind, or texts of two links to assets.  The two  *)
(* share no state, and each part of the run has one of them.                   *)
EXTENDS ImportPlan, ImportLinks, TLC

CONSTANTS x, y, c1

VARIABLE part

TwoFiles == <<x, y>>
Spends(u, e, f) == [uploads |-> u, runs |-> 0, edits |-> e, faults |-> f]
Budgets == {Spends(0, 0, 2), Spends(0, 1, 1), Spends(1, 0, 0)}

Names == {"n", "N", "m", "v", "index", "index1"}
Lower == [n \in Names |-> IF n = "N" THEN "n" ELSE n]
SlugOf == [n \in Names |-> CASE n = "N" -> "n" [] n = "index" -> "index1" [] OTHER -> n]
Sources == {<<"n">>, <<"m", "n">>}
Others == {<<"N">>, <<"m">>, <<"m", "N">>, <<"m", "index">>, <<"n", "n">>, <<"n", "m">>, <<"m", "v">>, <<"n", "index">>}
Segs == {<<s>> : s \in {"n", "N", "m", "v", "index"}} \cup {<<s, t>> : s \in {"m", "n", "up"}, t \in {"n", "N", "m", "v", "index"}}
Shapes == {[syntax |-> "markdown", anchor |-> FALSE], [syntax |-> "wiki", anchor |-> FALSE], [syntax |-> "wiki", anchor |-> TRUE]}
Lnk(h, from, segs, ext) == [syntax |-> h.syntax, anchor |-> h.anchor, from |-> from, segs |-> segs, ext |-> ext]
Links == {l \in {Lnk(h, from, segs, ext) : h \in Shapes, from \in {"top", "dot", "bare"}, segs \in Segs, ext \in {"none", "md"}} :
            l.segs[1] = "up" => l.from = "dot"}
ArchiveOf(files, texts, under) == [files |-> files, texts |-> texts, assets |-> {<<"n">>, <<"m", "n">>}, under |-> under]
Pic(from, segs) == Lnk([syntax |-> "markdown", anchor |-> FALSE], from, segs, "asset")
Pics == {Pic("bare", <<"n">>), Pic("top", <<"n">>), Pic("dot", <<"up", "n">>), Pic("bare", <<"m">>)}
Code == [Pic("bare", <<"n">>) EXCEPT !.syntax = "code"]
Archives ==
  {ArchiveOf(<<s, o>>, <<<<l>>, <<>>>>, u) : s \in Sources, o \in Others, l \in Links, u \in {<<>>}}
  \cup {ArchiveOf(<<s, o>>, <<<<l>>, <<>>>>, u) : s \in Sources, o \in {<<"m", "index">>, <<"n", "m">>}, l \in Links, u \in {<<"m">>}}
  \cup {ArchiveOf(<<<<"m", "n">>, <<"index">>>>, <<<<l>>, <<>>>>, <<"m">>) :
          l \in Links \cup {Lnk(h, "dot", <<"up">>, "none") : h \in Shapes}}
  \cup {ArchiveOf(<<<<"n">>, <<"m">>>>, <<<<>>, <<>>>>, <<>>)}
  \cup {ArchiveOf(<<s, <<"m">>>>, <<<<p, q>>, <<q, r>>>>, <<>>) : s \in Sources, p, q \in Pics, r \in Pics \cup {Code}}

PartsInit ==
  /\ ImportInit /\ LinksInit /\ part \in {"plan", "links"}
  /\ part = "plan" => zip = ArchiveOf(<<<<"n">>, <<"m">>>>, <<<<>>, <<>>>>, <<>>)
  /\ part = "links" => counts = Spends(0, 0, 2)

PartsNext ==
  /\ UNCHANGED part
  /\ \/ part = "plan" /\ ImportNext /\ UNCHANGED linksVars
     \/ part = "links" /\ LinksNext /\ UNCHANGED importVars

Parts ==
  /\ PartsInit /\ [][PartsNext]_<<importVars, linksVars, part>>
  /\ part = "plan" => ImportFairness
=============================================================================
