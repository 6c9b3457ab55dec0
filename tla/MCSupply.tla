------------------------------- MODULE MCSupply -------------------------------
(* Two publishers, three versions, and a client of either kind. *)
EXTENDS Supply

MCOrder == <<"x86_64", "static">>

MCWriters == [none |-> {"p1", "p2"}, http |-> {"p2"}, github |-> {}]
MCMaxPublishes == [p1 |-> 1, p2 |-> 2]

File(parts) == Entry("file", TRUE, parts, 10)
Index == File(<<"index.html">>)
MCArchiveOf(b) ==
  CASE b = "b1" -> <<Entry("dir", TRUE, <<>>, 0), Index>>
    [] b = "b2" -> <<Index, Entry("dir", TRUE, <<"js">>, 0), File(<<"js", "main">>)>>
    [] b = "dots" -> <<Index, File(<<"..", "main">>)>>
    [] b = "large" -> <<Index, Entry("file", TRUE, <<"blob">>, 100)>>
    [] OTHER -> <<>>

MCSourceOf(f) ==
  IF f = "moved" THEN [kind |-> "http", descriptor |-> TRUE, stable |-> 2, manifest |-> 1]
  ELSE [kind |-> "github", draft |-> f = "draft", prerelease |-> FALSE, static |-> 1, sums |-> TRUE]

Release(canonical, tags, draft, server, static) ==
  [version |-> 2, canonical |-> canonical, tags |-> tags, draft |-> draft, prerelease |-> FALSE,
   twice |-> {}, files |-> [server |-> server, static |-> static],
   sums |-> [n \in Names |-> "b1"]]
MCGithubReleases ==
  {Release(TRUE, {"v"}, FALSE, "b1", "b1"), Release(TRUE, {"v", "bare"}, FALSE, "b1", "b1"),
   Release(TRUE, {"v"}, TRUE, "b1", "b1"), Release(TRUE, {"bare"}, FALSE, "b1", "b2")}
=============================================================================
