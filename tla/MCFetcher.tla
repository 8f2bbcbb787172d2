---- MODULE MCFetcher ----
(***************************************************************************)
(* Two scrapers of one host: three pages with room for two requests a day, *)
(* two pages and a refusal or a kill, one page that changes under them, a  *)
(* page that some runs or all of them ask for again.                       *)
(***************************************************************************)
EXTENDS Fetcher, TLC

Pages == {"a", "b", "c"}
Host(urls, hurried, budget, gap, k, r, ch) ==
    [urls |-> urls,
     limits |-> [u \in Pages |-> IF u = "a" THEN hurried ELSE {MaxAge}],
     budget |-> budget, gap |-> gap, kills |-> k, refusals |-> r, changes |-> ch]
Hosts == {Host(<<"a", "b", "c">>, {MaxAge}, 2, 0, 0, 0, 0),
          Host(<<"a", "b">>, {MaxAge}, 2, 0, 1, 1, 0),
          Host(<<"a", "b">>, {0, 3, MaxAge}, 5, 0, 0, 0, 0),
          Host(<<"a">>, {MaxAge}, 2, 1, 0, 2, 0), Host(<<"a">>, {3, MaxAge}, 2, 0, 1, 0, 1),
          Host(<<"a">>, {MaxAge}, 2, 0, 1, 0, 2),
          Host(<<"a">>, {MaxAge}, 1, 1, 0, 0, 3)}
=============================================================================
