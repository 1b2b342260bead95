-------------------------------- MODULE MCLru --------------------------------
(***************************************************************************)
(* Small instances of the LRU threads.  Each start has some items in one   *)
(* list, its settings and its own allowance of operations.                 *)
(***************************************************************************)
EXTENDS LruCrawler
CONSTANTS i1, i2, d1, d2

Nothing == [ops |-> 0, crawls |-> 0, dumps |-> 0, toggles |-> 0, pauses |-> 0, until |-> 0, tocrawl |-> 0,
            lru_crawler |-> FALSE, temp_lru |-> FALSE, garbage |-> 0]
From(lru, list, exp, allowed) == [lru |-> lru, list |-> list, exp |-> exp, left |-> allowed]
SomeStarts ==
    { From("HOT", <<i1>>, 0, [Nothing EXCEPT !.ops = 3]),
      From("WARM", <<i1, i2>>, 0, [Nothing EXCEPT !.ops = 1, !.until = 1]),
      From("COLD", <<i1, i2>>, 0, [Nothing EXCEPT !.ops = 3, !.garbage = 2]),
      From("COLD", <<i1, i2>>, 1, [Nothing EXCEPT !.ops = 1, !.until = 2]),
      From("HOT", <<i2>>, 1, [Nothing EXCEPT !.ops = 1, !.until = 2, !.temp_lru = TRUE]),
      From("HOT", <<i1, i2>>, 1, [Nothing EXCEPT !.until = 2, !.lru_crawler = TRUE]),
      From("COLD", <<i1>>, 1, [Nothing EXCEPT !.ops = 1, !.until = 1, !.lru_crawler = TRUE]),
      From("COLD", <<i1>>, 0, [Nothing EXCEPT !.ops = 1, !.dumps = 1, !.lru_crawler = TRUE]),
      From("COLD", <<i1, i2>>, 0, [Nothing EXCEPT !.ops = 1, !.crawls = 1, !.tocrawl = 2, !.lru_crawler = TRUE]),
      From("COLD", <<i1>>, 0, [Nothing EXCEPT !.toggles = 2, !.dumps = 1, !.pauses = 1, !.lru_crawler = TRUE]),
      From("COLD", <<i1>>, 0, [Nothing EXCEPT !.dumps = 2, !.lru_crawler = TRUE]) }
=============================================================================
