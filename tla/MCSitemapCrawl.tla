-------------------------- MODULE MCSitemapCrawl --------------------------
(* Small sites for SitemapCrawl.                                           *)
EXTENDS SitemapCrawl, TLC

CONSTANTS a, b, c, d, e

\* a leads to b and c, both of them to d, and b back to a: concurrent workers
\* discover the same page, and the queue runs empty before the crawl ends.
Diamond == [seeds |-> {a}, fallback |-> None, target |-> [u \in Urls |-> u],
            links |-> a :> {b, c} @@ b :> {a, d} @@ c :> {d} @@ d :> {e} @@ e :> {},
            malformed |-> {}, scope |-> Urls, assets |-> {e}, depth |-> None]

\* More pages than the cap, at once.
Star == [Diamond EXCEPT !.links = [u \in Urls |-> IF u = a THEN Urls ELSE {}],
                        !.assets = {}]

\* A chain with a short cut, limited in depth: which worker is first decides
\* at which depth d is met.
Shallow == [Diamond EXCEPT !.links = a :> {b, c} @@ b :> {d} @@ c :> {e} @@ d :> {c}
                                       @@ e :> {d},
                           !.assets = {}, !.depth = 2]

\* A sitemap (d alone when it cannot be read) of more pages than workers, which
\* redirect to one another or out of scope.
Sitemap == [Diamond EXCEPT !.seeds = {a, b, c, d}, !.fallback = d,
                           !.target = a :> d @@ b :> e @@ c :> e @@ d :> d @@ e :> e,
                           !.links = [u \in Urls |-> IF u = d THEN {a} ELSE {}],
                           !.scope = {a, b, c, d}, !.assets = {}]

\* One page has a link that does not parse.
Broken == [Diamond EXCEPT !.malformed = {b}]

\* Two of them do: with a database error at a third, enough to stop three workers.
Hopeless == [Diamond EXCEPT !.links[a] = {b, c, d}, !.malformed = {b, c}]

AllSites == {Diamond, Star, Shallow, Sitemap, Broken, Hopeless}

Symmetric == Permutations(Workers)
=============================================================================
