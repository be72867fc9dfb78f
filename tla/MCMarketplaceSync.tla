-------------------------- MODULE MCMarketplaceSync --------------------------
(* MarketplaceSync on a small instance. *)
EXTENDS MarketplaceSync

CONSTANTS k1, k2

\* A full run, and incremental ones with and without a key.
some_requests == {<<"full", k1>>, <<"incremental", k2>>, <<"incremental", NoKey>>}

\* No query, and one that leaves out the second offer.
some_queries == {Offers, Offers \ {2}}
==============================================================================
