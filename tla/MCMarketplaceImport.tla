------------------------- MODULE MCMarketplaceImport -------------------------
(* MarketplaceImport on a small instance. *)
EXTENDS MarketplaceImport

CONSTANTS row1, row2, bad, odd, f1, f2, k1

\* A key used for two files, and a file sent without a key.
some_requests == {<<f1, k1>>, <<f2, k1>>, <<f1, NoKey>>}

\* Files of up to two rows.
short_files == {<<row1>>, <<row2>>, <<row1, row2>>, <<row2, row2>>, <<bad, row2>>, <<row2, odd>>,
                <<odd, row1>>}
==============================================================================
