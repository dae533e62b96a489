---------------------------- MODULE MCCatalogFeed ----------------------------
(* CatalogFeed with channels of two entries, so that they fill.              *)
EXTENDS CatalogFeed

CONSTANT p1
=============================================================================
