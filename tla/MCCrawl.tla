------------------------------- MODULE MCCrawl ------------------------------
(* Instances of Crawl for TLC.                                             *)
EXTENDS Crawl
=============================================================================
