------------------------- MODULE MCIngestionWorker -------------------------
(* A bounded instance: a scraper and, after it, a checkpointing source.    *)
EXTENDS IngestionWorker

MCCheckpointing == {2}
MCMaxListings == <<1, 2>>
=============================================================================
