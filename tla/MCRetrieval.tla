----------------------------- MODULE MCRetrieval -----------------------------
(* Instances of Retrieval for TLC: budgets of a few tokens, so that a handful *)
(* of messages goes through compaction and archival.                         *)
EXTENDS Retrieval, TLC

CONSTANT Inline     \* the request that creates the window

OneCreator == {Inline}
NoCreator == {}
OneToken == {1}
MixedTokens == {1, 2}
AllBuildTypes == {"standard-tiered", "knowledge-enriched", "passthrough"}
=============================================================================
