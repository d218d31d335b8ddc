---------------------------- MODULE TierScaling ----------------------------
(***************************************************************************)
(* The deadband arithmetic of the standard-tiered build type: how many     *)
(* tokens of verbatim messages (tier 1) a context window holds, given how  *)
(* many chunk summaries (tier 2) it currently has, and how many messages   *)
(* an assembly run reads back.  Percentages of the configuration are whole *)
(* numbers here; int(x * pct) of the code is the floor of x * pct / 100.   *)
(***************************************************************************)
EXTENDS Integers, FiniteSetsExt

CONSTANTS
    RawBudget,          \* context_windows.max_token_budget
    UtilPct,            \* effective_utilization
    FloorPct,           \* tier1_floor_pct
    ChunkPct,           \* tier2_chunk_pct
    Tier3Pct,           \* tier3_pct
    MinChunks,          \* tier2_min_chunks
    MaxChunks,          \* tier2_max_chunks
    MinLoad,            \* the literal 50 of the adaptive limit
    TokensPerMessage,   \* tuning.tokens_per_message_estimate
    LookbackFactor,     \* initial_lookback_multiplier
    MaxLookback         \* max_lookback_tokens

ASSUME TierAssumption ==
    /\ {RawBudget, UtilPct, FloorPct, ChunkPct, Tier3Pct, MaxLookback} \subseteq Nat
    /\ {MinChunks, MaxChunks, MinLoad, TokensPerMessage, LookbackFactor}
           \subseteq Nat \ {0}

Percent(tokens, pct) == (tokens * pct) \div 100

\* The window's budget after load_window_config applied the utilization.
MaxBudget == Percent(RawBudget, UtilPct)

Tier1Floor == Percent(MaxBudget, FloorPct)

\* The utilization is applied a second time here, as in the code.
Tier1Ceiling(chunks) ==
    Max({ Percent(MaxBudget, UtilPct) - Percent(MaxBudget, ChunkPct * chunks)
              - Percent(MaxBudget, Tier3Pct),
          Tier1Floor })

\* How many of the newest messages one assembly run reads; a window without
\* any summary row (active or not) is given a longer look back.
LoadLimit(hasSummaries) ==
    LET adaptive == Max({MinLoad, Tier1Ceiling(MaxChunks) \div TokensPerMessage})
        lookback == Min({MaxBudget * LookbackFactor, MaxLookback})
                        \div TokensPerMessage
    IN  IF hasSummaries THEN adaptive ELSE Max({adaptive, lookback})
=============================================================================
