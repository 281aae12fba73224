---------------------------- MODULE MCNormalize ----------------------------
(* Two counters, logs of up to four samples, half-second ticks. *)
EXTENDS NormalizeStats

CONSTANTS instructions, cycles, MaxSamples, Gaps

MCStats == {instructions, cycles}
MCRates == {1, 3}

\* Every log of up to MaxSamples samples, each one of Gaps ticks after the last.
Prefix(gap, k) == LET f[j \in 0 .. k] == IF j = 0 THEN 0 ELSE f[j - 1] + gap[j] IN f[k]
MCTimeStamps ==
    UNION {{[k \in 1 .. n |-> Prefix(gap, k)] : gap \in [1 .. n -> Gaps]} :
              n \in 1 .. MaxSamples}
=============================================================================
