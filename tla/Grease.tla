------------------------------- MODULE Grease -------------------------------
(***************************************************************************)
(* The GREASE helpers of internal/util/fingerprint/grease.go (RFC 8701):   *)
(* pure functions over uint16 slices, as operators over sequences of       *)
(* naturals.  Positions are 0-based, as in Go.                             *)
(***************************************************************************)
EXTENDS Naturals, Sequences, FiniteSets, SequencesExt

\* GREASEValues: 0x0a0a, 0x1a1a, ..., 0xfafa.
GREASEValues == [i \in 1..16 |-> 2570 + 4112 * (i - 1)]

IsGREASE(v) == \E i \in 1..16 : GREASEValues[i] = v

FilterGREASE(values) == SelectSeq(values, LAMBDA v : ~IsGREASE(v))

\* A copy: GREASE values stay where they are.
PreserveGREASE(values) == values

(***************************************************************************)
(* InjectGREASE, the loop of lines 70-87: at output step i, a GREASE value *)
(* is emitted when i is one of the positions (and fewer than 16 have been  *)
(* emitted), otherwise the next input value if any is left.                *)
(***************************************************************************)
RECURSIVE InjectLoop(_, _, _, _, _, _)
InjectLoop(values, positions, i, greaseIdx, valueIdx, result) ==
    IF i > Len(values) + Len(positions) THEN result
    ELSE IF (\E k \in 1..Len(positions) : positions[k] = i) /\ greaseIdx < 16
    THEN InjectLoop(values, positions, i + 1, greaseIdx + 1, valueIdx,
                    Append(result, GREASEValues[(greaseIdx % 16) + 1]))
    ELSE IF valueIdx < Len(values)
    THEN InjectLoop(values, positions, i + 1, greaseIdx, valueIdx + 1,
                    Append(result, values[valueIdx + 1]))
    ELSE InjectLoop(values, positions, i + 1, greaseIdx, valueIdx, result)

\* A plausible slip in the loop: the value index also advances on a
\* GREASE step, so the value at that step is skipped.
RECURSIVE InjectLoopSkipping(_, _, _, _, _, _)
InjectLoopSkipping(values, positions, i, greaseIdx, valueIdx, result) ==
    IF i > Len(values) + Len(positions) THEN result
    ELSE IF (\E k \in 1..Len(positions) : positions[k] = i) /\ greaseIdx < 16
    THEN InjectLoopSkipping(values, positions, i + 1, greaseIdx + 1, valueIdx + 1,
                    Append(result, GREASEValues[(greaseIdx % 16) + 1]))
    ELSE IF valueIdx < Len(values)
    THEN InjectLoopSkipping(values, positions, i + 1, greaseIdx, valueIdx + 1,
                    Append(result, values[valueIdx + 1]))
    ELSE InjectLoopSkipping(values, positions, i + 1, greaseIdx, valueIdx, result)

InjectGREASESkipping(values, positions) ==
    IF Len(values) = 0 \/ Len(positions) = 0 THEN values
    ELSE InjectLoopSkipping(values, positions, 0, 0, 0, <<>>)

InjectGREASE(values, positions) ==
    IF Len(values) = 0 \/ Len(positions) = 0 THEN values
    ELSE InjectLoop(values, positions, 0, 0, 0, <<>>)

CountGREASE(values) == Len(SelectSeq(values, IsGREASE))

GetGREASEPositions(values) ==
    SelectSeq([k \in 1..Len(values) |-> k - 1], LAMBDA i : IsGREASE(values[i + 1]))

HasGREASE(values) == \E i \in 1..Len(values) : IsGREASE(values[i])

\* A plausible wrong normalisation: drop GREASE instead of replacing it.
NormalizeDropping(values) == FilterGREASE(values)

\* Every GREASE value becomes 0x0a0a; the others stay.
NormalizeWithGREASE(values) ==
    [i \in DOMAIN values |-> IF IsGREASE(values[i]) THEN 2570 ELSE values[i]]

-----------------------------------------------------------------------------
(***************************************************************************)
(* Reference definitions the helpers are checked against.                  *)
(***************************************************************************)

\* The intent of InjectGREASE for a non-empty slice and distinct positions
\* that all fall inside the result: the output has a GREASE value at each
\* requested index (the k-th requested index, in increasing order, gets the
\* k-th GREASE value) and the input values, in order, everywhere else.
RefInject(values, S) ==
    LET n == Len(values) + Cardinality(S)
        before(j) == Cardinality({q \in S : q < j})
    IN [j \in 1..n |-> IF j - 1 \in S THEN GREASEValues[before(j - 1) + 1]
                       ELSE values[j - before(j - 1)]]

InjectInRange(values, positions) ==
    /\ Len(values) > 0
    /\ Len(positions) =< 16
    /\ \A k, l \in 1..Len(positions) : k # l => positions[k] # positions[l]
    /\ \A k \in 1..Len(positions) : positions[k] < Len(values) + Len(positions)

\* Two slices are the same up to which GREASE value occupies each GREASE
\* slot: equal length, and equal wherever either is not GREASE.
SameUpToGREASE(v, w) ==
    /\ Len(v) = Len(w)
    /\ \A i \in 1..Len(v) : v[i] = w[i] \/ (IsGREASE(v[i]) /\ IsGREASE(w[i]))
=============================================================================
