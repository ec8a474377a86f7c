------------------------ MODULE MCBlockCompressor ------------------------
(***************************************************************************)
(* Files for BlockCompressor: a pattern repeated, with a byte changed, so  *)
(* that repetitions of several distances are cut at any place.             *)
(***************************************************************************)
EXTENDS BlockCompressor

Mode(only, dict, digests, min) ==
  [only |-> only, dict |-> dict, digests |-> digests, min_match |-> min]

MCModes == {Mode(TRUE, TRUE, FALSE, 4),
            Mode(FALSE, FALSE, TRUE, 4), Mode(FALSE, TRUE, TRUE, 4),
            Mode(FALSE, FALSE, FALSE, 4), Mode(FALSE, TRUE, FALSE, 6)}

Periodic(size, period, changed) ==
  [x \in 0 .. size - 1 |-> IF x \in changed THEN 2 ELSE IF x % period = 0 THEN 1 ELSE 0]

MCFiles == {Periodic(57, 3, {17, 30}), Periodic(57, 3, {17, 53}), Periodic(53, 1, {17, 41})}
=============================================================================
