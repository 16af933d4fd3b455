------------------------------- MODULE MCRemake -------------------------------
(* A makefile for TLC: `all' needs w, x and y ; x and y both need the      *)
(* source s (a diamond) ; x needs z too and y needs v, which are made from t  *)
(* by the same commands; w needs u, for which there is no rule.  s, w and z   *)
(* can be made at once.                                                      *)
EXTENDS Remake, TLC

CONSTANTS all, w, x, y, z, v, s, t, u

MCDeps == all :> <<x, y, w>> @@ x :> <<z, s>> @@ y :> <<v, s>> @@ z :> <<t>> @@ v :> <<t>>
          @@ s :> <<>> @@ w :> <<u>> @@ t :> <<>> @@ u :> <<>>
MCAlso == [f \in File |-> CASE f = z -> {v} [] f = v -> {z} [] OTHER -> {}]
MCLines == [f \in File |-> CASE f = x -> 2 [] f = all -> 0 [] OTHER -> 1]
MCOldTimes == [f \in File |-> CASE f \in {all, w} -> {0} [] f = y -> {0, 2}
                                  [] f = t -> {1} [] OTHER -> {0, 1}]
MCGoals == <<all>>
Opt(k, d, w_, m, n) ==
  [KeepGoing |-> k, DeleteOnError |-> d, WaitNoHang |-> w_, MayFail |-> m, ForkFails |-> n]
\* make; make -k with .DELETE_ON_ERROR as the Windows build reaps, where no two targets
\* depend on one that fails; and make -k where two do.
MCOptions == {Opt(FALSE, FALSE, TRUE, {x, s}, {}), Opt(TRUE, TRUE, FALSE, {x, z}, {x, z})}
MCDiamond == {Opt(TRUE, FALSE, TRUE, {s}, {})}
==============================================================================
