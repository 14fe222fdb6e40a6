---------------------------- MODULE MCUpdateFlow ----------------------------
(***************************************************************************)
(* Instances of UpdateFlow for TLC: two providers, whose threads race.     *)
(***************************************************************************)
EXTENDS UpdateFlow, TLC

OneVehicle == {[type |-> 4, id |-> 1]}
ThreeReadings == {<<0, 0>>, <<0, 1>>, <<1, 0>>}

ProviderSymmetry == Permutations(Providers)
=============================================================================
