-------------------------------- MODULE MCReplay --------------------------------
(***************************************************************************)
(* Replay with two workers, one invocation more than there are workers, and *)
(* two tests, one of which crashes in one worker and the other in both.    *)
(***************************************************************************)
EXTENDS Replay

SomeCrashes == {<<1, 1>>, <<1, 2>>, <<2, 2>>}
===============================================================================
