----------------------------- MODULE MCMultiVoc -----------------------------
(* Instances of MultiVoc for TLC, with Player. *)
EXTENDS Player, TLC

\* MV_Init takes the voices in any order here, so that they are interchangeable.
VoiceSymmetry == Permutations(Voice)

\* Nothing failed before, or something whose message a failing call must replace.
OlderErrors ==
    {[fx |-> "FX_Ok", mv |-> "MV_Ok"], [fx |-> "FX_MultiVocError", mv |-> "MV_NoMem"]}

\* The fields of a voice that no list but the pool holds are not read before
\* the next MV_Play function has set them; nor are the locals of a function
\* that has returned, nor does it matter if a sound was called back twice.
Alive(f) == [v \in Playing \cup ({voice, mixed} \cap Cell) |-> f[v]]
Local(x) == IF mpc = "run" THEN Null ELSE x

LiveView ==
    <<lists, Alive(handle), Alive(priority), Alive(kind), Alive(left), lastHandle,
      state, mpc, voice, Local(asked), Local(ret), isr, {v \in Voice : called[v] = 0},
      older>>
=============================================================================
