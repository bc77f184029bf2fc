---------------------------- MODULE MCReferences ----------------------------
(***************************************************************************)
(* An instance of References: three tags of which one was merged, a hero   *)
(* with a pinned set, a chat about the set, and a scene.                   *)
(***************************************************************************)
EXTENDS References

CONSTANTS old, merged, new, hero, set, chat, scene, t, u

Tags == {old, merged, new}
Pins == (set :> hero)
Subjects == (chat :> set)

Threads == Permutations({t, u})
Listed == <<old, scene, set, hero, merged, chat, new>>

\* A scene mentions a tag merged into another and the hero, and a chat has the
\* hero's set on its stage.
Starts ==
    {[n \in Node |-> CASE n = scene -> {merged, hero} [] n = merged -> {new} [] n = chat -> {set} [] OTHER -> {}]}
=============================================================================
