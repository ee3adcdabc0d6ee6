---------------------------- MODULE MCSchedules ----------------------------
(* Schedules on the shapes of schedule its cases tell apart. *)
EXTENDS Schedules

CONSTANTS eager, src, none

C(n)     == Target(Commits, n)
X(n)     == Target(eager, n)
From(t)  == Schedule(t, none, none)

EveryTwo    == Schedule(X(1), C(2), none)
EveryX      == Schedule(none, X(1), C(3))
OnceAtAny   == Schedule(AnyOf({X(1), C(2)}), none, C(2))
OnceAtAll   == Schedule(AllOf({X(1), C(1)}), none, C(3))
Timed       == Schedule(AnyOf({Elapsed(1), X(1)}), Elapsed(1), Fired(2))
Counting    == Schedule(none, X(1), Fired(2))
Empty       == Schedule(C(2), C(1), AnyOf({C(1), X(1)}))
Demand      == Schedule(none, none, C(2))
OfSource    == From(Target(src, 1))
CountFrom   == From(Fired(1))

SmallPlans ==
  {<<Sub(src, a)>> : a \in {OnceAtAny, OnceAtAll, Timed, Empty}}
  \union {<<Sub(src, Counting), Sub(src, Counting)>>,       \* sent again
          <<Sub(src, EveryTwo), Sub(src, EveryX)>>,         \* with another schedule
          <<Sub(src, EveryTwo), Sub(src, Counting)>>,       \* of another class
          <<Sub(none, Demand), Sub(src, EveryTwo)>>,      \* for another target
          <<Sub(src, CountFrom)>>, <<Sub(eager, OfSource)>>}  \* never accepted
=============================================================================
