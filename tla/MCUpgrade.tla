---- MODULE MCUpgrade ----
(* Two objects under two keys, three versions of six applications. *)
EXTENDS Upgrade
MCPK == {1, 2}
MCSK == {1, 2}
MCVersions == 1..3
Plain == [drop |-> NoCall, store |-> Null, unindex |-> NoCall, index |-> NoCall]
Before(n) == 0..(n - 1)
With(condition) == [Plain EXCEPT !.index = condition]
MCPrograms == {
    \* README: the index comes with version 2, by condition.
    <<Plain, [With(Before(2)) EXCEPT !.store = Before(1)], [With(Before(2)) EXCEPT !.store = Before(1)]>>,
    \* It comes by itself, and later it is filled explicitly.
    <<Plain, With(Null), With(0..3)>>,
    \* It is deleted and comes again.
    <<With(Null), [Plain EXCEPT !.unindex = Null], With(Null)>>,
    \* It is not declared for one version.
    <<With(Null), Plain, With(Null)>>,
    \* Store and index are deleted and made again.
    <<With(Null), [With(Null) EXCEPT !.drop = Null], [With(Null) EXCEPT !.drop = {1}]>>,
    \* A condition that does not hold for who skips versions.
    <<Plain, Plain, [With(Null) EXCEPT !.store = {2}]>> }
\* None of them leaves out versions for which there is something to fill.
ASSUME AllSensible == Sensible
====
