--------------------------- MODULE MCAlarmManager ---------------------------
(* AlarmManager on small instances: an OPC-UA tag and a static one, two     *)
(* alarms on them (or both on one), whose slugs may collide.                *)
EXTENDS AlarmManager, TLC

CONSTANTS t1, t2

A == <<1>>
A1 == <<1, 1>>

Def(id, code, tag, required, values) ==
    [id |-> id, code |-> code, trigger |-> tag, on_true |-> TRUE,
     ack_required |-> required, values |-> values]

\* Two alarms that share a code, one with an id that its second instance takes.
Colliding ==
    <<Def(A1, A, t1, TRUE, {t2}), Def(NoId, A, t2, FALSE, {})>>

\* One definition, on the other tag.
Retargeted == <<Def(A1, A, t2, TRUE, {t1})>>

MCDrafts == {Colliding, Retargeted}
MCRoots == {A}

Symmetry == Permutations(Clients)
=============================================================================
