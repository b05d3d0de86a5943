--------------------------- MODULE MCSuggestions ---------------------------
\* A document of two units, agents asked for its first unit or the place
\* behind it.
EXTENDS Suggestions

TwoUnits == <<[by |-> Person, nr |-> 100], [by |-> Person, nr |-> 101]>>

First  == <<0, 1>>
Behind == <<1, 1>>

Nothing == [edits |-> 0, invokes |-> 0, resolves |-> 0, joins |-> 0, fails |-> 0, crashes |-> 0, ticks |-> 0,
            targets |-> {First}]

\* Edits around a run, which reads again and may still be late.
Rereading == [Nothing EXCEPT !.edits = 2, !.invokes = 1]

\* An edit, a run, and decisions of people who may not know of one another.
Deciding == [Nothing EXCEPT !.edits = 1, !.invokes = 1, !.joins = 1, !.resolves = 1, !.targets = {First, Behind}]

\* Two runs on one range, and two decisions.
Competing == [Nothing EXCEPT !.invokes = 2, !.joins = 1, !.resolves = 1]

\* Failures.
Failing == [Nothing EXCEPT !.invokes = 1, !.joins = 2, !.resolves = 2, !.fails = 1, !.crashes = 1]

\* Runs over more than an hour.
Counting == [Nothing EXCEPT !.invokes = 3, !.ticks = 1, !.targets = {Behind}]

AllOfThem == {Rereading, Deciding, Competing, Failing, Counting}
=============================================================================
