-------------------------- MODULE MCSearchCluster --------------------------
\* One replica and many documents, or three replicas and few.
EXTENDS SearchCluster, TLC

a == "a"
b == "b"
c == "c"
d == "d"

\* Frequencies and lengths that no single bound covers.
Short  == [freq |-> (a :> 1), length |-> 1]
Medium == [freq |-> (a :> 2 @@ b :> 1), length |-> 3]
Long   == [freq |-> (a :> 4 @@ c :> 1), length |-> 6]
Other  == [freq |-> (b :> 2 @@ c :> 2 @@ d :> 1), length |-> 5]

Document(id, content) == [id |-> id, freq |-> content.freq, length |-> content.length]
Documents(ids, contents) == {Document(id, content) : id \in ids, content \in contents}

Nothing == [replicas |-> 1, documents |-> {}, hanging |-> {}, writes |-> 0, waiting |-> 1, faults |-> 0,
            crashes |-> 0, searches |-> 0]

\* Any documents, then many replacements, one after the other.
Indexing  == [Nothing EXCEPT !.documents = Documents(1..3, {Short, Medium, Long, Other}), !.writes = 3]
Replacing == [Nothing EXCEPT !.documents = Documents(1..3, {Long, Other}), !.writes = 5]

\* Versions of one document that overlap, failures and restarts.
Restarting == [Nothing EXCEPT !.documents = Documents({1}, {Short, Medium}), !.writes = 3, !.waiting = 2,
                              !.faults = 1, !.crashes = 1]

\* Writes to three replicas.
Replicating == [Nothing EXCEPT !.replicas = 3, !.documents = Documents({1}, {Short}), !.writes = 1,
                               !.faults = 1, !.crashes = 1]

\* Searches of three replicas, some of which fail or hang.
Asking  == {[Nothing EXCEPT !.replicas = 3, !.searches = 1, !.faults = 2, !.crashes = 1, !.hanging = h] :
              h \in {{}, {1}, {1, 2}}}

AllOfThem == {Indexing, Replacing, Restarting, Replicating} \cup Asking

SomeQueries == {{a}, {a, b}, {a, b, c}, {a, b, c, d}}
OneOrTwo == {1, 2}
=============================================================================
