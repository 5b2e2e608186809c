----------------------------- MODULE MCTaskList -----------------------------
(* Lists of one to three ruptures.  The room covers too little, nothing, one *)
(* variation, several and all of them; the logs are every subset of the      *)
(* list's ruptures, in either order of two.                                  *)
EXTENDS TaskList

Entries(n) == [id : {n}, num_vars : {0, 2, 5}, room : {-2, 1, 3, 4, 9}, rv_size : {1, 2}]

SmallLists == {<<a>> : a \in Entries(1)}
       \cup {<<a, b>> : a \in Entries(1), b \in Entries(2)}
       \cup {<<a, b, c>> : a \in [id : {1}, num_vars : {3}, room : {1, 2}, rv_size : {1}],
                           b \in Entries(2), c \in Entries(3)}

SmallLogs == {<<>>, <<1>>, <<2>>, <<2, 1>>, <<1, 3>>, <<3, 2, 1>>}
=============================================================================
