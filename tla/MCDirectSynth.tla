--------------------------- MODULE MCDirectSynth ---------------------------
(* DirectSynth with two workers, two tasks and two handlers; one task's SGTs *)
(* lie on both handlers, the other's on the first, where the workers meet.   *)
EXTENDS DirectSynth

TwoNeeds == [t \in AllTasks |-> IF t = 0 THEN {1, 2} ELSE {1}]
AllKinds == {"SGT_REQUEST", "SGT_LIST", "SGT_HEADER", "SGT_RAW",
             "DATA_FILE", "METADATA", "DATA", "WORKERS_COMPLETE",
             "NUM_RUPTURES", "VARIATION_INFO", "BCAST", "SGT_HEADER_DATA"}

Synchronous == [buffered |-> {}, sleep_suffices |-> FALSE]
Patient == [buffered |-> AllKinds, sleep_suffices |-> TRUE]
Hasty == [buffered |-> AllKinds, sleep_suffices |-> FALSE]

(* Small messages are sent at once, large ones when they are received *)
Eager == [buffered |-> {"SGT_REQUEST", "DATA_FILE", "METADATA", "WORKERS_COMPLETE",
                        "NUM_RUPTURES", "BCAST"},
          sleep_suffices |-> FALSE]

(* What the properties hold for, and what breaks one of them *)
Sound == {Synchronous, Eager, Patient}
Unsound == {Hasty}
=============================================================================
