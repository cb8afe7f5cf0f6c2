---------------------------- MODULE MCBenchmarkRuns ----------------------------
(* Two datasets that can be run, one with an unreadable fixture, one whose *)
(* case ids repeat, one that is too large, and a symbolic link.            *)
EXTENDS BenchmarkRuns, TLC

Alumina(id, external) ==
    [id |-> id, complete |-> TRUE, relevant |-> {"a", "e"}, exclusions |-> {"b"}, tags |-> {},
     status |-> "COMPLETED", identity |-> "alumina", choices |-> {}, fixture |-> "f1",
     external |-> external]

Asked(id, fixture) ==
    [id |-> id, complete |-> TRUE, relevant |-> {}, exclusions |-> {}, tags |-> {"more_input"},
     status |-> "MORE_INPUT_NEEDED", identity |-> Nothing, choices |-> {"grade"},
     fixture |-> fixture, external |-> FALSE]

Dataset(name, bytes, cases) == [name |-> name, bytes |-> bytes, cases |-> cases]

Node(file, symlink, dataset_) == [file |-> file, symlink |-> symlink, dataset |-> dataset_]

Two == Dataset("two", 2, <<Alumina(1, TRUE), Alumina(2, FALSE)>>)

MCNodes ==
    {Node(1, FALSE, Two), Node(1, TRUE, Two),
     Node(2, FALSE, Dataset("one", 1, <<Asked(1, "f2")>>)),
     Node(3, FALSE, Dataset("unreadable", 2, <<Asked(1, "f2"), Asked(2, Nothing)>>)),
     Node(4, FALSE, Dataset("repeated", 2, <<Asked(1, "f2"), Asked(1, "f2")>>)),
     Node(5, FALSE, Dataset("large", 3, <<Asked(1, "f2")>>))}

MCAnswers ==
    {[status |-> "COMPLETED", identity |-> "alumina", top |-> <<"a">>, choices |-> {},
      fields |-> 9, latency |-> 1],
     [status |-> "MORE_INPUT_NEEDED", identity |-> Nothing, top |-> <<"b", "c", "a", "e">>,
      choices |-> {"grade"}, fields |-> 7, latency |-> 2]}

Symmetry == Permutations(Calls) \cup Permutations(Scopes)
=============================================================================
