------------------------- MODULE MCAdministration -------------------------
EXTENDS Administration
CONSTANTS u, p1, p2, d1
\* Certificates by the file, no authentication by the options.
MCMixes ==
  {[kinds |-> {"server", "tool"},
    file |-> [mode |-> "managed", local |-> FALSE], options |-> <<>>],
   [kinds |-> {"server", "admin", "other"},
    file |-> [mode |-> "managed", local |-> FALSE],
    options |-> <<[flag |-> "--security-mode", value |-> "disabled"],
                  [flag |-> "--tcp-bind", value |-> TRUE]>>]}
MCSymmetry == Permutations(Pids)
===========================================================================
