------------------------ MODULE MCForecastSubmission ------------------------
(* Small instances of ForecastSubmission. *)
EXTENDS ForecastSubmission, TLC

CONSTANTS m1, m2, m3, i1, i2, a1, p1, p2, h1, h2

\* Addresses, signals and forecasts are only ever compared.
Symmetry == Permutations(Miners) \cup Permutations(Ips \ {None})
              \cup Permutations(Forecasts) \cup Permutations(Handlers)

\* One request at a time: whole tasks with miners that move between addresses;
\* registrations and commits with user agents too, which join units that share
\* no address; and whole tasks of two miners with a crash.
OneAtATime(kinds, agents, reviewed, groups, bound) ==
    {[kinds |-> kinds, agents |-> agents, reviewed |-> reviewed, miners |-> g,
      ips |-> Ips, forecasts |-> {p}, handlers |-> {h}, crashes |-> bound] :
        g \in groups, p \in Forecasts, h \in Handlers}

Pairs == {{m, n} : m \in Miners, n \in Miners}

\* Two miners behind one address and two requests at a time.
Concurrently ==
    {[kinds |-> {"register", "commit", "reveal"}, agents |-> {None},
      reviewed |-> {}, miners |-> g, ips |-> {ip},
      forecasts |-> Forecasts, handlers |-> Handlers, crashes |-> 0] :
        g \in Pairs, ip \in Ips}

MCEnvironments ==
    UNION {OneAtATime({"register", "commit", "reveal"}, {None}, {"duplicate"}, {Miners}, 0),
           OneAtATime({"register", "commit"}, {None, a1}, {}, {Miners}, 0),
           OneAtATime({"register", "commit", "reveal"}, {None}, {"cluster"}, Pairs, 1),
           Concurrently}
==============================================================================
