-------------------------- MODULE MCAdministration --------------------------
EXTENDS Administration

MCCovers == [n \in Net |-> {"inside"}]
Mix(kinds, calls, last, failures) ==
    [kinds |-> kinds, calls |-> calls, time |-> last, faults |-> failures]
MCMixes == {Mix({"guess"}, 4, 3, 0),
            Mix({"guess", "login", "unlock"}, 3, 2, 0),
            Mix({"guess", "login", "patch", "delete", "unlock", "reset"}, 2, 0, 0),
            Mix({"create", "roles", "delete"}, 2, 0, 0),
            Mix({"allow", "unlist", "roles"}, 2, 0, 0),
            Mix({"register", "retire", "mtls"}, 3, 0, 2)}
=============================================================================
