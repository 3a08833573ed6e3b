----------------------------- MODULE MCCatalog -----------------------------
EXTENDS Catalog

Mix(kinds, skus, calls, last) ==
    [kinds |-> kinds, skus |-> skus, calls |-> calls, time |-> last]
MCMixes == {Mix({"create", "update", "delete", "status"}, {"x"}, 3, 0),
            Mix({"update", "import", "delete", "status"}, {"x"}, 3, 0),
            Mix({"add", "set", "drop", "delete"}, {"x", "y"}, 3, 0),
            Mix({"upload", "remove", "delete"}, {"x", "y"}, 3, 0),
            Mix({"upload", "remove", "detail", "serve"}, {"x"}, 4, 2)}
=============================================================================
