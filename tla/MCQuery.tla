------------------------------- MODULE MCQuery -------------------------------
(***************************************************************************)
(* A small instance of Query: names in the path or in the body, two        *)
(* namespaces, a body that is not valid, a namespace that may be denied.   *)
(***************************************************************************)
EXTENDS Query

CONSTANTS ns1, ns2, n1, n2

Create(ns, path, meta, valid) ==
    [ns |-> ns, pathName |-> path, metaName |-> meta, valid |-> valid]

MCRequests == {
    Create(ns1, NoName, n1, TRUE),
    Create(ns2, n1, NoName, TRUE),
    Create(ns1, n1, n1, TRUE),
    Create(ns1, n1, n1, FALSE)}

\* Without the second valid one of a path's name: two calls may send the same request.
MCFewRequests == MCRequests \ {Create(ns1, n1, n1, TRUE)}

MCPermissions == {{ns1, ns2}, {ns1}}
=============================================================================
