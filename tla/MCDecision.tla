------------------------------ MODULE MCDecision ------------------------------
(***************************************************************************)
(* A small instance of Decision: a valid request, one whose body names     *)
(* another namespace, one whose path names none, one that cannot be        *)
(* decoded and one that cannot be encoded.                                 *)
(***************************************************************************)
EXTENDS Decision

CONSTANTS ns1, ns2

Ask(ns, metaNs, content) == [ns |-> ns, metaNs |-> metaNs, content |-> content]

MCAsks == {
    Ask(ns1, NoNamespace, "valid"),
    Ask(ns1, ns2, "valid"),
    Ask(NoNamespace, ns2, "valid"),
    Ask(ns1, ns1, "invalid"),
    Ask(ns1, ns1, "unencodable")}

\* Enough for what is answered: what else a call may ask is refused on the way.
MCFewAsks == {Ask(ns1, NoNamespace, "valid"), Ask(ns1, ns2, "valid")}

MCPermissions == {{ns1, ns2, NoNamespace}, {ns2}}
=============================================================================
