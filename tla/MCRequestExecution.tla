------------------------- MODULE MCRequestExecution -------------------------
(* Instances of RequestExecution for TLC.                                  *)
EXTENDS RequestExecution, TLC

\* Nothing tells threads or connections apart.
Symm == Permutations(Threads) \cup Permutations(Connections)

\* A public query with a field that is missing, a mutation of an organization with a
\* selection, the same to an organization named in the text, a query for a platform_admin
\* with an argument that cannot be read behind a field, one that goes on after a type, one
\* too deep, one too wide, one that is broken.
MCDocument(text) ==
    CASE text = "open"  -> << <<"gone">>, <<"__typename">>, <<"hello">> >>
      [] text = "write" -> << <<"createUser">>, <<"createUser", "id">>, <<"hello">> >>
      [] text = "fixed" -> << <<"createUser">> >>
      [] text = "admin" -> << <<"serverMetrics">> >>
      [] text = "huge"  -> << <<"hello">>, <<"serverMetrics">> >>
      [] text = "mixed" -> << <<"hello">>, <<"type">>, <<"serverMetrics">> >>
      [] text = "deep"  -> << <<"users">>, <<"users", "a">>, <<"users", "a", "b">> >>
      [] text = "wide"  -> [i \in 1..4 |-> <<"hello">>]
      [] text = "bad"   -> Unparsable

MCTenant(u) == CASE u = "anonymous" -> "" [] u = "ada" -> "acme" [] u = "root" -> "platform"
MCRoles(u)  == CASE u = "anonymous" -> {}
                 [] u = "ada"  -> {"tenant_admin"}
                 [] u = "root" -> {"platform_admin"}

MCRequired(f) == CASE f = "createUser"    -> {"platform_admin", "tenant_admin"}
                   [] f = "serverMetrics" -> {"platform_admin"}
                   [] OTHER -> {}

Web == {"token", "origin"}

MCRequest(via, text, variables, user, headers) ==
    [via |-> via, text |-> text, variables |-> variables, user |-> user,
     headers |-> headers, long |-> FALSE]

MCRequests ==
    {MCRequest("http", "open", "junk", "anonymous", {}),
     MCRequest("http", "write", "acme", "ada", {"token", "referer"}),
     MCRequest("http", "write", "globex", "ada", Web),
     MCRequest("http", "write", "junk", "ada", Web),
     MCRequest("http", "write", "acme", "anonymous", Web),
     MCRequest("http", "write", "globex", "root", Web),
     MCRequest("http", "write", "globex", "root", {"origin"}),
     MCRequest("http", "fixed", "acme", "ada", Web),
     MCRequest("http", "admin", "junk", "root", {}),
     MCRequest("http", "huge", "junk", "anonymous", {}),
     MCRequest("http", "mixed", "junk", "root", {}),
     MCRequest("http", "deep", "junk", "root", {}),
     MCRequest("http", "wide", "junk", "root", {}),
     MCRequest("http", "bad", "junk", "anonymous", {}),
     [MCRequest("http", "open", "junk", "ada", {}) EXCEPT !.long = TRUE],
     MCRequest("socket", "write", "acme", "anonymous", {}),
     MCRequest("socket", "admin", "junk", "anonymous", {})}

MCGuarded(text) == text \in {"write", "fixed"}
MCWritten(text, f) ==
    CASE text = "write" /\ f = "createUser" -> FromVariable
      [] text = "fixed" /\ f = "createUser" -> "globex"
      [] OTHER -> NoVariables
MCUnreadable(text, f) == text = "huge" /\ f = "serverMetrics"
=============================================================================
