----------------------------- MODULE MCGateway ------------------------------
(* Two requests at a time: one client with a token and two sessions, the      *)
(* seeded client of the open namespace, one session still to be created.      *)
EXTENDS Gateway, TLC

CONSTANTS a, d, u

ThreeSessions == 1 :> a @@ 2 :> a @@ 3 :> None
OneLabelled == 1 :> 1 @@ 2 :> 0 @@ 3 :> 0

K(op, ns, c, s, x) == [op |-> op, ns |-> ns, client |-> c, session |-> s, corr |-> x]
OfClient(op, ns, c) == K(op, ns, c, 1, 0)
OfSession(op, s, x) == K(op, "credentialed", a, s, x)

RequestKinds ==
  {OfClient(op, "credentialed", a) : op \in {"register", "rotate", "create", "deleteClient", "deleteAll", "preview", "list"}}
  \cup {OfClient(op, "open", d) : op \in {"rotate", "deleteClient", "create"}}
  \cup {OfClient("register", "open", u)}
  \cup {OfSession(op, 1, 0) : op \in {"deleteSession", "ingest", "events", "search", "readSession", "feedback"}}
  \cup {OfSession("ingest", 2, 0), OfSession("feedback", 1, 1)}
=============================================================================
