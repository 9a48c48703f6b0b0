----------------------------- MODULE MCHttpEdge -----------------------------
(* A small instance of HttpEdge for TLC. *)
EXTENDS HttpEdge

\* A customer and a business key, a customer that may only read, a key that was
\* listed twice, the second time as revoked, and a record that is no digest.
Keys ==
  << [id |-> "dave", digest |-> "d", channel |-> "customer",
      scopes |-> {"chat:write"}, enabled |-> TRUE],
     [id |-> "alice", digest |-> "a", channel |-> "customer",
      scopes |-> {"chat:write", "session:read", "admin:read"}, enabled |-> TRUE],
     [id |-> "bob", digest |-> "b", channel |-> "business",
      scopes |-> {"query:write"}, enabled |-> TRUE],
     [id |-> "carol", digest |-> "c", channel |-> "customer",
      scopes |-> {"session:read"}, enabled |-> TRUE],
     [id |-> "erin", digest |-> "malformed", channel |-> "customer",
      scopes |-> {"chat:write"}, enabled |-> TRUE],
     [id |-> "dave-revoked", digest |-> "d", channel |-> "customer",
      scopes |-> {"chat:write"}, enabled |-> FALSE] >>

\* every key on every route, and every body a customer can send
Visits ==
  [route : Routes, key : {"a", "b", "c", "d", "unknown", None}, id : {"absent"},
   declared : {"fits"}, body : {1}, content : {"sound"}, stream : {FALSE}]
Bodies ==
  [route : {"chat"}, key : {"a"}, id : {"safe", "unsafe"},
   declared : {"absent", "junk", "fits", "exceeds"}, body : {2, 4},
   content : {"sound", "garbled", "invalid", "privileged"}, stream : BOOLEAN]
\* a session id that is too long
LongIds ==
  [route : {"session"}, key : {"a", "unknown"}, id : {"absent"}, declared : {"absent"},
   body : {0}, content : {"invalid"}, stream : {FALSE}]
AllRequests == Visits \cup Bodies \cup LongIds

=============================================================================
