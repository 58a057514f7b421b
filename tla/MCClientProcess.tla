--------------------------- MODULE MCClientProcess ---------------------------
(***************************************************************************)
(* ClientProcess with four connections and two permits.  NoStarvation      *)
(* quantifies over the connections, so no symmetry is declared for them.   *)
(***************************************************************************)
EXTENDS ClientProcess

User(backend, password, hash) ==
  [backend |-> backend, password |-> password, password_hash |-> hash]

MCConfigs ==
  [users : { {}, {User("b", TRUE, FALSE), User("b", FALSE, TRUE)}, {User("b", FALSE, FALSE)},
             {User("b", TRUE, TRUE), User("gone", TRUE, FALSE)} },
   backends : {{}, {"b"}}]
=============================================================================
