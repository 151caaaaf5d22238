--------------------------- MODULE ServerThreads ---------------------------
(* The threads of the web server that handle requests, the users, and no value. *)
CONSTANTS Handlers, Users, None
=============================================================================
