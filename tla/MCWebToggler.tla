---------------------------- MODULE MCWebToggler ----------------------------
(* Small instances of WebToggler for TLC. *)
EXTENDS WebToggler

Ask(method, path, num, text) ==
    [method |-> method, path |-> path, num |-> num, body |-> text]

\* A request of every kind, for the only output and for one that does not exist
EveryKind ==
    {Ask("GET", "/", 0, "none"), Ask("GET", "/outputs/?", 0, "none"),
     Ask("GET", "/outputs/?", 1, "none"), Ask("POST", "/outputs/?", 0, "none"),
     Ask("POST", "/outputs/?", 0, "on"), Ask("POST", "/outputs/?", 0, "other"),
     Ask("PUT", "/outputs/?", 0, "on")}

IndexOnly == {Ask("GET", "/", 0, "none")}

=============================================================================
