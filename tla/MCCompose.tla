------------------------------ MODULE MCCompose -----------------------------
(* A small instance of ComposeStartup for TLC. *)
EXTENDS ComposeStartup

File(env, username, password) ==
    [env |-> env, username |-> username, password |-> password]

\* Nothing set, a typo, and developers with and without a password.
MCEnvFiles ==
    {File("", "admin", "secret"), File("prod", "admin", "secret"),
     File("dev", "admin", ""), File(" Dev", "admin", "secret"), File("dev", "ann", "secret")}

MCDemoFleet == <<[name |-> "suv", size |-> 2], [name |-> "van", size |-> 1]>>
=============================================================================
