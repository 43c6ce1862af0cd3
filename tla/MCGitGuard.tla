---------------------------- MODULE MCGitGuard ----------------------------
(* An instance of GitGuard: the project is a folder of its repository. *)
EXTENDS GitGuard

EnvPaths == {[dir |-> << >>, name |-> <<"", "env">>], [dir |-> <<"app">>, name |-> <<"", "env", "local">>]}
NoNested == [f \in EnvPaths |-> "none"]
Below == <<"packages">>
=============================================================================
