--------------------------- MODULE MCAuthManager ---------------------------
(***************************************************************************)
(* Two sessions and two tokens, with the configurations that main() makes  *)
(* of a few command lines and environments: no authentication, a token of  *)
(* its own, an API, both, URLs that do not work, TTLs of two seconds, one  *)
(* and less.                                                               *)
(***************************************************************************)
EXTENDS AuthManager, Configuration, SequencesExt

MCSetting == {"model_path", "port", "auth_token", "auth_api_url", "auth_cache_ttl"}
MCNumeric == {"port", "auth_cache_ttl"}
MCNumber == ("1" :> 1) @@ ("2" :> 2) @@ ("-1" :> -1) @@ ("65537" :> 65537)
MCDefault ==
  [s \in MCSetting |->
     CASE s = "model_path" -> "small" [] s = "port" -> 9001
       [] s = "auth_cache_ttl" -> 300 [] OTHER -> ""]

NoVariables == [s \in Setting |-> Unset]
Variable(s, text) == [NoVariables EXCEPT ![s] = text]
File(lines) == ".env" :> lines

\* How the server is started.
Starts ==
  {Configured(Variable("auth_cache_ttl", ttl), File(<< <<"auth_token", token>> >>), argv) :
     ttl \in {"2", "-1"}, token \in {"", "a"},
     argv \in {<<>>, <<"--thread-safe", "auth_api_url", "api">>}}
    \cup {Configured(Variable("auth_token", ""), File(<< <<"auth_token", "a">> >>), argv) :
            argv \in {<<"auth_api_url", url, "auth_cache_ttl", "1">> :
                        url \in {"", "not a URL", "api:8080"}}}

MCConfigs == {start.config : start \in Starts}

-----------------------------------------------------------------------------

Texts == {"", "x", "65537"}

\* The settings whose variables and lines vary below.
Varied == {"port", "auth_token"}

\* Every setting has the value it is said to have, and numbers that are none
\* end main().
ASSUME PrecedenceIsAsDocumented ==
  \A variables \in [Varied -> Texts \cup {Unset}],
     lines \in BoundedSeq(Varied \X Texts, 2), pairs \in BoundedSeq(Setting \X Texts, 2) :
    LET environment == variables @@ NoVariables
    IN Documented(Configured(environment, File(lines), CommandLine(pairs)),
                  environment, lines, pairs)
=============================================================================
