--------------------------- MODULE Configuration ---------------------------
(***************************************************************************)
(* src/server.cpp, before anything is served: loadDotEnv(), configFromEnv()*)
(* and parseArgs().  A setting is a field of ServerConfig that an          *)
(* environment variable and an option set; the three go by one name here.  *)
(*                                                                         *)
(* A command line is a sequence of tokens: options, which are settings or  *)
(* members of OtherOptions, and texts.  A .env file is the sequence of the *)
(* <<setting, text>> pairs of its lines, without comments and blank lines. *)
(***************************************************************************)
EXTENDS Integers, Sequences

CONSTANTS
  Setting,     \* "model_path" and "auth_token", for two
  Numeric,     \* the settings that std::stoi and the like read
  Number,      \* function: what they make of a text; they throw at the others
  Default,     \* function: the values of ServerConfig.h
  BaseModel    \* the model path for which a text alone is the model

OtherOptions == {"--help", "--env-file", "--thread-safe", "--unknown"}

ASSUME ConfigurationAssumption ==
  /\ "model_path" \in Setting \ Numeric /\ Numeric \subseteq Setting
  /\ Setting \cap OtherOptions = {} /\ "" \notin Setting
  /\ Default = [s \in Setting |-> Default[s]]

Unset == "(unset)"     \* no such variable, which is not the same as an empty one

IsText(token) == token \notin Setting \cup OtherOptions

\* std::stoul() and static_cast<unsigned short>(): a port has 16 bits.
Converted(s, text) ==
  IF s \notin Numeric THEN text
  ELSE IF s = "port" THEN Number[text] % 2^16
  ELSE Number[text]

Converts(s, text) == s \in Numeric => text \in DOMAIN Number

\* loadDotEnv(), one line: a variable that is there already, be it empty, stays.
LoadLine(environment, line) ==
  IF environment[line[1]] = Unset THEN [environment EXCEPT ![line[1]] = line[2]]
  ELSE environment

\* The environment after each of the lines.
Loaded(environment, lines) ==
  LET loaded[i \in 0..Len(lines)] ==
        IF i = 0 THEN environment ELSE LoadLine(loaded[i - 1], lines[i])
  IN loaded

loadDotEnv(environment, lines) == Loaded(environment, lines)[Len(lines)]

\* extractEnvFile(): the token after the first "--env-file", whatever comes before.
extractEnvFile(argv) ==
  LET named == {i \in 1..Len(argv) - 1 : argv[i] = "--env-file"}
  IN IF named = {} THEN ".env" ELSE argv[1 + CHOOSE i \in named : \A j \in named : i <= j]

\* configFromEnv(): an empty variable is no value.
configFromEnv(environment) ==
  LET given == {s \in Setting : environment[s] \notin {Unset, ""}}
  IN IF \E s \in given : ~Converts(s, environment[s])
     THEN [status |-> "error", option |-> "", config |-> Default]
     ELSE [status |-> "ok", option |-> "",
           config |-> [s \in Setting |->
                         IF s \in given THEN Converted(s, environment[s]) ELSE Default[s]]]

Takes(parsed, s, text) ==
  IF ~Converts(s, text) THEN [parsed EXCEPT !.status = "error"]
  ELSE [parsed EXCEPT !.option = "", !.config[s] = Converted(s, text)]

\* The loop of parseArgs(), once round: parsed.option is the option that the
\* token is the value of, whatever the token looks like.
ParseToken(parsed, token) ==
  CASE parsed.status # "ok" -> parsed
    [] parsed.status = "ok" /\ parsed.option = "--env-file" -> [parsed EXCEPT !.option = ""]
    [] parsed.status = "ok" /\ parsed.option \in Setting -> Takes(parsed, parsed.option, token)
    [] parsed.status = "ok" /\ parsed.option = "" ->
         CASE token = "--help" -> [parsed EXCEPT !.status = "help"]
           [] token \in Setting \cup {"--env-file"} -> [parsed EXCEPT !.option = token]
           [] token = "--thread-safe" -> parsed
           [] IsText(token) /\ parsed.config["model_path"] = BaseModel ->
                Takes(parsed, "model_path", token)
           [] OTHER -> [parsed EXCEPT !.status = "error"]

\* What is known after each of the tokens.
Parsed(environment, argv) ==
  LET parsed[i \in 0..Len(argv)] ==
        IF i = 0 THEN configFromEnv(environment) ELSE ParseToken(parsed[i - 1], argv[i])
  IN parsed

\* An option that ends the command line has no value.
parseArgs(environment, argv) ==
  LET parsed == Parsed(environment, argv)[Len(argv)]
  IN IF parsed.status = "ok" /\ parsed.option # "" THEN [parsed EXCEPT !.status = "error"]
     ELSE parsed

\* What main() serves with, or how it ends instead.
Configured(environment, files, argv) ==
  LET file == extractEnvFile(argv)
      lines == IF file \in DOMAIN files THEN files[file] ELSE <<>>
  IN parseArgs(loadDotEnv(environment, lines), argv)

-----------------------------------------------------------------------------

\* A command line of options with values.
CommandLine(pairs) ==
  [i \in 1..2 * Len(pairs) |-> pairs[(i + 1) \div 2][IF i % 2 = 1 THEN 1 ELSE 2]]

\* The places of a list of pairs that are about a setting.
Of(s, list) == {i \in 1..Len(list) : list[i][1] = s}

\* What the environment says of a setting, or else the file: its first line of
\* that name.  A variable that is there but empty hides the line.
Ambient(s, environment, lines) ==
  CASE environment[s] # Unset -> environment[s]
    [] environment[s] = Unset /\ Of(s, lines) # {} ->
         lines[CHOOSE i \in Of(s, lines) : \A j \in Of(s, lines) : i <= j][2]
    [] OTHER -> ""

\* server.cpp:168-176: an argument, the last one, overrides a variable, and a
\* variable the file.
Resolved(s, environment, lines, pairs) ==
  LET ambient == Ambient(s, environment, lines)
      arguments == Of(s, pairs)
  IN CASE arguments # {} ->
            Converted(s, pairs[CHOOSE i \in arguments : \A j \in arguments : j <= i][2])
       [] arguments = {} /\ ambient # "" -> Converted(s, ambient)
       [] OTHER -> Default[s]

\* A number that is none ends main(), whether it is overridden or not.
AllConvert(environment, lines, pairs) ==
  /\ \A s \in Setting :
       LET ambient == Ambient(s, environment, lines) IN ambient = "" \/ Converts(s, ambient)
  /\ \A i \in DOMAIN pairs : Converts(pairs[i][1], pairs[i][2])

\* What server.cpp:168-176 says of the configuration that the server starts
\* with, if it starts.
Documented(start, environment, lines, pairs) ==
  /\ start.status = IF AllConvert(environment, lines, pairs) THEN "ok" ELSE "error"
  /\ start.status = "ok" =>
       \A s \in Setting : start.config[s] = Resolved(s, environment, lines, pairs)
=============================================================================
