---------------------------- MODULE AuthManager ----------------------------
(***************************************************************************)
(* src/server/AuthManager.cpp with src/auth/: the verdict on the token of  *)
(* a config message.  Sessions share one AuthManager and its AuthCache;    *)
(* no lock is held from the cache miss to the put(), so the answers of the *)
(* authentication API may come back in any order, or never.                *)
(***************************************************************************)
EXTENDS Integers

CONSTANTS
  Session,     \* the receive threads
  Token,       \* the tokens that clients send
  NoToken,     \* a config message without a "token" that is a string
  Configs,     \* what main() may make of the command line and the environment
  Unreadable,  \* the URLs that parseUrl() rejects
  WithPort,    \* the URLs with a port, which parseUrl() leaves in the host name
  MaxCalm      \* bound of the history variable calm

ASSUME AuthAssumption ==
  /\ NoToken \notin Token
  /\ \A c \in Configs : c.auth_cache_ttl \in Int
  /\ MaxCalm \in Nat /\ \A c \in Configs : c.auth_cache_ttl <= MaxCalm

VARIABLES
  config,      \* ServerConfig
  caller,      \* what each receive thread is doing, and for which token
  entries_,    \* AuthCache: the verdict, and the seconds until expires_at
  opinion,     \* what the API thinks of each token now
  vouched,     \* history: tokens that the API has answered for with a yes
  calm         \* history: seconds since the API changed its mind about a
               \* token, or an answer arrived that is not its opinion any more

vars == <<config, caller, entries_, opinion, vouched, calm>>

Opinions == {"allowed", "denied"}

Denials == {"inactive", "401", "403"}

Failures == {"no connection", "bad body", "other status"}

\* The HTTP responses that ApiAuthClient tells apart.
AllAnswers == {"active"} \cup Denials \cup Failures

\* What comes back from the API when it thinks o of the token.  The name of a
\* host with a port is resolved as it stands, which fails.
Answers(o) ==
  IF config.auth_api_url \in WithPort THEN {"no connection"}
  ELSE Failures \cup IF o = "allowed" THEN {"active"} ELSE Denials

Steps == {"idle", "lookup", "asking", "answered", "accepted", "rejected"}

Rests(step) == [step |-> step, token |-> NoToken, answer |-> "none"]

\* AuthManager(): an API or a token of its own.
auth_enabled_ == config.auth_api_url # "" \/ config.auth_token # ""

Init ==
  /\ config \in Configs
  /\ caller = [s \in Session |-> Rests("idle")]
  /\ entries_ = [t \in Token |-> [is_valid |-> "none", left |-> 0]]
  /\ opinion \in [Token -> Opinions]
  /\ vouched = {}
  /\ calm = [t \in Token |-> 0]

-----------------------------------------------------------------------------

Goes(s, step, t, answer) ==
  caller' = [caller EXCEPT ![s] = [step |-> step, token |-> t, answer |-> answer]]

Verdict(s, ok, t) == Goes(s, IF ok THEN "accepted" ELSE "rejected", t, "none")

\* handleConfig() and the first part of validate(): with a token of its own the
\* server compares, even if there is an API.
HandleConfig(s, t) ==
  /\ caller[s].step \in {"idle", "accepted"}
  /\ \/ ~auth_enabled_ /\ Verdict(s, TRUE, t)
     \/ auth_enabled_ /\ t = NoToken /\ Verdict(s, FALSE, t)
     \/ /\ auth_enabled_ /\ config.auth_token # "" /\ t # NoToken
        /\ Verdict(s, t = config.auth_token, t)
     \/ /\ auth_enabled_ /\ config.auth_token = "" /\ t # NoToken
        /\ Goes(s, "lookup", t, "none")
  /\ UNCHANGED <<config, entries_, opinion, vouched, calm>>

\* Mutated form of Expired: the entries stay for good.
ExpiredNever(t) == FALSE

\* AuthCache::get(): now >= expires_at.
Expired(t) == entries_[t].left <= 0

\* validate() finds a verdict in the cache.
Hit(s) ==
  LET t == caller[s].token IN
  /\ caller[s].step = "lookup"
  /\ entries_[t].is_valid # "none" /\ ~Expired(t)
  /\ Verdict(s, entries_[t].is_valid = "allowed", t)
  /\ UNCHANGED <<config, entries_, opinion, vouched, calm>>

\* validate() finds none, or one that has expired, which goes, and asks the API,
\* if its URL is one.
Miss(s) ==
  LET t == caller[s].token IN
  /\ caller[s].step = "lookup"
  /\ entries_[t].is_valid = "none" \/ Expired(t)
  /\ entries_' = [entries_ EXCEPT ![t] = [is_valid |-> "none", left |-> 0]]
  /\ IF config.auth_api_url \in Unreadable THEN Verdict(s, FALSE, t)
     ELSE Goes(s, "asking", t, "none")
  /\ UNCHANGED <<config, opinion, vouched, calm>>

\* The API answers, or the connection to it fails.  No timeout applies:
\* expires_after() has no effect on the synchronous operations that follow it.
Answer(s, answer) ==
  LET t == caller[s].token IN
  /\ caller[s].step = "asking"
  /\ answer \in Answers(opinion[t])
  /\ Goes(s, "answered", t, answer)
  /\ vouched' = IF answer = "active" THEN vouched \cup {t} ELSE vouched
  /\ UNCHANGED <<config, entries_, opinion, calm>>

\* Mutated form of Classify: what is not a no is a yes.
ClassifyOpen(answer) == IF answer \in Denials THEN "denied" ELSE "allowed"

\* ApiAuthClient::validate()
Classify(answer) ==
  CASE answer = "active" -> "allowed"
    [] answer \in Denials -> "denied"
    [] answer \in Failures -> "unavailable"

\* AuthCache::put(), with a TTL that may be 0 or less.
Entry(verdict) == [is_valid |-> verdict, left |-> config.auth_cache_ttl]

\* Mutated form of Remembered: a failure of the API is remembered too.
RememberedAlways(t, verdict) == [entries_ EXCEPT ![t] = Entry(verdict)]

\* The cache after an answer, which overwrites whatever it has, unless it is none.
Remembered(t, verdict) ==
  IF verdict = "unavailable" THEN entries_ ELSE [entries_ EXCEPT ![t] = Entry(verdict)]

\* The answer is not what the API thinks any more.
Outdated(answer, o) ==
  \/ answer = "active" /\ o = "denied"
  \/ answer \in Denials /\ o = "allowed"

\* The answer is there.
Receive(s) ==
  LET t == caller[s].token
      verdict == Classify(caller[s].answer)
  IN
  /\ caller[s].step = "answered"
  /\ Verdict(s, verdict = "allowed", t)
  /\ entries_' = Remembered(t, verdict)
  /\ calm' = IF Outdated(caller[s].answer, opinion[t]) THEN [calm EXCEPT ![t] = 0] ELSE calm
  /\ UNCHANGED <<config, opinion, vouched>>

\* The session is over: at once if its token was rejected, and the thread
\* serves another client.
Leave(s) ==
  /\ caller[s].step \in {"accepted", "rejected"}
  /\ caller' = [caller EXCEPT ![s] = Rests("idle")]
  /\ UNCHANGED <<config, entries_, opinion, vouched, calm>>

\* The API thinks differently of t from now on.
ChangeOfMind(t) ==
  /\ opinion' = [opinion EXCEPT ![t] = IF opinion[t] = "allowed" THEN "denied" ELSE "allowed"]
  /\ calm' = [calm EXCEPT ![t] = 0]
  /\ UNCHANGED <<config, caller, entries_, vouched>>

\* A second passes.  How long ago an entry expired does not matter.
Tick ==
  /\ entries_' = [t \in Token |-> [is_valid |-> entries_[t].is_valid,
                                   left |-> IF Expired(t) THEN entries_[t].left
                                            ELSE entries_[t].left - 1]]
  /\ calm' = [t \in Token |-> IF calm[t] < MaxCalm THEN calm[t] + 1 ELSE calm[t]]
  /\ UNCHANGED <<config, caller, opinion, vouched>>

Next ==
  \/ \E s \in Session :
       \/ \E t \in Token \cup {NoToken} : HandleConfig(s, t)
       \/ Hit(s) \/ Miss(s)
       \/ \E answer \in AllAnswers : Answer(s, answer)
       \/ Receive(s) \/ Leave(s)
  \/ \E t \in Token : ChangeOfMind(t)
  \/ Tick

Spec == Init /\ [][Next]_vars

-----------------------------------------------------------------------------

Callers == [step : Steps, token : Token \cup {NoToken}, answer : AllAnswers \cup {"none"}]

Entries == [is_valid : Opinions \cup {"none"}, left : Int]

TypeOK ==
  /\ config \in Configs
  /\ caller \in [Session -> Callers]
  /\ entries_ \in [Token -> Entries]
  /\ opinion \in [Token -> Opinions]
  /\ vouched \subseteq Token
  /\ calm \in [Token -> 0..MaxCalm]

\* Who is accepted while authentication is on has a token that the server was
\* given, or one that the API it was given has answered for with a yes: no failure
\* of the API, no missing token and no race of two queries lets anybody else in.
AcceptedIsAuthorised ==
  \A s \in Session :
    caller[s].step = "accepted" =>
      \/ ~auth_enabled_
      \/ config.auth_token # "" /\ caller[s].token = config.auth_token
      \/ config.auth_api_url # "" /\ caller[s].token \in vouched

\* A verdict is given right after the look into the cache; without an API that
\* could be asked, every verdict is.
FromCache(s) ==
  /\ config.auth_api_url \notin Unreadable
  /\ caller[s].step = "lookup" /\ caller'[s].step \in {"accepted", "rejected"}

\* README.md:111, "Auth result cache TTL in seconds": a verdict out of the cache
\* is what the API thinks, unless it changed its mind, or an answer that it had
\* given before it did arrived, less than a TTL ago.  A failure of the API is
\* not remembered as a no, and using an entry does not prolong it.
VerdictsFollowTheApi ==
  [][\A s \in Session :
       FromCache(s) =>
         LET t == caller[s].token IN
         \/ calm[t] < config.auth_cache_ttl
         \/ (caller'[s].step = "accepted") = (opinion[t] = "allowed")]_vars
=============================================================================
