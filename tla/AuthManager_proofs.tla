------------------------- MODULE AuthManager_proofs -------------------------
(***************************************************************************)
(* Nobody is accepted without a reason, and no verdict of the cache is     *)
(* older than its TTL, for any number of sessions and tokens, any TTL and  *)
(* any order in which the answers of the API come back.                    *)
(*                                                                         *)
(* Below that, the configuration that main() makes for it: for every       *)
(* environment, .env file and list of options with values it is the one    *)
(* that is documented, by induction over the lines and over the options.   *)
(***************************************************************************)
EXTENDS AuthManager, Configuration, DataInduction, SequenceTheorems

\* A session that waits for a verdict has sent a token, which the server does
\* not compare itself; a yes that is on its way is one that the API has given.
CallerOK(s) ==
  /\ caller[s].step \in {"lookup", "asking", "answered"} =>
       config.auth_token = "" /\ caller[s].token \in Token
  /\ caller[s].step = "answered" => caller[s].answer \in AllAnswers
  /\ caller[s].step = "answered" /\ caller[s].answer = "active" => caller[s].token \in vouched
  /\ caller[s].step = "accepted" =>
       \/ ~auth_enabled_
       \/ config.auth_token # "" /\ caller[s].token = config.auth_token
       \/ config.auth_token = "" /\ caller[s].token \in vouched

\* An entry outlives what contradicts it by no more than the TTL.
EntryOK(t) ==
  /\ entries_[t].is_valid = "allowed" => t \in vouched
  /\ entries_[t].left > 0 => entries_[t].left <= config.auth_cache_ttl
  /\ entries_[t].left > 0 /\ entries_[t].is_valid # "none" /\ entries_[t].is_valid # opinion[t]
       => entries_[t].left + calm[t] <= config.auth_cache_ttl

IInv ==
  /\ TypeOK
  /\ \A s \in Session : CallerOK(s)
  /\ \A t \in Token : EntryOK(t)

-----------------------------------------------------------------------------

\* What a value of each variable consists of.
LEMMA Values ==
  ASSUME TypeOK
  PROVE  /\ config.auth_cache_ttl \in Int
         /\ \A s \in Session : caller[s] \in Callers
         /\ \A t \in Token : /\ entries_[t] \in Entries /\ entries_[t].left \in Int
                             /\ opinion[t] \in Opinions /\ calm[t] \in 0..MaxCalm
                             /\ calm[t] \in Nat
BY AuthAssumption DEF AuthAssumption, TypeOK, Entries

\* The step of one session, and the others where they were.
LEMMA OneGoes ==
  ASSUME caller \in [Session -> Callers], NEW s \in Session, NEW step \in Steps,
         NEW t \in Token \cup {NoToken}, NEW answer \in AllAnswers \cup {"none"},
         Goes(s, step, t, answer)
  PROVE  /\ caller' \in [Session -> Callers]
         /\ caller'[s].step = step /\ caller'[s].token = t /\ caller'[s].answer = answer
         /\ \A u \in Session \ {s} : caller'[u] = caller[u]
<1> DEFINE value == [step |-> step, token |-> t, answer |-> answer]
<1>1. value \in Callers
  BY DEF Callers
<1>2. caller' = [caller EXCEPT ![s] = value]
  BY DEF Goes
<1>3. value.step = step /\ value.token = t /\ value.answer = answer
  OBVIOUS
<1> HIDE DEF value
<1> QED
  BY <1>1, <1>2, <1>3

\* A session that a step leaves alone, while nothing that it was accepted for
\* is taken back.
LEMMA CallerKept ==
  ASSUME NEW u \in Session, CallerOK(u), caller'[u] = caller[u], config' = config,
         vouched \subseteq vouched'
  PROVE  CallerOK(u)'
BY DEF CallerOK, auth_enabled_

\* The entries, when neither they nor what they stand for changes.
LEMMA EntriesKept ==
  ASSUME \A t \in Token : EntryOK(t), UNCHANGED <<config, entries_, opinion, calm>>,
         vouched \subseteq vouched'
  PROVE  \A t \in Token : EntryOK(t)'
BY DEF EntryOK

-----------------------------------------------------------------------------

LEMMA HandleConfigKeeps ==
  ASSUME IInv, NEW s \in Session, NEW t \in Token \cup {NoToken}, HandleConfig(s, t)
  PROVE  IInv'
<1>1. /\ TypeOK /\ caller \in [Session -> Callers]
      /\ \A u \in Session : CallerOK(u)
      /\ UNCHANGED <<config, entries_, opinion, vouched, calm>>
  BY DEF IInv, TypeOK, HandleConfig
<1>2. PICK step \in {"accepted", "rejected", "lookup"} :
        /\ Goes(s, step, t, "none")
        /\ step = "lookup" => config.auth_token = "" /\ t \in Token
        /\ step = "accepted" =>
             ~auth_enabled_ \/ (config.auth_token # "" /\ t = config.auth_token)
  <2>1. CASE ~auth_enabled_ /\ Verdict(s, TRUE, t)
    BY <2>1 DEF Verdict
  <2>2. CASE Verdict(s, FALSE, t)
    BY <2>2 DEF Verdict
  <2>3. CASE config.auth_token # "" /\ Verdict(s, t = config.auth_token, t)
    BY <2>3 DEF Verdict
  <2>4. CASE config.auth_token = "" /\ t # NoToken /\ Goes(s, "lookup", t, "none")
    BY <2>4
  <2> QED
    BY <2>1, <2>2, <2>3, <2>4 DEF HandleConfig
<1>3. /\ caller' \in [Session -> Callers]
      /\ caller'[s].step = step /\ caller'[s].token = t
      /\ \A u \in Session \ {s} : caller'[u] = caller[u]
  <2>1. step \in Steps /\ "none" \in AllAnswers \cup {"none"}
    BY DEF Steps
  <2>2. Goes(s, step, t, "none")
    BY <1>2
  <2> QED
    BY <1>1, <2>1, <2>2, OneGoes
<1>4. TypeOK'
  BY <1>1, <1>3 DEF TypeOK
<1>5. CallerOK(s)'
  BY <1>1, <1>2, <1>3 DEF CallerOK, auth_enabled_
<1>6. \A u \in Session : CallerOK(u)'
  BY <1>1, <1>3, <1>5, CallerKept
<1>7. \A u \in Token : EntryOK(u)'
  BY <1>1, EntriesKept DEF IInv
<1> QED
  BY <1>4, <1>6, <1>7 DEF IInv

LEMMA HitKeeps ==
  ASSUME IInv, NEW s \in Session, Hit(s)
  PROVE  IInv'
<1> DEFINE t == caller[s].token
<1>1. /\ TypeOK /\ caller \in [Session -> Callers]
      /\ (\A u \in Session : CallerOK(u)) /\ (\A u \in Token : EntryOK(u))
      /\ UNCHANGED <<config, entries_, opinion, vouched, calm>>
  BY DEF IInv, TypeOK, Hit
<1>2. t \in Token /\ config.auth_token = ""
  BY <1>1 DEF CallerOK, Hit
<1>3. PICK step \in {"accepted", "rejected"} :
        Goes(s, step, t, "none") /\ (step = "accepted" => entries_[t].is_valid = "allowed")
  BY DEF Hit, Verdict
<1>4. /\ caller' \in [Session -> Callers]
      /\ caller'[s].step = step /\ caller'[s].token = t
      /\ \A u \in Session \ {s} : caller'[u] = caller[u]
  <2>1. step \in Steps /\ "none" \in AllAnswers \cup {"none"} /\ t \in Token \cup {NoToken}
    BY <1>2 DEF Steps
  <2>2. Goes(s, step, t, "none")
    BY <1>3
  <2> HIDE DEF t
  <2> QED
    BY <1>1, <2>1, <2>2, OneGoes
<1>5. TypeOK'
  BY <1>1, <1>4 DEF TypeOK
<1>6. CallerOK(s)'
  BY <1>1, <1>2, <1>3, <1>4 DEF CallerOK, EntryOK
<1>7. \A u \in Session : CallerOK(u)'
  BY <1>1, <1>4, <1>6, CallerKept
<1>8. \A u \in Token : EntryOK(u)'
  BY <1>1, EntriesKept
<1> QED
  BY <1>5, <1>7, <1>8 DEF IInv

LEMMA MissKeeps ==
  ASSUME IInv, NEW s \in Session, Miss(s)
  PROVE  IInv'
<1> DEFINE t == caller[s].token
<1>1. /\ TypeOK /\ caller \in [Session -> Callers] /\ entries_ \in [Token -> Entries]
      /\ (\A u \in Session : CallerOK(u)) /\ (\A u \in Token : EntryOK(u))
      /\ UNCHANGED <<config, opinion, vouched, calm>>
  BY DEF IInv, TypeOK, Miss
<1>2. t \in Token /\ config.auth_token = ""
  BY <1>1 DEF CallerOK, Miss
<1>3. PICK step \in {"rejected", "asking"} : Goes(s, step, t, "none")
  BY DEF Miss, Verdict
<1>4. /\ caller' \in [Session -> Callers]
      /\ caller'[s].step = step /\ caller'[s].token = t
      /\ \A u \in Session \ {s} : caller'[u] = caller[u]
  <2>1. step \in Steps /\ "none" \in AllAnswers \cup {"none"} /\ t \in Token \cup {NoToken}
    BY <1>2 DEF Steps
  <2>2. Goes(s, step, t, "none")
    BY <1>3
  <2> HIDE DEF t
  <2> QED
    BY <1>1, <2>1, <2>2, OneGoes
<1>5. /\ entries_' \in [Token -> Entries]
      /\ entries_'[t].is_valid = "none" /\ entries_'[t].left = 0
      /\ \A u \in Token \ {t} : entries_'[u] = entries_[u]
  <2> DEFINE gone == [is_valid |-> "none", left |-> 0]
  <2>1. gone \in Entries /\ gone.is_valid = "none" /\ gone.left = 0
    BY DEF Entries
  <2>2. entries_' = [entries_ EXCEPT ![t] = gone]
    BY DEF Miss
  <2> HIDE DEF gone
  <2> QED
    BY <1>1, <1>2, <2>1, <2>2
<1>6. TypeOK'
  BY <1>1, <1>4, <1>5 DEF TypeOK
<1>7. CallerOK(s)'
  BY <1>1, <1>2, <1>4 DEF CallerOK
<1>8. \A u \in Session : CallerOK(u)'
  BY <1>1, <1>4, <1>7, CallerKept
<1>9. ASSUME NEW u \in Token PROVE EntryOK(u)'
  BY <1>1, <1>5 DEF EntryOK
<1> QED
  BY <1>6, <1>8, <1>9 DEF IInv

LEMMA AnswerKeeps ==
  ASSUME IInv, NEW s \in Session, NEW answer \in AllAnswers, Answer(s, answer)
  PROVE  IInv'
<1> DEFINE t == caller[s].token
<1>1. /\ TypeOK /\ caller \in [Session -> Callers]
      /\ (\A u \in Session : CallerOK(u)) /\ (\A u \in Token : EntryOK(u))
      /\ UNCHANGED <<config, entries_, opinion, calm>>
  BY DEF IInv, TypeOK, Answer
<1>2. t \in Token /\ config.auth_token = ""
  BY <1>1 DEF CallerOK, Answer
<1>3. /\ vouched \subseteq vouched' /\ vouched' \subseteq Token
      /\ answer = "active" => t \in vouched'
  BY <1>1, <1>2 DEF Answer, TypeOK
<1>4. /\ caller' \in [Session -> Callers]
      /\ caller'[s].step = "answered" /\ caller'[s].token = t /\ caller'[s].answer = answer
      /\ \A u \in Session \ {s} : caller'[u] = caller[u]
  BY <1>1, <1>2, OneGoes DEF Steps, Answer
<1>5. TypeOK'
  BY <1>1, <1>3, <1>4 DEF TypeOK
<1>6. CallerOK(s)'
  BY <1>1, <1>2, <1>3, <1>4 DEF CallerOK
<1>7. \A u \in Session : CallerOK(u)'
  BY <1>1, <1>3, <1>4, <1>6, CallerKept
<1>8. \A u \in Token : EntryOK(u)'
  BY <1>1, <1>3, EntriesKept
<1> QED
  BY <1>5, <1>7, <1>8 DEF IInv

\* What ApiAuthClient makes of an answer.
LEMMA Classified ==
  ASSUME NEW answer \in AllAnswers
  PROVE  /\ Classify(answer) \in {"allowed", "denied", "unavailable"}
         /\ Classify(answer) = "allowed" <=> answer = "active"
         /\ Classify(answer) = "denied" <=> answer \in Denials
BY DEF AllAnswers, Classify, Denials, Failures

\* What put() stores outlives what contradicts it by no more than the TTL: if
\* the answer is out of date already, that is known from now on.
LEMMA StoredOK ==
  ASSUME TypeOK, NEW t \in Token, NEW answer \in AllAnswers, Classify(answer) # "unavailable",
         answer = "active" => t \in vouched, UNCHANGED <<config, opinion, vouched>>,
         entries_'[t] = Entry(Classify(answer)),
         Outdated(answer, opinion[t]) => calm'[t] = 0
  PROVE  EntryOK(t)'
<1>1. config.auth_cache_ttl \in Int /\ opinion[t] \in Opinions
  BY Values
<1>2. Classify(answer) \in Opinions
  BY Classified DEF Opinions
<1>3. /\ entries_'[t].is_valid = Classify(answer)
      /\ entries_'[t].left = config.auth_cache_ttl
  BY DEF Entry
<1>4. Classify(answer) # opinion[t] => calm'[t] = 0
  BY <1>1, <1>2, Classified DEF Opinions, Outdated
<1>5. (entries_'[t].is_valid = "allowed") => t \in vouched'
  BY <1>3, Classified
<1> QED
  BY <1>1, <1>3, <1>4, <1>5 DEF EntryOK

LEMMA ReceiveKeeps ==
  ASSUME IInv, NEW s \in Session, Receive(s)
  PROVE  IInv'
<1> DEFINE t == caller[s].token
           answer == caller[s].answer
<1>1. /\ TypeOK /\ caller \in [Session -> Callers] /\ entries_ \in [Token -> Entries]
      /\ calm \in [Token -> 0..MaxCalm]
      /\ (\A u \in Session : CallerOK(u)) /\ (\A u \in Token : EntryOK(u))
      /\ UNCHANGED <<config, opinion, vouched>>
  BY DEF IInv, TypeOK, Receive
<1>2. /\ t \in Token /\ config.auth_token = "" /\ answer \in AllAnswers
      /\ answer = "active" => t \in vouched
  BY <1>1 DEF CallerOK, Receive
<1>3. PICK step \in {"accepted", "rejected"} :
        Goes(s, step, t, "none") /\ (step = "accepted" => Classify(answer) = "allowed")
  BY DEF Receive, Verdict
<1>4. /\ caller' \in [Session -> Callers]
      /\ caller'[s].step = step /\ caller'[s].token = t
      /\ \A u \in Session \ {s} : caller'[u] = caller[u]
  <2>1. step \in Steps /\ "none" \in AllAnswers \cup {"none"} /\ t \in Token \cup {NoToken}
    BY <1>2 DEF Steps
  <2>2. Goes(s, step, t, "none")
    BY <1>3
  <2> HIDE DEF t
  <2> QED
    BY <1>1, <2>1, <2>2, OneGoes
<1>5. /\ calm' \in [Token -> 0..MaxCalm]
      /\ Outdated(answer, opinion[t]) => calm'[t] = 0
      /\ \A u \in Token : calm'[u] <= calm[u]
  <2>1. MaxCalm \in Nat /\ \A u \in Token : calm[u] \in Nat
    BY <1>1, Values, AuthAssumption DEF AuthAssumption
  <2>2. CASE Outdated(answer, opinion[t])
    <3>1. calm' = [calm EXCEPT ![t] = 0]
      BY <2>2 DEF Receive
    <3>2. calm' \in [Token -> 0..MaxCalm] /\ calm'[t] = 0
      <4>1. 0 \in 0..MaxCalm
        BY <2>1
      <4> HIDE DEF t
      <4> QED
        BY <1>1, <1>2, <3>1, <4>1
    <3>3. ASSUME NEW u \in Token PROVE calm'[u] <= calm[u]
      <4>1. calm'[u] = 0 \/ calm'[u] = calm[u]
        BY <1>1, <3>1
      <4> QED
        BY <2>1, <4>1
    <3> QED
      BY <3>2, <3>3
  <2>3. CASE ~Outdated(answer, opinion[t])
    <3>1. calm' = calm
      BY <2>3 DEF Receive
    <3> QED
      BY <1>1, <2>1, <2>3, <3>1
  <2> QED
    BY <2>2, <2>3
<1>6. Entry(Classify(answer)) \in Entries \/ Classify(answer) = "unavailable"
  <2>1. config.auth_cache_ttl \in Int
    BY <1>1, Values
  <2>2. Classify(answer) \in Opinions \/ Classify(answer) = "unavailable"
    BY <1>2, Classified DEF Opinions
  <2> QED
    BY <2>1, <2>2 DEF Entry, Entries
<1>7. /\ entries_' \in [Token -> Entries]
      /\ \A u \in Token \ {t} : entries_'[u] = entries_[u]
      /\ Classify(answer) = "unavailable" => entries_' = entries_
      /\ Classify(answer) # "unavailable" => entries_'[t] = Entry(Classify(answer))
  <2>1. CASE Classify(answer) = "unavailable"
    BY <1>1, <2>1 DEF Receive, Remembered
  <2>2. CASE Classify(answer) # "unavailable"
    <3>1. entries_' = [entries_ EXCEPT ![t] = Entry(Classify(answer))]
      BY <2>2 DEF Receive, Remembered
    <3> QED
      BY <1>1, <1>2, <1>6, <2>2, <3>1
  <2> QED
    BY <2>1, <2>2
<1>8. TypeOK'
  BY <1>1, <1>4, <1>5, <1>7 DEF TypeOK
<1>9. CallerOK(s)'
  <2>1. step = "accepted" => t \in vouched'
    BY <1>1, <1>2, <1>3, Classified
  <2> QED
    BY <1>1, <1>2, <1>4, <2>1 DEF CallerOK
<1>10. \A u \in Session : CallerOK(u)'
  BY <1>1, <1>4, <1>9, CallerKept
<1>11. ASSUME NEW u \in Token PROVE EntryOK(u)'
  <2>1. CASE u = t /\ Classify(answer) # "unavailable"
    BY <1>1, <1>2, <1>5, <1>7, <2>1, StoredOK
  <2>2. CASE u # t \/ Classify(answer) = "unavailable"
    <3>1. entries_'[u] = entries_[u] /\ calm'[u] <= calm[u]
      BY <1>5, <1>7, <2>2
    <3>2. /\ entries_[u].left \in Int /\ calm[u] \in Nat /\ calm'[u] \in Nat
          /\ config.auth_cache_ttl \in Int
      BY <1>1, <1>5, Values, AuthAssumption DEF AuthAssumption
    <3> QED
      BY <1>1, <3>1, <3>2 DEF EntryOK
  <2> QED
    BY <2>1, <2>2
<1> QED
  BY <1>8, <1>10, <1>11 DEF IInv

LEMMA LeaveKeeps ==
  ASSUME IInv, NEW s \in Session, Leave(s)
  PROVE  IInv'
<1>1. /\ TypeOK /\ caller \in [Session -> Callers]
      /\ (\A u \in Session : CallerOK(u)) /\ (\A u \in Token : EntryOK(u))
      /\ UNCHANGED <<config, entries_, opinion, vouched, calm>>
  BY DEF IInv, TypeOK, Leave
<1>2. /\ caller' \in [Session -> Callers]
      /\ caller'[s].step = "idle"
      /\ \A u \in Session \ {s} : caller'[u] = caller[u]
  <2>1. Goes(s, "idle", NoToken, "none")
    BY DEF Leave, Goes, Rests
  <2> QED
    BY <1>1, <2>1, OneGoes DEF Steps
<1>3. TypeOK'
  BY <1>1, <1>2 DEF TypeOK
<1>4. CallerOK(s)'
  BY <1>2 DEF CallerOK
<1>5. \A u \in Session : CallerOK(u)'
  BY <1>1, <1>2, <1>4, CallerKept
<1>6. \A u \in Token : EntryOK(u)'
  BY <1>1, EntriesKept
<1> QED
  BY <1>3, <1>5, <1>6 DEF IInv

LEMMA ChangeOfMindKeeps ==
  ASSUME IInv, NEW t \in Token, ChangeOfMind(t)
  PROVE  IInv'
<1>1. /\ TypeOK /\ opinion \in [Token -> Opinions] /\ calm \in [Token -> 0..MaxCalm]
      /\ (\A u \in Session : CallerOK(u)) /\ (\A u \in Token : EntryOK(u))
      /\ UNCHANGED <<config, caller, entries_, vouched>>
  BY DEF IInv, TypeOK, ChangeOfMind
<1>2. /\ calm' \in [Token -> 0..MaxCalm] /\ calm'[t] = 0
      /\ \A u \in Token \ {t} : calm'[u] = calm[u]
  BY <1>1, AuthAssumption DEF AuthAssumption, ChangeOfMind
<1>3. /\ opinion' \in [Token -> Opinions]
      /\ \A u \in Token \ {t} : opinion'[u] = opinion[u]
  BY <1>1 DEF ChangeOfMind, Opinions
<1>4. TypeOK'
  BY <1>1, <1>2, <1>3 DEF TypeOK
<1>5. \A u \in Session : CallerOK(u)'
  BY <1>1, CallerKept
<1>6. ASSUME NEW u \in Token PROVE EntryOK(u)'
  <2>1. entries_[u].left \in Int /\ config.auth_cache_ttl \in Int
    BY <1>1, Values
  <2>2. CASE u = t
    BY <1>1, <1>2, <2>1, <2>2 DEF EntryOK
  <2>3. CASE u # t
    BY <1>1, <1>2, <1>3, <2>3 DEF EntryOK
  <2> QED
    BY <2>2, <2>3
<1> QED
  BY <1>4, <1>5, <1>6 DEF IInv

LEMMA TickKeeps ==
  ASSUME IInv, Tick
  PROVE  IInv'
<1>1. /\ TypeOK /\ (\A u \in Session : CallerOK(u)) /\ (\A u \in Token : EntryOK(u))
      /\ UNCHANGED <<config, caller, opinion, vouched>>
  BY DEF IInv, Tick
<1>2. ASSUME NEW u \in Token
      PROVE  /\ entries_'[u] \in Entries /\ entries_'[u].is_valid = entries_[u].is_valid
             /\ entries_'[u].left =
                  IF entries_[u].left > 0 THEN entries_[u].left - 1 ELSE entries_[u].left
             /\ calm'[u] \in 0..MaxCalm /\ calm'[u] <= calm[u] + 1
  <2>1. /\ entries_[u] \in Entries /\ entries_[u].left \in Int
        /\ calm[u] \in 0..MaxCalm /\ calm[u] \in Nat /\ MaxCalm \in Nat
    BY <1>1, Values, AuthAssumption DEF AuthAssumption
  <2>2. /\ entries_'[u] \in Entries /\ entries_'[u].is_valid = entries_[u].is_valid
        /\ entries_'[u].left =
             IF entries_[u].left > 0 THEN entries_[u].left - 1 ELSE entries_[u].left
    BY <2>1 DEF Tick, Entries, Expired
  <2>3. calm'[u] = IF calm[u] < MaxCalm THEN calm[u] + 1 ELSE calm[u]
    BY DEF Tick
  <2> QED
    BY <2>1, <2>2, <2>3
<1>3. /\ entries_' \in [Token -> Entries] /\ calm' \in [Token -> 0..MaxCalm]
  <2>1. DOMAIN entries_' = Token /\ DOMAIN calm' = Token
    BY DEF Tick
  <2>2. /\ entries_' = [u \in Token |-> entries_'[u]]
        /\ calm' = [u \in Token |-> calm'[u]]
    BY DEF Tick
  <2> QED
    BY <1>2, <2>1, <2>2
<1>4. TypeOK'
  BY <1>1, <1>3 DEF TypeOK
<1>5. \A u \in Session : CallerOK(u)'
  BY <1>1, CallerKept
<1>6. ASSUME NEW u \in Token PROVE EntryOK(u)'
  <2>1. /\ entries_[u].left \in Int /\ calm[u] \in Nat /\ calm'[u] \in 0..MaxCalm
        /\ config.auth_cache_ttl \in Int /\ MaxCalm \in Nat
    BY <1>1, <1>2, Values, AuthAssumption DEF AuthAssumption
  <2> QED
    BY <1>1, <1>2, <2>1 DEF EntryOK
<1> QED
  BY <1>4, <1>5, <1>6 DEF IInv

-----------------------------------------------------------------------------

LEMMA InitIInv == Init => IInv
<1> SUFFICES ASSUME Init PROVE IInv
  OBVIOUS
<1>1. TypeOK
  BY AuthAssumption DEF AuthAssumption, Init, TypeOK, Rests, Callers, Steps, Entries
<1>2. \A s \in Session : CallerOK(s)
  BY DEF Init, CallerOK, Rests
<1>3. \A t \in Token : EntryOK(t)
  BY DEF Init, EntryOK
<1> QED
  BY <1>1, <1>2, <1>3 DEF IInv

LEMMA NextIInv == IInv /\ [Next]_vars => IInv'
<1>1. ASSUME IInv, UNCHANGED vars PROVE IInv'
  <2>1. TypeOK'
    BY <1>1 DEF IInv, vars, TypeOK
  <2>2. \A u \in Session : CallerOK(u)'
    BY <1>1, CallerKept DEF IInv, vars
  <2>3. \A u \in Token : EntryOK(u)'
    BY <1>1, EntriesKept DEF IInv, vars
  <2> QED
    BY <2>1, <2>2, <2>3 DEF IInv
<1> QED
  BY <1>1, HandleConfigKeeps, HitKeeps, MissKeeps, AnswerKeeps, ReceiveKeeps, LeaveKeeps,
     ChangeOfMindKeeps, TickKeeps DEF Next

\* The reasons of those who are accepted, and the ages of the entries, always.
THEOREM Invariance == Spec => []IInv
<1> QED
  BY InitIInv, NextIInv, PTL DEF Spec

\* The callers, the cache and the API keep their types.
THEOREM Typing == Spec => []TypeOK
<1>1. IInv => TypeOK
  BY DEF IInv
<1> QED
  BY <1>1, Invariance, PTL

\* validate() fails closed: without the server's own token, or a yes of the API
\* for this very token, a session is not accepted while authentication is on.
THEOREM AcceptedIsAuthorisedHolds == Spec => []AcceptedIsAuthorised
<1>1. IInv => AcceptedIsAuthorised
  BY DEF IInv, CallerOK, AcceptedIsAuthorised, auth_enabled_
<1> QED
  BY <1>1, Invariance, PTL

\* A verdict out of AuthCache is no more than a TTL behind the API, whichever
\* session stored it and in whatever order the answers came.
THEOREM VerdictsFollowTheApiHolds == Spec => VerdictsFollowTheApi
<1> DEFINE Follows(s) ==
      FromCache(s) =>
        \/ calm[caller[s].token] < config.auth_cache_ttl
        \/ (caller'[s].step = "accepted") = (opinion[caller[s].token] = "allowed")
<1>1. ASSUME IInv, Next, NEW s \in Session, FromCache(s)
      PROVE  Follows(s)
  <2> DEFINE t == caller[s].token
  <2>1. /\ caller \in [Session -> Callers] /\ TypeOK
        /\ CallerOK(s) /\ caller[s].step = "lookup" /\ t \in Token /\ EntryOK(t)
        /\ caller'[s].step \in {"accepted", "rejected"} /\ config.auth_api_url \notin Unreadable
    BY <1>1 DEF IInv, TypeOK, CallerOK, FromCache
  <2>2. caller'[s] # caller[s]
    BY <2>1
  <2>3. ASSUME NEW u \in Session, NEW step, NEW v, NEW answer, Goes(u, step, v, answer)
        PROVE  u = s /\ caller'[s].step = step
    BY <2>1, <2>2, <2>3 DEF Goes
  <2>4. Hit(s)
    <3>1. ASSUME NEW u \in Session, NEW v \in Token \cup {NoToken}
          PROVE  ~HandleConfig(u, v)
      BY <2>1, <2>3 DEF HandleConfig, Verdict
    <3>2. ASSUME NEW u \in Session, Miss(u) PROVE FALSE
      BY <2>1, <2>3, <3>2 DEF Miss
    <3>3. ASSUME NEW u \in Session, NEW answer \in AllAnswers PROVE ~Answer(u, answer)
      BY <2>1, <2>3 DEF Answer
    <3>4. ASSUME NEW u \in Session PROVE ~Receive(u)
      BY <2>1, <2>3 DEF Receive, Verdict
    <3>5. ASSUME NEW u \in Session PROVE ~Leave(u)
      BY <2>1, <2>2 DEF Leave
    <3>6. ASSUME NEW u \in Session, Hit(u) PROVE u = s
      BY <2>3, <3>6 DEF Hit, Verdict
    <3>7. \A v \in Token : ~ChangeOfMind(v)
      BY <2>2 DEF ChangeOfMind
    <3>8. ~Tick
      BY <2>2 DEF Tick
    <3> QED
      BY <1>1, <3>1, <3>2, <3>3, <3>4, <3>5, <3>6, <3>7, <3>8 DEF Next
  <2>5. (caller'[s].step = "accepted") <=> entries_[t].is_valid = "allowed"
    BY <2>1, <2>4 DEF Hit, Verdict, Goes
  <2>6. /\ entries_[t].left \in Int /\ entries_[t].left > 0 /\ calm[t] \in Nat
        /\ config.auth_cache_ttl \in Int /\ opinion[t] \in Opinions
        /\ entries_[t] \in Entries /\ entries_[t].is_valid # "none"
    BY <2>1, <2>4, Values DEF Hit, Expired
  <2>7. entries_[t].is_valid # opinion[t] => calm[t] < config.auth_cache_ttl
    BY <2>1, <2>6 DEF EntryOK
  <2>8. entries_[t].is_valid = opinion[t] =>
          (caller'[s].step = "accepted") = (opinion[t] = "allowed")
    BY <2>5
  <2> QED
    BY <2>7, <2>8
<1>2. IInv /\ [Next]_vars => [\A s \in Session : Follows(s)]_vars
  BY <1>1
<1>3. VerdictsFollowTheApi <=> [][\A s \in Session : Follows(s)]_vars
  BY PTL DEF VerdictsFollowTheApi
<1> QED
  BY <1>2, <1>3, Invariance, PTL DEF Spec

-----------------------------------------------------------------------------
(* Configuration: the lines of the .env file. *)

\* Loaded obeys its definition, if the lines keep to the environments.
LEMMA LoadedRecurs ==
  ASSUME NEW V, NEW environment \in V, NEW lines, Len(lines) \in Nat,
         \A e \in V, i \in 1..Len(lines) : LoadLine(e, lines[i]) \in V
  PROVE  /\ Loaded(environment, lines)[0] = environment
         /\ \A i \in 1..Len(lines) :
              Loaded(environment, lines)[i] =
                LoadLine(Loaded(environment, lines)[i - 1], lines[i])
<1> DEFINE n == Len(lines)
           step == [p \in (1..n) \X V |-> LoadLine(p[2], lines[p[1]])]
<1>1. n \in Nat
  OBVIOUS
<1>2. step \in [(1..n) \X V -> V]
  OBVIOUS
<1>3. PICK h \in [0..n -> V] : Iterates(h, n, environment, step)
  <2> HIDE DEF n, step
  <2> QED
    BY <1>1, <1>2, Recursion
<1>4. ASSUME NEW i \in 1..n PROVE h[i] = LoadLine(h[i - 1], lines[i])
  <2>1. i - 1 \in 0..n
    BY <1>1
  <2>2. <<i, h[i - 1]>> \in (1..n) \X V
    BY <1>3, <2>1
  <2>3. h[i] = step[<<i, h[i - 1]>>]
    BY <1>3 DEF Iterates
  <2> HIDE DEF n
  <2> QED
    BY <2>2, <2>3
<1>5. h = [i \in 0..n |-> IF i = 0 THEN environment ELSE LoadLine(h[i - 1], lines[i])]
  <2>1. \A i \in 0..n : i = 0 \/ i \in 1..n
    BY <1>1
  <2> HIDE DEF step, n
  <2> QED
    BY <1>3, <1>4, <2>1, Zenon DEF Iterates
<1>6. Loaded(environment, lines) =
        [i \in 0..n |-> IF i = 0 THEN environment
                        ELSE LoadLine(Loaded(environment, lines)[i - 1], lines[i])]
  BY <1>5, Zenon DEF Loaded
<1>7. 0 \in 0..n /\ \A i \in 1..n : i \in 0..n /\ i # 0
  BY <1>1
<1> HIDE DEF step
<1> QED
  BY <1>6, <1>7, Zenon

\* What a variable has after i lines: what it had, or else the text of the
\* first of them that names it.
LoadedUpTo(e, environment, lines, i) ==
  \A s \in Setting :
    /\ environment[s] # Unset => e[s] = environment[s]
    /\ environment[s] = Unset /\ (\A j \in 1..i : lines[j][1] # s) => e[s] = Unset
    /\ \A m \in 1..i :
         environment[s] = Unset /\ lines[m][1] = s /\ (\A j \in 1..m - 1 : lines[j][1] # s)
           => e[s] = lines[m][2]

\* One line more.
LEMMA LoadLineStep ==
  ASSUME NEW Text, Unset \notin Text, NEW environment \in [Setting -> Text \cup {Unset}],
         NEW lines \in Seq(Setting \X Text), NEW i \in 0..Len(lines) - 1,
         NEW e \in [Setting -> Text \cup {Unset}], LoadedUpTo(e, environment, lines, i)
  PROVE  /\ LoadLine(e, lines[i + 1]) \in [Setting -> Text \cup {Unset}]
         /\ LoadedUpTo(LoadLine(e, lines[i + 1]), environment, lines, i + 1)
<1> DEFINE then == LoadLine(e, lines[i + 1])
<1>1. i \in Nat /\ i + 1 \in 1..Len(lines)
  OBVIOUS
<1>2. lines[i + 1][1] \in Setting /\ lines[i + 1][2] \in Text
  BY <1>1
<1>3. then \in [Setting -> Text \cup {Unset}]
  BY <1>2 DEF LoadLine
<1>4. ASSUME NEW s \in Setting
      PROVE  then[s] = IF lines[i + 1][1] = s /\ e[s] = Unset THEN lines[i + 1][2] ELSE e[s]
  BY <1>2 DEF LoadLine
<1> HIDE DEF then
<1>5. ASSUME NEW s \in Setting, environment[s] # Unset PROVE then[s] = environment[s]
  BY <1>4, <1>5 DEF LoadedUpTo
<1>6. ASSUME NEW s \in Setting, environment[s] = Unset, \A j \in 1..i + 1 : lines[j][1] # s
      PROVE  then[s] = Unset
  <2>1. lines[i + 1][1] # s /\ \A j \in 1..i : lines[j][1] # s
    BY <1>1, <1>6
  <2> QED
    BY <1>4, <1>6, <2>1 DEF LoadedUpTo
<1>7. ASSUME NEW s \in Setting, NEW m \in 1..i + 1, environment[s] = Unset,
             lines[m][1] = s, \A j \in 1..m - 1 : lines[j][1] # s
      PROVE  then[s] = lines[m][2]
  <2>1. CASE m = i + 1
    <3>1. e[s] = Unset
      <4>1. \A j \in 1..i : lines[j][1] # s
        BY <1>1, <1>7, <2>1
      <4> QED
        BY <1>7, <4>1 DEF LoadedUpTo
    <3> QED
      BY <1>4, <1>7, <2>1, <3>1
  <2>2. CASE m # i + 1
    <3>1. m \in 1..i /\ m \in 1..Len(lines)
      BY <1>1, <2>2
    <3>2. e[s] = lines[m][2]
      BY <1>7, <3>1 DEF LoadedUpTo
    <3>3. e[s] # Unset
      BY <3>1, <3>2
    <3> QED
      BY <1>4, <3>2, <3>3
  <2> QED
    BY <2>1, <2>2
<1> QED
  BY <1>3, <1>5, <1>6, <1>7 DEF LoadedUpTo, then

\* The environment after the file: what was there stays, the first line counts.
LEMMA FileIsLoaded ==
  ASSUME NEW Text, Unset \notin Text, NEW environment \in [Setting -> Text \cup {Unset}],
         NEW lines \in Seq(Setting \X Text)
  PROVE  /\ loadDotEnv(environment, lines) \in [Setting -> Text \cup {Unset}]
         /\ LoadedUpTo(loadDotEnv(environment, lines), environment, lines, Len(lines))
<1> DEFINE n == Len(lines)
           known == Loaded(environment, lines)
           Good(i) == /\ known[i] \in [Setting -> Text \cup {Unset}]
                      /\ LoadedUpTo(known[i], environment, lines, i)
           S == {i \in 0..n : Good(i)}
<1>1. n \in Nat
  OBVIOUS
<1>2. known[0] = environment /\ \A i \in 1..n : known[i] = LoadLine(known[i - 1], lines[i])
  <2>1. /\ Loaded(environment, lines)[0] = environment
        /\ \A i \in 1..Len(lines) :
              Loaded(environment, lines)[i] =
                LoadLine(Loaded(environment, lines)[i - 1], lines[i])
    <3> DEFINE V == [Setting -> Text \cup {Unset}]
    <3>1. \A e \in V, i \in 1..Len(lines) : LoadLine(e, lines[i]) \in V
      <4>1. \A i \in 1..Len(lines) : lines[i][1] \in Setting /\ lines[i][2] \in Text
        OBVIOUS
      <4> QED
        BY <4>1 DEF LoadLine
    <3>2. environment \in V /\ Len(lines) \in Nat
      OBVIOUS
    <3> HIDE DEF V
    <3> QED
      BY <3>1, <3>2, LoadedRecurs
  <2>2. known[0] = environment
    BY <2>1
  <2> QED
    BY <2>1, <2>2
<1>3. 0 \in S
  <2>1. LoadedUpTo(environment, environment, lines, 0)
    BY DEF LoadedUpTo
  <2> HIDE DEF known
  <2> QED
    BY <1>1, <1>2, <2>1
<1>4. ASSUME NEW i \in 0..n - 1, i \in S PROVE i + 1 \in S
  <2>1. i + 1 \in 1..n /\ i + 1 - 1 = i /\ i + 1 \in 0..n
    BY <1>1
  <2> HIDE DEF known
  <2>2. known[i + 1] = LoadLine(known[i], lines[i + 1])
    BY <1>2, <2>1
  <2>3. known[i] \in [Setting -> Text \cup {Unset}] /\ LoadedUpTo(known[i], environment, lines, i)
    BY <1>4
  <2>4. i \in 0..Len(lines) - 1 /\ known[i] \in [Setting -> Text \cup {Unset}]
    BY <2>3
  <2>5. /\ LoadLine(known[i], lines[i + 1]) \in [Setting -> Text \cup {Unset}]
        /\ LoadedUpTo(LoadLine(known[i], lines[i + 1]), environment, lines, i + 1)
    BY <2>3, <2>4, LoadLineStep
  <2>6. Good(i + 1)
    BY <2>2, <2>5
  <2> QED
    BY <2>1, <2>6
<1>5. 0..n \subseteq S
  <2> HIDE DEF S, n
  <2> QED
    BY <1>1, <1>3, <1>4, Induction
<1> QED
  BY <1>1, <1>5 DEF loadDotEnv

-----------------------------------------------------------------------------
(* Configuration: the tokens of the command line. *)

\* Parsed obeys its definition, if the tokens keep to what may be known.
LEMMA ParsedRecurs ==
  ASSUME NEW V, NEW environment, configFromEnv(environment) \in V,
         NEW argv, Len(argv) \in Nat,
         \A p \in V, i \in 1..Len(argv) : ParseToken(p, argv[i]) \in V
  PROVE  /\ Parsed(environment, argv)[0] = configFromEnv(environment)
         /\ \A i \in 0..Len(argv) : Parsed(environment, argv)[i] \in V
         /\ \A i \in 1..Len(argv) :
              Parsed(environment, argv)[i] =
                ParseToken(Parsed(environment, argv)[i - 1], argv[i])
<1> DEFINE n == Len(argv)
           b == configFromEnv(environment)
           step == [p \in (1..n) \X V |-> ParseToken(p[2], argv[p[1]])]
<1> HIDE DEF b
<1>1. n \in Nat /\ b \in V
  BY DEF b
<1>2. step \in [(1..n) \X V -> V]
  OBVIOUS
<1>3. PICK h \in [0..n -> V] : Iterates(h, n, b, step)
  <2> HIDE DEF n, step
  <2> QED
    BY <1>1, <1>2, Recursion
<1>4. ASSUME NEW i \in 1..n PROVE h[i] = ParseToken(h[i - 1], argv[i])
  <2>1. i - 1 \in 0..n
    BY <1>1
  <2>2. <<i, h[i - 1]>> \in (1..n) \X V
    BY <1>3, <2>1
  <2>3. h[i] = step[<<i, h[i - 1]>>]
    BY <1>3 DEF Iterates
  <2> HIDE DEF n
  <2> QED
    BY <2>2, <2>3
<1>5. h = [i \in 0..n |-> IF i = 0 THEN b ELSE ParseToken(h[i - 1], argv[i])]
  <2>1. \A i \in 0..n : i = 0 \/ i \in 1..n
    BY <1>1
  <2> HIDE DEF step, n
  <2> QED
    BY <1>3, <1>4, <2>1, Zenon DEF Iterates
<1> DEFINE parsed == CHOOSE f : f = [i \in 0..n |-> IF i = 0 THEN b ELSE ParseToken(f[i - 1], argv[i])]
<1>6. Parsed(environment, argv) = parsed
  BY Zenon DEF Parsed, b
<1>7. parsed = [i \in 0..n |-> IF i = 0 THEN b ELSE ParseToken(parsed[i - 1], argv[i])]
  BY <1>5, Zenon
<1>8. 0 \in 0..n /\ \A i \in 1..n : i \in 0..n /\ i # 0
  BY <1>1
<1> HIDE DEF step, parsed
<1>9. parsed[0] = b /\ \A i \in 1..n : parsed[i] = ParseToken(parsed[i - 1], argv[i])
  BY <1>7, <1>8, Zenon
<1>10. ASSUME NEW i \in 0..n PROVE parsed[i] \in V
  <2> DEFINE S == {j \in 0..n : parsed[j] \in V}
  <2>1. 0 \in S
    BY <1>1, <1>8, <1>9
  <2>2. ASSUME NEW j \in 0..n - 1, j \in S PROVE j + 1 \in S
    <3>1. j + 1 \in 1..n /\ j + 1 - 1 = j /\ j + 1 \in 0..n
      BY <1>1
    <3>2. parsed[j + 1] = ParseToken(parsed[j], argv[j + 1])
      BY <1>9, <3>1
    <3> QED
      BY <2>2, <3>1, <3>2
  <2>3. 0..n \subseteq S
    <3> HIDE DEF S, n
    <3> QED
      BY <1>1, <2>1, <2>2, Induction
  <2> QED
    BY <2>3
<1> QED
  BY <1>6, <1>9, <1>10 DEF b

\* What the arguments start from has all settings, and none is open.
LEMMA EnvironmentGives ==
  ASSUME NEW environment
  PROVE  LET base == configFromEnv(environment)
         IN /\ base = [status |-> base.status, option |-> "", config |-> base.config]
            /\ base.status \in {"ok", "error"} /\ base.option = ""
            /\ base.config = [s \in Setting |-> base.config[s]]
<1>1. Default = [s \in Setting |-> Default[s]]
  BY ConfigurationAssumption DEF ConfigurationAssumption
<1> QED
  BY <1>1, Zenon DEF configFromEnv

\* The values that the arguments may give a setting, whatever the tokens.
SettingValues(base, argv) ==
  {base[s] : s \in Setting} \cup {Converted(s, argv[i]) : s \in Setting, i \in 1..Len(argv)}

\* What may be known while they are parsed.
Knowable(base, argv) ==
  [status : {"ok", "error", "help"}, option : Setting \cup {"", "--env-file"},
   config : [Setting -> SettingValues(base, argv)]]

\* One token more.
LEMMA TokenKeeps ==
  ASSUME NEW base, NEW argv, NEW p \in Knowable(base, argv),
         NEW i \in 1..Len(argv)
  PROVE  ParseToken(p, argv[i]) \in Knowable(base, argv)
<1> DEFINE values == SettingValues(base, argv)
           V == [status : {"ok", "error", "help"}, option : Setting \cup {"", "--env-file"},
                 config : [Setting -> values]]
           token == argv[i]
<1>1. Knowable(base, argv) = V
  BY DEF Knowable
<1>2. \A s \in Setting : Converted(s, token) \in values
  BY DEF SettingValues
<1> HIDE DEF values, token
<1> DEFINE then == ParseToken(p, token)
<1>p. p \in V
  BY <1>1
<1>3. ASSUME NEW s \in Setting PROVE Takes(p, s, token) \in V
  <2>1. CASE Converts(s, token)
    <3>1. Takes(p, s, token) =
            [p EXCEPT !.option = "", !.config = [p.config EXCEPT ![s] = Converted(s, token)]]
      BY <2>1 DEF Takes
    <3>2. [p.config EXCEPT ![s] = Converted(s, token)] \in [Setting -> values]
      BY <1>2, <1>p
    <3> QED
      BY <1>p, <3>1, <3>2
  <2>2. CASE ~Converts(s, token)
    BY <1>p, <2>2 DEF Takes
  <2> QED
    BY <2>1, <2>2
<1>4. "model_path" \in Setting
  BY ConfigurationAssumption DEF ConfigurationAssumption
<1>5. CASE p.status # "ok"
  <2>1. then = p
    BY <1>5 DEF ParseToken
  <2> QED
    BY <1>1, <1>p, <2>1 DEF token
<1>6. CASE p.status = "ok" /\ p.option = "--env-file"
  <2>1. then = [p EXCEPT !.option = ""]
    BY <1>6, ConfigurationAssumption DEF ConfigurationAssumption, OtherOptions, ParseToken
  <2> QED
    BY <1>1, <1>p, <2>1 DEF token
<1>7. CASE p.status = "ok" /\ p.option \in Setting
  <2>1. then = Takes(p, p.option, token)
    BY <1>7, ConfigurationAssumption DEF ConfigurationAssumption, OtherOptions, ParseToken
  <2> QED
    BY <1>1, <1>3, <1>7, <2>1 DEF token
<1>8. CASE p.status = "ok" /\ p.option = ""
  <2>1. then = CASE token = "--help" -> [p EXCEPT !.status = "help"]
                 [] token \in Setting \cup {"--env-file"} -> [p EXCEPT !.option = token]
                 [] token = "--thread-safe" -> p
                 [] IsText(token) /\ p.config["model_path"] = BaseModel ->
                      Takes(p, "model_path", token)
                 [] OTHER -> [p EXCEPT !.status = "error"]
    BY <1>8, ConfigurationAssumption DEF ConfigurationAssumption, ParseToken
  <2>2. \/ then = [p EXCEPT !.status = "help"] \/ then = [p EXCEPT !.status = "error"]
        \/ then = p
        \/ token \in Setting \cup {"--env-file"} /\ then = [p EXCEPT !.option = token]
        \/ then = Takes(p, "model_path", token)
    <3> HIDE DEF then
    <3> QED
      BY <2>1
  <2>3. then \in V
    <3> HIDE DEF then
    <3> QED
      BY <1>3, <1>4, <1>p, <2>2
  <2> QED
    BY <1>1, <2>3 DEF token
<1> QED
  BY <1>1, <1>5, <1>6, <1>7, <1>8, <1>p DEF token

\* An option and its value.
Then(p, s, text) == ParseToken(ParseToken(p, s), text)

\* No option is open.
Idle(p) == p.status = "ok" /\ p.option = ""

\* An option is, and nothing else has changed.
Opened(q, p) == q.status = "ok" /\ q.config = p.config

\* The setting has the value; the others have what they had.
Taken(then, p, s, text) ==
  /\ then.status = "ok" /\ then.option = ""
  /\ \A u \in Setting :
       then.config[u] = IF u = s THEN Converted(s, text) ELSE p.config[u]

\* The option waits for its value.
LEMMA OptionOpens ==
  ASSUME NEW base, NEW argv, NEW p \in Knowable(base, argv), NEW s \in Setting, NEW text,
         Idle(p)
  PROVE  /\ ParseToken(p, s) \in Knowable(base, argv) /\ Opened(ParseToken(p, s), p)
         /\ Then(p, s, text) = Takes(ParseToken(p, s), s, text)
<1> DEFINE q == ParseToken(p, s)
<1> USE DEF Idle
<1>1. s # "--help" /\ s # "--env-file" /\ s # "" /\ "" # "--env-file"
  BY ConfigurationAssumption DEF ConfigurationAssumption, OtherOptions
<1>2. q = CASE s = "--help" -> [p EXCEPT !.status = "help"]
            [] s \in Setting \cup {"--env-file"} -> [p EXCEPT !.option = s]
            [] s = "--thread-safe" -> p
            [] IsText(s) /\ p.config["model_path"] = BaseModel -> Takes(p, "model_path", s)
            [] OTHER -> [p EXCEPT !.status = "error"]
  BY <1>1, ConfigurationAssumption DEF ConfigurationAssumption, ParseToken
<1>3. s # "--thread-safe" /\ ~IsText(s)
  BY ConfigurationAssumption DEF ConfigurationAssumption, OtherOptions, IsText
<1>4. q = [p EXCEPT !.option = s]
  <2> HIDE DEF q
  <2> QED
    BY <1>1, <1>2, <1>3
<1>5. /\ q \in [status : {"ok", "error", "help"}, option : Setting \cup {"", "--env-file"},
                config : [Setting -> SettingValues(base, argv)]]
      /\ q.status = "ok" /\ q.option = s /\ q.config = p.config
  <2>1. p \in [status : {"ok", "error", "help"}, option : Setting \cup {"", "--env-file"},
               config : [Setting -> SettingValues(base, argv)]]
    BY DEF Knowable
  <2> HIDE DEF q
  <2> QED
    BY <1>4, <2>1
<1>6. Then(p, s, text) = Takes(q, s, text)
  <2>1. Then(p, s, text) = ParseToken(q, text)
    BY DEF Then
  <2> HIDE DEF q
  <2> QED
    BY <1>1, <1>5, <2>1 DEF ParseToken
<1> HIDE DEF q
<1>7. q \in Knowable(base, argv)
  BY <1>5 DEF Knowable
<1> QED
  BY <1>5, <1>6, <1>7 DEF q, Opened

\* A value that will do is taken.
LEMMA PairTaken ==
  ASSUME NEW base, NEW argv, NEW p \in Knowable(base, argv), NEW s \in Setting, NEW text,
         Idle(p), Converts(s, text)
  PROVE  Taken(Then(p, s, text), p, s, text)
<1> DEFINE q == ParseToken(p, s)
           then == Then(p, s, text)
<1>1. q \in Knowable(base, argv) /\ Opened(q, p) /\ then = Takes(q, s, text)
  BY OptionOpens
<1> HIDE DEF q, then
<1>2. q.status = "ok" /\ q.config = p.config
  BY <1>1 DEF Opened
<1>3. q \in [status : {"ok", "error", "help"}, option : Setting \cup {"", "--env-file"},
             config : [Setting -> SettingValues(base, argv)]]
  BY <1>1 DEF Knowable
<1>4. then = [q EXCEPT !.option = "", !.config = [q.config EXCEPT ![s] = Converted(s, text)]]
  BY <1>1 DEF Takes
<1>5. /\ then.config = [q.config EXCEPT ![s] = Converted(s, text)]
      /\ then.status = q.status /\ then.option = ""
  BY <1>3, <1>4
<1>6. q.config \in [Setting -> SettingValues(base, argv)]
  BY <1>3
<1>7. Taken(then, p, s, text)
  BY <1>2, <1>5, <1>6 DEF Taken
<1> QED
  BY <1>7 DEF then

\* Another one ends it.
LEMMA PairRefused ==
  ASSUME NEW base, NEW argv, NEW p \in Knowable(base, argv), NEW s \in Setting, NEW text,
         Idle(p), ~Converts(s, text)
  PROVE  Then(p, s, text).status = "error"
<1> DEFINE q == ParseToken(p, s)
<1>1. q \in Knowable(base, argv) /\ Then(p, s, text) = Takes(q, s, text)
  BY OptionOpens
<1> HIDE DEF q
<1>2. q \in [status : {"ok", "error", "help"}, option : Setting \cup {"", "--env-file"},
             config : [Setting -> SettingValues(base, argv)]]
  BY <1>1 DEF Knowable
<1>3. Then(p, s, text) = [q EXCEPT !.status = "error"]
  BY <1>1 DEF Takes
<1> QED
  BY <1>2, <1>3

\* After an error nothing counts.
LEMMA PairOver ==
  ASSUME NEW p, NEW s, NEW text, p.status # "ok"
  PROVE  Then(p, s, text) = p
BY DEF Then, ParseToken

\* What is known after k options with values: what there was, or else the last
\* value of each setting; an error, once there was one.
ParsedUpTo(p, base, pairs, k) ==
  IF base.status = "ok" /\ \A j \in 1..k : Converts(pairs[j][1], pairs[j][2])
  THEN /\ p.status = "ok" /\ p.option = ""
       /\ \A s \in Setting :
            /\ (\A j \in 1..k : pairs[j][1] # s) => p.config[s] = base.config[s]
            /\ \A m \in 1..k :
                 pairs[m][1] = s /\ (\A j \in m + 1..k : pairs[j][1] # s)
                   => p.config[s] = Converted(s, pairs[m][2])
  ELSE p.status = "error"

\* One option with its value more.
LEMMA PairStep ==
  ASSUME NEW base, NEW argv, NEW p \in Knowable(base.config, argv), NEW Text,
         NEW pairs \in Seq(Setting \X Text), NEW k \in 0..Len(pairs) - 1,
         ParsedUpTo(p, base, pairs, k)
  PROVE  ParsedUpTo(Then(p, pairs[k + 1][1], pairs[k + 1][2]), base, pairs, k + 1)
<1> DEFINE s == pairs[k + 1][1]
           text == pairs[k + 1][2]
           then == Then(p, s, text)
           Fine(i) == base.status = "ok" /\ \A j \in 1..i : Converts(pairs[j][1], pairs[j][2])
<1>1. k \in Nat /\ k + 1 \in 1..Len(pairs)
  OBVIOUS
<1>2. s \in Setting
  BY <1>1
<1>3. Fine(k) => p.status = "ok" /\ p.option = ""
  BY DEF ParsedUpTo
<1>4. ~Fine(k) => p.status = "error"
  BY DEF ParsedUpTo
<1>5. Fine(k + 1) <=> Fine(k) /\ Converts(s, text)
  <2>1. \A j \in 1..k + 1 : j \in 1..k \/ j = k + 1
    BY <1>1
  <2>2. k + 1 \in 1..k + 1 /\ \A j \in 1..k : j \in 1..k + 1
    BY <1>1
  <2> QED
    BY <2>1, <2>2
<1>6. p \in Knowable(base.config, argv)
  OBVIOUS
<1>7. ASSUME ~Fine(k + 1) PROVE then.status = "error"
  <2>1. CASE Fine(k)
    <3>1. Idle(p) /\ ~Converts(s, text)
      BY <1>3, <1>5, <1>7, <2>1 DEF Idle
    <3> HIDE DEF s, text, Fine
    <3> QED
      BY <1>2, <1>6, <3>1, PairRefused, Zenon
  <2>2. CASE ~Fine(k)
    <3>1. p.status = "error"
      BY <1>4, <2>2
    <3> HIDE DEF s, text, Fine
    <3>2. then = p
      BY <3>1, PairOver
    <3> QED
      BY <3>1, <3>2
  <2> QED
    BY <2>1, <2>2
<1>8. ASSUME Fine(k + 1)
      PROVE  /\ then.status = "ok" /\ then.option = ""
             /\ \A u \in Setting :
                  then.config[u] = IF u = s THEN Converted(s, text) ELSE p.config[u]
  <2>1. Idle(p) /\ Converts(s, text)
    BY <1>3, <1>5, <1>8 DEF Idle
  <2>2. Taken(then, p, s, text)
    <3> HIDE DEF s, text, Fine
    <3> QED
      BY <1>2, <1>6, <2>1, PairTaken
  <2> HIDE DEF s, text, Fine, then
  <2> QED
    BY <2>2 DEF Taken
<1>9. ASSUME Fine(k + 1), NEW u \in Setting, \A j \in 1..k + 1 : pairs[j][1] # u
      PROVE  then.config[u] = base.config[u]
  <2>1. u # s /\ \A j \in 1..k : pairs[j][1] # u
    BY <1>1, <1>9
  <2>2. p.config[u] = base.config[u]
    BY <1>5, <1>9, <2>1 DEF ParsedUpTo
  <2> HIDE DEF then, Fine
  <2> QED
    BY <1>8, <1>9, <2>1, <2>2
<1>10. ASSUME Fine(k + 1), NEW u \in Setting, NEW m \in 1..k + 1, pairs[m][1] = u,
              \A j \in m + 1..k + 1 : pairs[j][1] # u
       PROVE  then.config[u] = Converted(u, pairs[m][2])
  <2>1. CASE m = k + 1
    <3>1. u = s /\ pairs[m][2] = text
      BY <1>10, <2>1
    <3> HIDE DEF then, Fine, s, text
    <3> QED
      BY <1>8, <1>10, <3>1
  <2>2. CASE m # k + 1
    <3>1. m \in 1..k /\ k + 1 \in m + 1..k + 1
      BY <1>1, <2>2
    <3>2. u # s
      BY <1>10, <3>1
    <3>3. \A j \in m + 1..k : pairs[j][1] # u
      <4>1. \A j \in m + 1..k : j \in m + 1..k + 1
        BY <1>1
      <4> QED
        BY <1>10, <4>1
    <3>4. p.config[u] = Converted(u, pairs[m][2])
      BY <1>5, <1>10, <3>1, <3>3 DEF ParsedUpTo
    <3> HIDE DEF then, Fine, s
    <3> QED
      BY <1>8, <1>10, <3>2, <3>4
  <2> QED
    BY <2>1, <2>2
<1> HIDE DEF then
<1>11. ParsedUpTo(then, base, pairs, k + 1)
  BY <1>7, <1>8, <1>9, <1>10 DEF ParsedUpTo
<1> QED
  BY <1>11 DEF then

-----------------------------------------------------------------------------
(* Configuration: options with values, and the whole. *)

\* Every option with its value is two tokens.
LEMMA Tokens ==
  ASSUME NEW Text, NEW pairs \in Seq(Setting \X Text)
  PROVE  /\ Len(CommandLine(pairs)) = 2 * Len(pairs)
         /\ \A k \in 0..Len(pairs) - 1 :
              /\ CommandLine(pairs)[2 * k + 1] = pairs[k + 1][1]
              /\ CommandLine(pairs)[2 * k + 2] = pairs[k + 1][2]
<1> DEFINE n == Len(pairs)
<1>1. n \in Nat /\ 2 * n \in Nat
  OBVIOUS
<1>2. Len(CommandLine(pairs)) = 2 * n
  BY <1>1 DEF CommandLine
<1>3. ASSUME NEW k \in 0..n - 1
      PROVE  /\ CommandLine(pairs)[2 * k + 1] = pairs[k + 1][1]
             /\ CommandLine(pairs)[2 * k + 2] = pairs[k + 1][2]
  <2>1. /\ 2 * k + 1 \in 1..2 * n /\ 2 * k + 2 \in 1..2 * n
        /\ (2 * k + 1 + 1) \div 2 = k + 1 /\ (2 * k + 1) % 2 = 1
        /\ (2 * k + 2 + 1) \div 2 = k + 1 /\ (2 * k + 2) % 2 = 0
    BY <1>1
  <2> HIDE DEF n
  <2> QED
    BY <2>1 DEF CommandLine, n
<1> QED
  BY <1>2, <1>3

\* After all options with values: the last value of each, or an error.
LEMMA ArgumentsParsed ==
  ASSUME NEW Text, NEW environment, NEW pairs \in Seq(Setting \X Text)
  PROVE  LET argv == CommandLine(pairs)
         IN ParsedUpTo(Parsed(environment, argv)[Len(argv)], configFromEnv(environment),
                       pairs, Len(pairs))
<1> DEFINE n == Len(pairs)
           argv == CommandLine(pairs)
           base == configFromEnv(environment)
           parsed == Parsed(environment, argv)
           S == {k \in 0..n : ParsedUpTo(parsed[2 * k], base, pairs, k)}
<1>1. n \in Nat /\ Len(argv) = 2 * n /\ Len(argv) \in Nat
  <2>1. Len(argv) = 2 * n
    BY Tokens, Zenon
  <2> QED
    BY <2>1
<1>2. /\ base = [status |-> base.status, option |-> "", config |-> base.config]
      /\ base.status \in {"ok", "error"} /\ base.option = ""
      /\ base.config = [s \in Setting |-> base.config[s]]
  BY EnvironmentGives
<1> HIDE DEF base, argv, parsed
<1>3. base \in Knowable(base.config, argv)
  <2>1. base.config \in [Setting -> SettingValues(base.config, argv)]
    <3>1. \A s \in Setting : base.config[s] \in SettingValues(base.config, argv)
      BY DEF SettingValues
    <3> QED
      BY <1>2, <3>1
  <2>2. [status |-> base.status, option |-> "", config |-> base.config]
          \in Knowable(base.config, argv)
    BY <1>2, <2>1 DEF Knowable
  <2> QED
    BY <1>2, <2>2, Zenon
<1>4. /\ parsed[0] = base
      /\ \A i \in 0..Len(argv) : parsed[i] \in Knowable(base.config, argv)
      /\ \A i \in 1..Len(argv) : parsed[i] = ParseToken(parsed[i - 1], argv[i])
  <2> DEFINE V == Knowable(base.config, argv)
  <2>1. \A p \in V, i \in 1..Len(argv) : ParseToken(p, argv[i]) \in V
    BY TokenKeeps
  <2>2. configFromEnv(environment) \in V
    BY <1>3 DEF base
  <2>3. Len(argv) \in Nat
    BY <1>1
  <2> HIDE DEF V
  <2>4. /\ Parsed(environment, argv)[0] = configFromEnv(environment)
        /\ \A i \in 0..Len(argv) : Parsed(environment, argv)[i] \in V
        /\ \A i \in 1..Len(argv) :
             Parsed(environment, argv)[i] =
               ParseToken(Parsed(environment, argv)[i - 1], argv[i])
    BY <2>1, <2>2, <2>3, ParsedRecurs
  <2> QED
    BY <2>4 DEF V, base, parsed
<1>5. 0 \in S
  <2>1. ParsedUpTo(base, base, pairs, 0)
    <3>1. base.status \in {"ok", "error"} /\ base.option = ""
      BY <1>2
    <3>2. 1..0 = {}
      OBVIOUS
    <3>3. base.status = "ok" => base.status # "error"
      OBVIOUS
    <3> QED
      BY <3>1, <3>2, <3>3, Zenon DEF ParsedUpTo
  <2> QED
    BY <1>1, <1>4, <2>1
<1>6. ASSUME NEW k \in 0..n - 1, k \in S PROVE k + 1 \in S
  <2>1. /\ 2 * k \in 0..Len(argv) /\ 2 * k + 1 \in 1..Len(argv) /\ 2 * k + 2 \in 1..Len(argv)
        /\ 2 * k + 1 - 1 = 2 * k /\ 2 * k + 2 - 1 = 2 * k + 1 /\ 2 * (k + 1) = 2 * k + 2
        /\ k + 1 \in 0..n
    BY <1>1
  <2>2. argv[2 * k + 1] = pairs[k + 1][1] /\ argv[2 * k + 2] = pairs[k + 1][2]
    BY Tokens DEF argv
  <2>3. parsed[2 * k + 2] = Then(parsed[2 * k], pairs[k + 1][1], pairs[k + 1][2])
    <3>1. parsed[2 * k + 1] = ParseToken(parsed[2 * k], argv[2 * k + 1])
      BY <1>4, <2>1
    <3>2. parsed[2 * k + 2] = ParseToken(parsed[2 * k + 1], argv[2 * k + 2])
      BY <1>4, <2>1
    <3> QED
      BY <2>2, <3>1, <3>2 DEF Then
  <2>4. parsed[2 * k] \in Knowable(base.config, argv) /\ ParsedUpTo(parsed[2 * k], base, pairs, k)
    BY <1>4, <1>6, <2>1
  <2>5. ParsedUpTo(Then(parsed[2 * k], pairs[k + 1][1], pairs[k + 1][2]), base, pairs, k + 1)
    BY <2>4, PairStep
  <2>6. ParsedUpTo(parsed[2 * (k + 1)], base, pairs, k + 1)
    BY <2>1, <2>3, <2>5
  <2> QED
    BY <2>1, <2>6
<1>7. 0..n \subseteq S
  <2> HIDE DEF S, n
  <2> QED
    BY <1>1, <1>5, <1>6, Induction
<1>8. ParsedUpTo(parsed[Len(argv)], base, pairs, n)
  BY <1>1, <1>7
<1> QED
  BY <1>8 DEF parsed, argv, base

\* The first of the lines that name a setting, and the last of the arguments.
LEMMA FirstAndLast ==
  ASSUME NEW list, Len(list) \in Nat, NEW s, Of(s, list) # {}
  PROVE  /\ \E m \in Of(s, list) : \A j \in Of(s, list) : m <= j
         /\ \E m \in Of(s, list) : \A j \in Of(s, list) : j <= m
<1> DEFINE n == Len(list)
           U == {n - i : i \in Of(s, list)}
<1>1. n \in Nat /\ Of(s, list) \subseteq 1..n
  BY DEF Of
<1>2. \E m \in Of(s, list) : \A j \in Of(s, list) : m <= j
  BY <1>1, LeastNatural
<1>3. PICK x \in U : \A y \in U : x <= y
  <2>1. U \subseteq Nat /\ U # {}
    BY <1>1
  <2> HIDE DEF U
  <2> QED
    BY <2>1, LeastNatural
<1>4. PICK m \in Of(s, list) : x = n - m
  BY <1>3
<1>5. ASSUME NEW j \in Of(s, list) PROVE j <= m
  <2>1. n - m <= n - j
    BY <1>3, <1>4
  <2> QED
    BY <1>1, <2>1
<1> QED
  BY <1>2, <1>4, <1>5

\* What the environment has after the file is what it should have.
LEMMA AmbientIsLoaded ==
  ASSUME NEW Text, Unset \notin Text, NEW environment \in [Setting -> Text \cup {Unset}],
         NEW lines \in Seq(Setting \X Text), NEW s \in Setting
  PROVE  Ambient(s, environment, lines) =
           IF loadDotEnv(environment, lines)[s] = Unset THEN ""
           ELSE loadDotEnv(environment, lines)[s]
<1> DEFINE e == loadDotEnv(environment, lines)
           n == Len(lines)
<1>1. n \in Nat /\ LoadedUpTo(e, environment, lines, n)
  <2>1. LoadedUpTo(e, environment, lines, n)
    BY FileIsLoaded, Zenon
  <2> QED
    BY <2>1
<1> HIDE DEF e
<1>2. CASE environment[s] # Unset
  <2>1. e[s] = environment[s]
    BY <1>1, <1>2 DEF LoadedUpTo
  <2>2. Ambient(s, environment, lines) = environment[s]
    BY <1>2 DEF Ambient
  <2> QED
    BY <1>2, <2>1, <2>2 DEF e
<1>3. CASE environment[s] = Unset /\ Of(s, lines) = {}
  <2>1. \A j \in 1..n : lines[j][1] # s
    BY <1>3 DEF Of
  <2>2. e[s] = Unset
    BY <1>1, <1>3, <2>1 DEF LoadedUpTo
  <2>3. Ambient(s, environment, lines) = ""
    BY <1>3 DEF Ambient
  <2> QED
    BY <2>2, <2>3 DEF e
<1>4. CASE environment[s] = Unset /\ Of(s, lines) # {}
  <2> DEFINE m == CHOOSE i \in Of(s, lines) : \A j \in Of(s, lines) : i <= j
  <2>1. m \in Of(s, lines) /\ \A j \in Of(s, lines) : m <= j
    <3>1. \E i \in Of(s, lines) : \A j \in Of(s, lines) : i <= j
      BY <1>1, <1>4, FirstAndLast
    <3> QED
      BY <3>1, Zenon
  <2>2. Ambient(s, environment, lines) = lines[m][2]
    BY <1>4, Zenon DEF Ambient
  <2> HIDE DEF m
  <2>3. m \in 1..n /\ lines[m][1] = s
    BY <2>1 DEF Of
  <2>4. \A j \in 1..m - 1 : lines[j][1] # s
    <3> SUFFICES ASSUME NEW j \in 1..m - 1, lines[j][1] = s PROVE FALSE
      OBVIOUS
    <3>1. j \in 1..n /\ j < m
      BY <1>1, <2>3
    <3>2. j \in Of(s, lines)
      BY <3>1 DEF Of
    <3> QED
      BY <1>1, <2>1, <2>3, <3>1, <3>2
  <2>5. e[s] = lines[m][2]
    BY <1>1, <1>4, <2>3, <2>4 DEF LoadedUpTo
  <2>6. lines[m][2] # Unset
    <3>1. lines[m] \in Setting \X Text
      BY <2>3
    <3> QED
      BY <3>1
  <2> QED
    BY <2>2, <2>5, <2>6 DEF e
<1> QED
  BY <1>2, <1>3, <1>4

\* What the environment and the file give can all be converted.
AmbientConverts(environment, lines) ==
  \A s \in Setting : \/ Ambient(s, environment, lines) = ""
                     \/ Converts(s, Ambient(s, environment, lines))

\* So can the values of the arguments.
ArgumentsConvert(pairs) == \A j \in 1..Len(pairs) : Converts(pairs[j][1], pairs[j][2])

\* A start with what the environment and the file give, or with an error.
StartsWith(base, environment, lines) ==
  IF AmbientConverts(environment, lines)
  THEN /\ base.status = "ok"
       /\ \A s \in Setting :
            base.config[s] = IF Ambient(s, environment, lines) = "" THEN Default[s]
                             ELSE Converted(s, Ambient(s, environment, lines))
  ELSE base.status = "error"

\* What the arguments start from is what the environment and the file say.
LEMMA StartIsAmbient ==
  ASSUME NEW Text, Unset \notin Text, NEW environment \in [Setting -> Text \cup {Unset}],
         NEW lines \in Seq(Setting \X Text)
  PROVE  StartsWith(configFromEnv(loadDotEnv(environment, lines)), environment, lines)
<1> DEFINE e == loadDotEnv(environment, lines)
           given == {s \in Setting : e[s] \notin {Unset, ""}}
           ambient(s) == Ambient(s, environment, lines)
           base == configFromEnv(e)
<1>1. \A s \in Setting : ambient(s) = IF e[s] = Unset THEN "" ELSE e[s]
  BY AmbientIsLoaded, Zenon
<1>2. base = IF \E s \in given : ~Converts(s, e[s])
             THEN [status |-> "error", option |-> "", config |-> Default]
             ELSE [status |-> "ok", option |-> "",
                   config |-> [s \in Setting |-> IF s \in given THEN Converted(s, e[s])
                                                 ELSE Default[s]]]
  BY DEF configFromEnv
<1> HIDE DEF e, ambient, base
<1>3. \A s \in Setting : s \in given <=> ambient(s) # ""
  BY <1>1
<1>4. \A s \in Setting : ambient(s) # "" => ambient(s) = e[s]
  BY <1>1
<1> HIDE DEF given
<1>5. given \subseteq Setting
  BY DEF given
<1>6. (\E s \in given : ~Converts(s, e[s])) <=> ~AmbientConverts(environment, lines)
  BY <1>3, <1>4, <1>5, Zenon DEF AmbientConverts, ambient
<1>7. CASE ~AmbientConverts(environment, lines)
  <2>1. base = [status |-> "error", option |-> "", config |-> Default]
    BY <1>2, <1>6, <1>7, Zenon
  <2>2. base.status = "error"
    BY <2>1
  <2> QED
    BY <1>7, <2>2, Zenon DEF StartsWith, base, e
<1>8. CASE AmbientConverts(environment, lines)
  <2>1. base = [status |-> "ok", option |-> "",
                config |-> [s \in Setting |-> IF s \in given THEN Converted(s, e[s])
                                              ELSE Default[s]]]
    BY <1>2, <1>6, <1>8, Zenon
  <2>2. /\ base.status = "ok"
        /\ base.config = [s \in Setting |-> IF s \in given THEN Converted(s, e[s])
                                            ELSE Default[s]]
    BY <2>1
  <2>3. ASSUME NEW s \in Setting
        PROVE  base.config[s] = IF ambient(s) = "" THEN Default[s] ELSE Converted(s, ambient(s))
    BY <1>3, <1>4, <2>2
  <2> QED
    BY <1>8, <2>2, <2>3, Zenon DEF StartsWith, base, e, ambient
<1> QED
  BY <1>7, <1>8

\* No token of options with such values is --env-file: the file is .env.
LEMMA FileIsDotEnv ==
  ASSUME NEW Text, "--env-file" \notin Text, NEW pairs \in Seq(Setting \X Text)
  PROVE  extractEnvFile(CommandLine(pairs)) = ".env"
<1> DEFINE argv == CommandLine(pairs)
           n == Len(pairs)
<1>1. n \in Nat /\ Len(argv) = 2 * n
  <2>1. Len(argv) = 2 * n
    BY Tokens, Zenon
  <2> QED
    BY <2>1
<1>2. ASSUME NEW i \in 1..Len(argv) - 1 PROVE argv[i] # "--env-file"
  <2> DEFINE m == (i + 1) \div 2
  <2>1. i \in 1..2 * n /\ m \in 1..n
    BY <1>1
  <2>2. argv[i] = pairs[m][IF i % 2 = 1 THEN 1 ELSE 2]
    BY <2>1 DEF CommandLine
  <2> HIDE DEF m
  <2>3. pairs[m][1] \in Setting /\ pairs[m][2] \in Text
    BY <2>1
  <2>4. argv[i] = pairs[m][1] \/ argv[i] = pairs[m][2]
    BY <2>2
  <2> QED
    BY <2>3, <2>4, ConfigurationAssumption DEF ConfigurationAssumption, OtherOptions
<1> HIDE DEF argv
<1>3. {i \in 1..Len(argv) - 1 : argv[i] = "--env-file"} = {}
  BY <1>2
<1> QED
  BY <1>3, Zenon DEF extractEnvFile, argv

\* What the last argument, the environment or the file gives a setting.
LEMMA LastArgumentCounts ==
  ASSUME NEW pairs, Len(pairs) \in Nat, NEW environment, NEW lines, NEW base, NEW parsed,
         StartsWith(base, environment, lines), AmbientConverts(environment, lines),
         ParsedUpTo(parsed, base, pairs, Len(pairs)), ArgumentsConvert(pairs),
         NEW s \in Setting
  PROVE  parsed.config[s] = Resolved(s, environment, lines, pairs)
<1> DEFINE n == Len(pairs)
<1>1. n \in Nat
  OBVIOUS
<1>2. /\ (\A j \in 1..n : pairs[j][1] # s) => parsed.config[s] = base.config[s]
      /\ \A m \in 1..n :
           pairs[m][1] = s /\ (\A j \in m + 1..n : pairs[j][1] # s)
             => parsed.config[s] = Converted(s, pairs[m][2])
  BY Zenon DEF ParsedUpTo, StartsWith, ArgumentsConvert
<1>3. base.config[s] = IF Ambient(s, environment, lines) = "" THEN Default[s]
                       ELSE Converted(s, Ambient(s, environment, lines))
  BY Zenon DEF StartsWith
<1>4. CASE Of(s, pairs) = {}
  <2>1. \A j \in 1..n : pairs[j][1] # s
    BY <1>4 DEF Of
  <2>2. parsed.config[s] = base.config[s]
    BY <1>2, <2>1
  <2>3. CASE Ambient(s, environment, lines) = ""
    BY <1>3, <1>4, <2>2, <2>3, Zenon DEF Resolved
  <2>4. CASE Ambient(s, environment, lines) # ""
    BY <1>3, <1>4, <2>2, <2>4, Zenon DEF Resolved
  <2> QED
    BY <2>3, <2>4
<1>5. CASE Of(s, pairs) # {}
  <2> DEFINE m == CHOOSE i \in Of(s, pairs) : \A j \in Of(s, pairs) : j <= i
  <2>1. m \in Of(s, pairs) /\ \A j \in Of(s, pairs) : j <= m
    <3>1. \E i \in Of(s, pairs) : \A j \in Of(s, pairs) : j <= i
      BY <1>1, <1>5, FirstAndLast
    <3> QED
      BY <3>1, Zenon
  <2>2. Resolved(s, environment, lines, pairs) = Converted(s, pairs[m][2])
    BY <1>5, Zenon DEF Resolved
  <2> HIDE DEF m
  <2>3. m \in 1..n /\ pairs[m][1] = s
    BY <2>1 DEF Of
  <2>4. \A j \in m + 1..n : pairs[j][1] # s
    <3> SUFFICES ASSUME NEW j \in m + 1..n, pairs[j][1] = s PROVE FALSE
      OBVIOUS
    <3>1. j \in 1..n /\ j > m
      BY <1>1, <2>3
    <3>2. j \in Of(s, pairs)
      BY <3>1 DEF Of
    <3> QED
      BY <1>1, <2>1, <2>3, <3>1, <3>2
  <2> QED
    BY <1>2, <2>2, <2>3, <2>4
<1> QED
  BY <1>4, <1>5

\* Whatever the environment, the lines of the .env file and the options with
\* values on the command line are, the server starts with what server.cpp:168-176
\* says, or ends with an error at a text that is no number.
THEOREM PrecedenceHolds ==
  ASSUME NEW Text, Unset \notin Text, "--env-file" \notin Text,
         NEW environment \in [Setting -> Text \cup {Unset}],
         NEW lines \in Seq(Setting \X Text), NEW pairs \in Seq(Setting \X Text),
         NEW files, lines = IF ".env" \in DOMAIN files THEN files[".env"] ELSE <<>>
  PROVE  Documented(Configured(environment, files, CommandLine(pairs)),
                    environment, lines, pairs)
<1> DEFINE argv == CommandLine(pairs)
           e == loadDotEnv(environment, lines)
           base == configFromEnv(e)
           parsed == Parsed(e, argv)[Len(argv)]
           start == Configured(environment, files, argv)
<1>1. start = parseArgs(e, argv)
  <2>1. extractEnvFile(argv) = ".env"
    BY FileIsDotEnv, Zenon
  <2> HIDE DEF argv
  <2> QED
    BY <2>1, Zenon DEF Configured
<1>2. ParsedUpTo(parsed, base, pairs, Len(pairs))
  BY ArgumentsParsed, Zenon
<1>3. StartsWith(base, environment, lines)
  BY StartIsAmbient, Zenon
<1>4. DOMAIN pairs = 1..Len(pairs) /\ Len(pairs) \in Nat
  OBVIOUS
<1>5. AllConvert(environment, lines, pairs) <=>
        AmbientConverts(environment, lines) /\ ArgumentsConvert(pairs)
  BY <1>4, Zenon DEF AllConvert, AmbientConverts, ArgumentsConvert
<1> HIDE DEF argv, e, base, parsed, start
<1>6. CASE AmbientConverts(environment, lines) /\ ArgumentsConvert(pairs)
  <2>1. parsed.status = "ok" /\ parsed.option = ""
    BY <1>2, <1>3, <1>6, Zenon DEF ParsedUpTo, StartsWith, ArgumentsConvert
  <2>2. start = parsed
    BY <1>1, <2>1, Zenon DEF parseArgs, parsed
  <2>3. ASSUME NEW s \in Setting
        PROVE  start.config[s] = Resolved(s, environment, lines, pairs)
    <3>1. parsed.config[s] = Resolved(s, environment, lines, pairs)
      BY <1>2, <1>3, <1>4, <1>6, LastArgumentCounts
    <3> QED
      BY <2>2, <3>1, Zenon
  <2> QED
    BY <1>5, <1>6, <2>1, <2>2, <2>3, Zenon DEF Documented, start, argv
<1>7. CASE ~(AmbientConverts(environment, lines) /\ ArgumentsConvert(pairs))
  <2>1. "error" # "ok"
    OBVIOUS
  <2>2. parsed.status = "error"
    BY <1>2, <1>3, <1>7, <2>1, Zenon DEF ParsedUpTo, StartsWith, ArgumentsConvert
  <2>3. start = parsed
    BY <1>1, <2>1, <2>2, Zenon DEF parseArgs, parsed
  <2> QED
    BY <1>5, <1>7, <2>1, <2>2, <2>3, Zenon DEF Documented, start, argv
<1> QED
  BY <1>6, <1>7
=============================================================================
