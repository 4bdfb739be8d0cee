----------------------------- MODULE BotServer -----------------------------
(***************************************************************************)
(* From the configuration to a serving bot: loading the configuration from *)
(* a file and the environment (config.rs), BotServer::new and its checks,  *)
(* and the calls of BotServer::run (server/mod.rs, client.rs), which may   *)
(* fail, be repeated and overlap, since `run` borrows the server only.     *)
(*                                                                         *)
(* A source is a partial function of sections to partial functions of keys *)
(* to values.  Values are strings that stand for a kind of value; "bad" is *)
(* any value that the key's type cannot hold.                              *)
(***************************************************************************)
EXTENDS Naturals, FiniteSets

CONSTANTS
  Files,          \* what the file may hold; the empty function: there is none
  Environments,   \* what the environment may hold
  Runs            \* overlapping calls of `run`

Sections ==
  [server |-> {"host", "port", "webhook_path", "message_id_cache_size",
               "max_webhook_age_seconds"},
   threema |-> {"gateway_id", "private_key", "api_secret", "api_url", "allowed_users"},
   rate_limiting |-> {"enabled", "messages_per_minute", "messages_per_hour"}]

Keys == UNION {Sections[s] : s \in DOMAIN Sections}

SectionOf(k) == CHOOSE s \in DOMAIN Sections : k \in Sections[s]

Default ==
  [message_id_cache_size |-> "100000", max_webhook_age_seconds |-> "300",
   api_url |-> "standard", allowed_users |-> "anyone",
   enabled |-> "true", messages_per_minute |-> "20", messages_per_hour |-> "100"]

Required == Keys \ DOMAIN Default

\* The kinds of values that the code tells apart, for keys whose value it uses.
Values ==
  [enabled |-> {"true", "false", "bad"},
   api_url |-> {"", "/", "standard", "standard/", "custom", "custom/", "bad"}]

\* A source holds some of the sections, with some of their keys; "none" stands
\* for no limit and is not a value.
ASSUME BotServerAssumption ==
  \A source \in Files \cup Environments :
    /\ DOMAIN source \subseteq DOMAIN Sections
    /\ \A s \in DOMAIN source :
         /\ DOMAIN source[s] \subseteq Sections[s]
         /\ \A k \in DOMAIN source[s] :
              /\ source[s][k] # "none"
              /\ k \in DOMAIN Values => source[s][k] \in Values[k]

\* What stands in for a missing section.
RateLimitingDefault == [k \in Sections.rate_limiting |-> Default[k]]

VARIABLES
  file, env,    \* the sources
  commands,     \* whether the registered commands are valid
  phase,        \* "start", "loaded", "ready" or "rejected"
  config,       \* the loaded BotConfig
  client,       \* what the Gateway client was built with
  run,          \* run[r]: where a call of `run` is
  limiter,      \* limiter[r]: the limits of its rate limiter
  error         \* the last error that was returned

sources == <<file, env, commands>>
server == <<phase, config, client>>
vars == <<sources, server, run, limiter, error>>

Nothing == "nothing"
NoLimits == [messages_per_minute |-> "none", messages_per_hour |-> "none"]

Errors == {"load", "gatewayId", "apiSecret", "rateLimit", "client", "commands",
           "credentials", "bind", "serve"}

TypeOK ==
  /\ phase \in {"start", "loaded", "ready", "rejected"}
  /\ phase \in {"loaded", "ready"} => DOMAIN config = Keys
  /\ phase = "ready" => DOMAIN client = {"endpoint", "id", "secret", "key"}
  /\ run \in [Runs -> {"idle", "credentials", "binding", "serving", "panicked"}]
  /\ \A r \in Runs : DOMAIN limiter[r] = DOMAIN NoLimits
  /\ error \in Errors \cup {"none"}

Init ==
  /\ file \in Files
  /\ env \in Environments
  /\ commands \in BOOLEAN
  /\ phase = "start"
  /\ config = Nothing
  /\ client = Nothing
  /\ run = [r \in Runs |-> "idle"]
  /\ limiter = [r \in Runs |-> NoLimits]
  /\ error = "none"

-----------------------------------------------------------------------------

ListKeys == {"allowed_users"}
TextKeys == {"host", "webhook_path", "gateway_id", "private_key", "api_secret", "api_url"}

\* What reads as a number or a boolean, and what a text field makes of that: a
\* number loses its leading zeros, and a boolean its capitals.
Scalars == {"007", "12345678", "TRUE"}
Respelled(text) ==
  CASE text = "007" -> "7"
    [] text = "TRUE" -> "true"
    [] OTHER -> text

\* Faulty: without list keys, every text with the separator becomes a list.
EnvValueOfAnyList(k, text) == IF text = "a,b" THEN "bad" ELSE text

\* env_source: what a text of the environment becomes.  It is read as a number or a
\* boolean if it can be, before a list is split: a list of one entry that consists of
\* digits becomes a number, which is no list.  Of an empty text the one entry is no
\* Threema ID.
EnvValue(k, text) ==
  CASE k \in ListKeys -> IF text \in Scalars \cup {""} THEN "bad" ELSE text
    [] k \in TextKeys -> Respelled(text)
    [] OTHER -> text

EnvSource == [s \in DOMAIN env |-> [k \in DOMAIN env[s] |-> EnvValue(k, env[s][k])]]

Section(source, s) == IF s \in DOMAIN source THEN source[s] ELSE << >>

\* The entries of m, and those of n for other keys.
Over(m, n) == [k \in DOMAIN m \cup DOMAIN n |-> IF k \in DOMAIN m THEN m[k] ELSE n[k]]

\* Faulty: the file takes precedence.
MergedFileFirst(f, e) ==
  [s \in DOMAIN f \cup DOMAIN e |-> Over(Section(f, s), Section(e, s))]

\* The later source takes precedence, key by key.
Merged(f, e) ==
  [s \in DOMAIN f \cup DOMAIN e |-> Over(Section(e, s), Section(f, s))]

\* try_deserialize: a section that holds required keys must be there.
Deserializes(raw) ==
  /\ \A k \in Required : k \in DOMAIN Section(raw, SectionOf(k))
  /\ \A s \in DOMAIN raw : \A k \in DOMAIN raw[s] : raw[s][k] # "bad"

\* Faulty: keys that are not written are left out.
DeserializedBare(raw) ==
  [k \in {l \in Keys : l \in DOMAIN Section(raw, SectionOf(l))} |-> raw[SectionOf(k)][k]]

\* A missing key has its own default, a missing section RateLimitingConfig's.
Deserialized(raw) ==
  [k \in Keys |->
     LET s == SectionOf(k)
     IN  CASE s \notin DOMAIN raw -> RateLimitingDefault[k]
           [] s \in DOMAIN raw /\ k \in DOMAIN raw[s] -> raw[s][k]
           [] OTHER -> Default[k]]

\* BotConfig::load_with_prefix.
Load ==
  /\ phase = "start"
  /\ LET raw == Merged(file, EnvSource)
     IN  IF Deserializes(raw)
         THEN phase' = "loaded" /\ config' = Deserialized(raw) /\ UNCHANGED error
         ELSE phase' = "rejected" /\ error' = "load" /\ UNCHANGED config
  /\ UNCHANGED <<sources, client, run, limiter>>

-----------------------------------------------------------------------------

\* What BotConfig::validate objects to; it returns the first.
Problems(c) ==
  {p \in {"gatewayId", "apiSecret", "rateLimit"} :
     \/ p = "gatewayId" /\ c.gateway_id # "*GATEWAY"
     \/ p = "apiSecret" /\ c.api_secret = ""
     \/ p = "rateLimit" /\ c.enabled = "true"
                        /\ "0" \in {c.messages_per_minute, c.messages_per_hour}}

FirstProblem(c) ==
  CASE "gatewayId" \in Problems(c) -> "gatewayId"
    [] Problems(c) \cap {"gatewayId", "apiSecret"} = {"apiSecret"} -> "apiSecret"
    [] OTHER -> "rateLimit"

\* ThreemaClient::new: slashes at the end are cut off, and what is left is a
\* custom endpoint unless it is empty or the standard one.
Endpoint(url) == IF url \in {"", "/", "standard", "standard/"} THEN "standard" ELSE "custom"

Reject(problem) ==
  /\ phase' = "rejected"
  /\ error' = problem
  /\ UNCHANGED client

\* BotServer::new: the configuration, the client, and then the commands.
New ==
  /\ phase = "loaded"
  /\ \/ Problems(config) # {} /\ Reject(FirstProblem(config))
     \/ Problems(config) = {} /\ Reject("client")
     \/ Problems(config) = {} /\ ~commands /\ Reject("commands")
     \/ /\ Problems(config) = {}
        /\ commands
        /\ phase' = "ready"
        /\ client' = [endpoint |-> Endpoint(config.api_url), id |-> config.gateway_id,
                      secret |-> config.api_secret, key |-> config.private_key]
        /\ UNCHANGED error
  /\ UNCHANGED <<sources, config, run, limiter>>

-----------------------------------------------------------------------------

Goto(r, stage) == run' = [run EXCEPT ![r] = stage]

\* Call r of `run` returns an error; its state is dropped.
Return(r, problem) ==
  /\ Goto(r, "idle")
  /\ error' = problem
  /\ limiter' = [limiter EXCEPT ![r] = NoLimits]
  /\ UNCHANGED <<sources, server>>

Call(r) ==
  /\ phase = "ready"
  /\ run[r] = "idle"
  /\ Goto(r, "credentials")
  /\ UNCHANGED <<sources, server, limiter, error>>

\* validate_api_secret: the Gateway refuses, or cannot be reached.
CredentialsRejected(r) == run[r] = "credentials" /\ Return(r, "credentials")

\* Faulty: the limiter gets its two limits the wrong way round.
LimitsSwapped ==
  IF config.enabled = "true"
  THEN [messages_per_minute |-> config.messages_per_hour,
        messages_per_hour |-> config.messages_per_minute]
  ELSE NoLimits

Limits ==
  IF config.enabled = "true"
  THEN [messages_per_minute |-> config.messages_per_minute,
        messages_per_hour |-> config.messages_per_hour]
  ELSE NoLimits

\* The state of this call is created.  The router panics when the path of a
\* route does not begin with a slash.
CredentialsAccepted(r) ==
  /\ run[r] = "credentials"
  /\ limiter' = [limiter EXCEPT ![r] = Limits]
  /\ Goto(r, IF config.webhook_path = "/webhook" THEN "binding" ELSE "panicked")
  /\ UNCHANGED <<sources, server, error>>

\* The port is free: this call serves.
Bind(r) ==
  /\ run[r] = "binding"
  /\ \A q \in Runs : run[q] # "serving"
  /\ Goto(r, "serving")
  /\ UNCHANGED <<sources, server, limiter, error>>

\* The port is taken, by another process or another call, or not permitted.
BindFails(r) == run[r] = "binding" /\ Return(r, "bind")

ServeFails(r) == run[r] = "serving" /\ Return(r, "serve")

\* The future of a call is dropped.
Interrupt(r) ==
  /\ run[r] \in {"credentials", "binding", "serving"}
  /\ Goto(r, "idle")
  /\ limiter' = [limiter EXCEPT ![r] = NoLimits]
  /\ UNCHANGED <<sources, server, error>>

Step(r) == CredentialsRejected(r) \/ CredentialsAccepted(r) \/ Bind(r) \/ BindFails(r)

Next ==
  \/ Load
  \/ New
  \/ \E r \in Runs : Call(r)
  \/ \E r \in Runs : Step(r)
  \/ \E r \in Runs : ServeFails(r)
  \/ \E r \in Runs : Interrupt(r)

Spec == Init /\ [][Next]_vars

-----------------------------------------------------------------------------

\* What the table in config.rs says of a key, section by section or not: the
\* environment's value, else the file's, else the default.
IsWritten(source, k) == k \in DOMAIN Section(source, SectionOf(k))
Written(k) ==
  CASE IsWritten(env, k) -> env[SectionOf(k)][k]
    [] ~IsWritten(env, k) /\ IsWritten(file, k) -> file[SectionOf(k)][k]
    [] OTHER -> IF k \in DOMAIN Default THEN Default[k] ELSE Nothing

\* The entry of allowed_users is one that a file may hold, and the environment not.
IsNumericEntry ==
  IsWritten(env, "allowed_users") /\ Written("allowed_users") \in Scalars

\* A text of the environment that comes back from parsing in another spelling.
IsRespelled(k) == IsWritten(env, k) /\ Written(k) # Respelled(Written(k))

\* A bot runs with the values that were written for it, whichever source each
\* comes from and whatever else the sources hold (config.rs: environment
\* variables take precedence, other values have defaults); but for a text of the
\* environment that reads as a number or a boolean and is spelled unlike it.
RunsAsWritten ==
  phase = "ready" =>
    /\ \A k \in Keys : ~IsRespelled(k) => config[k] = Written(k)
    /\ client.endpoint = "custom" <=> Written("api_url") \in {"custom", "custom/"}

\* A bot is rejected only for a problem that what was written really has, with one
\* exception: a single entry of allowed_users that consists of digits is a valid
\* list, also by what config.rs says of lists in the environment, and fails to load
\* from there.
RejectedWithReason ==
  phase = "rejected" =>
    CASE error = "load" -> \/ \E k \in Keys : Written(k) \in {"bad", Nothing}
                           \/ Written("allowed_users") = ""
                           \/ IsNumericEntry
      [] error = "gatewayId" -> Written("gateway_id") # "*GATEWAY"
      [] error = "apiSecret" -> Written("api_secret") = ""
      [] error = "rateLimit" -> Written("messages_per_minute") = "0"
                                  \/ Written("messages_per_hour") = "0"
      [] OTHER -> error = "client" \/ ~commands

\* Each call of `run` that is bound to its port, or about to be, has a rate limiter
\* with the limits that were written, or the defaults, and none of them is zero
\* (what RateLimiterAssumption takes for granted); it has none exactly if rate
\* limiting was switched off.  So has each of two calls, and one that is repeated.
LimitedAsWritten ==
  \A r \in Runs : run[r] \in {"binding", "serving"} =>
    IF Written("enabled") = "false" THEN limiter[r] = NoLimits
    ELSE \A k \in DOMAIN NoLimits :
           limiter[r][k] = Written(k) /\ Written(k) \notin {"0", "none"}

=============================================================================
