-------------------------- MODULE BotServerProofs --------------------------
(***************************************************************************)
(* Theorems about the configuration and the life cycle of a bot, for any   *)
(* files and environments, and any number of calls of `run`.               *)
(*                                                                         *)
(* The argument: what is loaded for a key is what was written for it, but  *)
(* for the spelling of a number or boolean in a text of the environment    *)
(* (LoadedIsWritten).  Everything else follows from that value: a bot that *)
(* is ready passed all the checks, a bot that is not ready runs nothing,   *)
(* and a call of `run` that binds has the limits of the configuration.     *)
(***************************************************************************)
EXTENDS BotServer, TLAPS

\* What both sources hold together.
Raw == Merged(file, EnvSource)

LEMMA SectionsOfKeys ==
  /\ \A s \in DOMAIN Sections : \A k \in Sections[s] : k \in Keys /\ SectionOf(k) = s
  /\ \A k \in Keys : SectionOf(k) \in DOMAIN Sections /\ k \in Sections[SectionOf(k)]
<1>1. \A k \in Sections.server : SectionOf(k) = "server"
  BY DEF SectionOf, Sections
<1>2. \A k \in Sections.threema : SectionOf(k) = "threema"
  BY DEF SectionOf, Sections
<1>3. \A k \in Sections.rate_limiting : SectionOf(k) = "rate_limiting"
  BY DEF SectionOf, Sections
<1>4. DOMAIN Sections = {"server", "threema", "rate_limiting"}
  BY DEF Sections
<1>5. \A s \in DOMAIN Sections : \A k \in Sections[s] : k \in Keys /\ SectionOf(k) = s
  BY <1>1, <1>2, <1>3, <1>4 DEF Keys
<1> QED
  BY <1>5 DEF Keys

LEMMA KeysAre ==
  Keys = {"host", "port", "webhook_path", "message_id_cache_size",
          "max_webhook_age_seconds", "gateway_id", "private_key", "api_secret",
          "api_url", "allowed_users", "enabled", "messages_per_minute",
          "messages_per_hour"}
  BY DEF Keys, Sections

\* The environment becomes a source key by key.
LEMMA EnvSourceLooksUp ==
  ASSUME NEW s, NEW k
  PROVE  /\ k \in DOMAIN Section(EnvSource, s) <=> k \in DOMAIN Section(env, s)
         /\ k \in DOMAIN Section(env, s)
              => Section(EnvSource, s)[k] = EnvValue(k, Section(env, s)[k])
<1>1. CASE s \in DOMAIN env
  BY <1>1 DEF EnvSource, Section
<1>2. CASE s \notin DOMAIN env
  BY <1>2 DEF EnvSource, Section
<1> QED
  BY <1>1, <1>2

LEMMA MergedLooksUp ==
  ASSUME NEW f, NEW e, NEW s, NEW k
  PROVE  /\ k \in DOMAIN Section(Merged(f, e), s) <=>
               k \in DOMAIN Section(f, s) \/ k \in DOMAIN Section(e, s)
         /\ k \in DOMAIN Section(e, s) => Section(Merged(f, e), s)[k] = Section(e, s)[k]
         /\ k \in DOMAIN Section(f, s) /\ k \notin DOMAIN Section(e, s)
               => Section(Merged(f, e), s)[k] = Section(f, s)[k]
<1>1. CASE s \in DOMAIN f \cup DOMAIN e
  <2>1. Section(Merged(f, e), s) = Over(Section(e, s), Section(f, s))
    BY <1>1 DEF Merged, Section
  <2> QED
    BY <2>1 DEF Over
<1>2. CASE s \notin DOMAIN f \cup DOMAIN e
  BY <1>2 DEF Merged, Section
<1> QED
  BY <1>1, <1>2

LEMMA RawLooksUp ==
  ASSUME NEW k \in Keys
  PROVE  /\ k \in DOMAIN Section(Raw, SectionOf(k))
              <=> IsWritten(env, k) \/ IsWritten(file, k)
         /\ IsWritten(env, k) => Section(Raw, SectionOf(k))[k] = EnvValue(k, Written(k))
         /\ ~IsWritten(env, k) /\ IsWritten(file, k)
              => Section(Raw, SectionOf(k))[k] = Written(k)
<1> DEFINE s == SectionOf(k)
<1>1. IsWritten(env, k) => Written(k) = Section(env, s)[k]
  BY DEF Written, IsWritten, Section
<1>2. ~IsWritten(env, k) /\ IsWritten(file, k) => Written(k) = Section(file, s)[k]
  BY DEF Written, IsWritten, Section
<1> QED
  BY <1>1, <1>2, EnvSourceLooksUp, MergedLooksUp DEF Raw, IsWritten

\* What is loaded for a key is what was written for it; only the environment's
\* texts for text fields may be respelled.
Faithful(c, k) ==
  /\ c # "bad"
  /\ c = Written(k) \/ (k \in TextKeys /\ IsWritten(env, k) /\ c = Respelled(Written(k)))

LEMMA LoadedIsWritten ==
  ASSUME Deserializes(Raw), NEW k \in Keys
  PROVE  Faithful(Deserialized(Raw)[k], k)
<1> DEFINE s == SectionOf(k)
           c == Deserialized(Raw)[k]
<1>1. s \in DOMAIN Sections /\ k \in Sections[s]
  BY SectionsOfKeys
<1>2. CASE k \in DOMAIN Section(Raw, s)
  <2>1. s \in DOMAIN Raw /\ Section(Raw, s) = Raw[s]
    BY <1>2 DEF Section
  <2>2. c = Raw[s][k]
    BY <1>2, <2>1 DEF Deserialized
  <2>3. c # "bad"
    BY <1>2, <2>1, <2>2 DEF Deserializes
  <2>4. IsWritten(env, k) \/ IsWritten(file, k)
    BY <1>2, RawLooksUp
  <2>5. CASE IsWritten(env, k)
    <3>1. c = EnvValue(k, Written(k))
      BY <2>1, <2>2, <2>5, RawLooksUp
    <3> QED
      BY <2>3, <2>5, <3>1 DEF EnvValue, Faithful
  <2>6. CASE ~IsWritten(env, k)
    BY <2>1, <2>2, <2>3, <2>4, <2>6, RawLooksUp DEF Faithful
  <2> QED
    BY <2>5, <2>6
<1>3. CASE k \notin DOMAIN Section(Raw, s)
  <2>1. ~IsWritten(env, k) /\ ~IsWritten(file, k)
    BY <1>3, RawLooksUp
  <2>2. k \in DOMAIN Default
    BY <1>3 DEF Deserializes, Required
  <2>3. Written(k) = Default[k]
    BY <2>1, <2>2 DEF Written
  <2>4. c = Default[k]
    <3>1. CASE s \in DOMAIN Raw
      BY <1>3, <3>1 DEF Deserialized, Section
    \* Other sections hold required keys, and cannot be missing.
    <3>2. CASE s \notin DOMAIN Raw
      <4>1. s = "rate_limiting"
        <5>1. s # "server"
          <6>1. "host" \in Required /\ "host" \in Sections.server
            BY KeysAre DEF Required, Default, Sections
          <6>2. SectionOf("host") = "server"
            BY <6>1, SectionsOfKeys DEF Sections
          <6> QED
            BY <3>2, <6>1, <6>2 DEF Deserializes, Section
        <5>2. s # "threema"
          <6>1. "gateway_id" \in Required /\ "gateway_id" \in Sections.threema
            BY KeysAre DEF Required, Default, Sections
          <6>2. SectionOf("gateway_id") = "threema"
            BY <6>1, SectionsOfKeys DEF Sections
          <6> QED
            BY <3>2, <6>1, <6>2 DEF Deserializes, Section
        <5> QED
          BY <1>1, <5>1, <5>2 DEF Sections
      <4>2. c = RateLimitingDefault[k]
        BY <3>2 DEF Deserialized
      <4> QED
        BY <1>1, <4>1, <4>2 DEF RateLimitingDefault
    <3> QED
      BY <3>1, <3>2
  <2>5. Default[k] # "bad"
    BY <2>2 DEF Default
  <2> QED
    BY <2>3, <2>4, <2>5 DEF Faithful
<1> QED
  BY <1>2, <1>3

\* A configuration that does not load has a value its key cannot hold, or lacks
\* one it must have.
LEMMA UnloadedHasReason ==
  ASSUME file \in Files, env \in Environments, ~Deserializes(Raw)
  PROVE  \/ \E k \in Keys : Written(k) \in {"bad", Nothing}
         \/ Written("allowed_users") = ""
         \/ IsNumericEntry
<1>1. CASE \E k \in Required : k \notin DOMAIN Section(Raw, SectionOf(k))
  <2>1. PICK k \in Required : k \notin DOMAIN Section(Raw, SectionOf(k))
    BY <1>1
  <2>2. k \in Keys /\ k \notin DOMAIN Default
    BY DEF Required
  <2>3. Written(k) = Nothing
    BY <2>1, <2>2, RawLooksUp DEF Written
  <2> QED
    BY <2>2, <2>3
<1>2. CASE \E s \in DOMAIN Raw : \E k \in DOMAIN Raw[s] : Raw[s][k] = "bad"
  <2>1. PICK s \in DOMAIN Raw : \E k \in DOMAIN Raw[s] : Raw[s][k] = "bad"
    BY <1>2
  <2>2. PICK k \in DOMAIN Raw[s] : Raw[s][k] = "bad"
    BY <2>1
  <2>3. Section(Raw, s) = Raw[s]
    BY DEF Section
  <2>4. k \in DOMAIN Section(file, s) \/ k \in DOMAIN Section(env, s)
    BY <2>3, EnvSourceLooksUp, MergedLooksUp DEF Raw
  <2>5. s \in DOMAIN Sections /\ k \in Sections[s]
    BY <2>4, BotServerAssumption DEF Section
  <2>6. k \in Keys /\ SectionOf(k) = s
    BY <2>5, SectionsOfKeys
  <2>7. CASE IsWritten(env, k)
    <3>1. EnvValue(k, Written(k)) = "bad"
      BY <2>2, <2>3, <2>6, <2>7, RawLooksUp
    <3>2. CASE k \in ListKeys
      <4>1. /\ k = "allowed_users"
            /\ Written(k) = "bad" \/ Written(k) = "" \/ Written(k) \in Scalars
        BY <3>1, <3>2 DEF EnvValue, ListKeys, TextKeys
      <4>2. CASE Written(k) \in Scalars
        BY <2>7, <4>1, <4>2 DEF IsNumericEntry
      <4> QED
        BY <2>6, <4>1, <4>2
    <3>3. CASE k \notin ListKeys
      <4>1. Written(k) = "bad"
        BY <3>1, <3>3 DEF EnvValue, Respelled
      <4> QED
        BY <2>6, <4>1
    <3> QED
      BY <3>2, <3>3
  <2>8. CASE ~IsWritten(env, k)
    BY <2>2, <2>3, <2>6, <2>8, RawLooksUp
  <2> QED
    BY <2>7, <2>8
<1> QED
  BY <1>1, <1>2 DEF Deserializes

\* A value the code compares is of a kind it knows.
LEMMA WrittenIsKnown ==
  ASSUME file \in Files, env \in Environments, NEW k \in Keys
  PROVE  /\ Written(k) # "none"
         /\ k \in DOMAIN Values => Written(k) \in Values[k]
<1>1. CASE IsWritten(env, k)
  <2>1. /\ SectionOf(k) \in DOMAIN env /\ k \in DOMAIN env[SectionOf(k)]
        /\ Written(k) = env[SectionOf(k)][k]
    BY <1>1 DEF IsWritten, Section, Written
  <2> QED
    BY <2>1, BotServerAssumption
<1>2. CASE ~IsWritten(env, k) /\ IsWritten(file, k)
  <2>1. /\ SectionOf(k) \in DOMAIN file /\ k \in DOMAIN file[SectionOf(k)]
        /\ Written(k) = file[SectionOf(k)][k]
    BY <1>2 DEF IsWritten, Section, Written
  <2> QED
    BY <2>1, BotServerAssumption
<1>3. CASE ~IsWritten(env, k) /\ ~IsWritten(file, k)
  <2>1. Written(k) = IF k \in DOMAIN Default THEN Default[k] ELSE Nothing
    BY <1>3 DEF Written
  <2>2. Written(k) # "none"
    BY <2>1 DEF Default, Nothing
  <2>3. /\ DOMAIN Values = {"enabled", "api_url"}
        /\ "true" \in Values["enabled"] /\ "standard" \in Values["api_url"]
    BY DEF Values
  <2>4. k = "enabled" => Written(k) = "true"
    BY <2>1 DEF Default
  <2>5. k = "api_url" => Written(k) = "standard"
    BY <2>1 DEF Default
  <2> QED
    BY <2>2, <2>3, <2>4, <2>5
<1> QED
  BY <1>1, <1>2, <1>3

-----------------------------------------------------------------------------

\* A configuration that was loaded from these sources.
Loaded == Deserializes(Raw) /\ config = Deserialized(Raw)

ServerInv ==
  /\ TypeOK
  /\ DOMAIN limiter = Runs
  /\ file \in Files /\ env \in Environments
  /\ phase \in {"loaded", "ready"} => Loaded
  /\ phase = "ready" => /\ Problems(config) = {}
                        /\ client.endpoint = Endpoint(config.api_url)
  /\ phase # "ready" => \A r \in Runs : run[r] = "idle"
  /\ RejectedWithReason
  /\ \A r \in Runs : run[r] \in {"binding", "serving"} => limiter[r] = Limits

LEMMA InitServerInv == Init => ServerInv
  BY DEF Init, ServerInv, TypeOK, NoLimits, RejectedWithReason, Errors

LEMMA LoadKeepsServerInv == ServerInv /\ Load => ServerInv'
<1> SUFFICES ASSUME ServerInv, Load PROVE ServerInv'
  OBVIOUS
<1>1. phase = "start" /\ UNCHANGED <<file, env, commands, client, run, limiter>>
  BY DEF Load, sources
<1>2. CASE Deserializes(Raw)
  <2>1. phase' = "loaded" /\ config' = Deserialized(Raw) /\ error' = error
    BY <1>2 DEF Load, Raw
  <2>2. DOMAIN config' = Keys
    BY <2>1 DEF Deserialized
  <2>3. TypeOK'
    BY <1>1, <2>1, <2>2 DEF ServerInv, TypeOK
  <2>4. Loaded'
    BY <1>1, <1>2, <2>1 DEF Loaded, Raw, EnvSource, Deserializes
  <2> QED
    BY <1>1, <2>1, <2>3, <2>4 DEF ServerInv, RejectedWithReason
<1>3. CASE ~Deserializes(Raw)
  <2>1. phase' = "rejected" /\ error' = "load"
    BY <1>3 DEF Load, Raw
  <2>2. TypeOK'
    BY <1>1, <2>1 DEF ServerInv, TypeOK, Errors
  <2>3. \/ \E k \in Keys : Written(k) \in {"bad", Nothing}
        \/ Written("allowed_users") = ""
        \/ IsNumericEntry
    BY <1>3, UnloadedHasReason DEF ServerInv
  <2>4. RejectedWithReason'
    BY <1>1, <2>1, <2>3 DEF RejectedWithReason, IsNumericEntry, Written, IsWritten
  <2> QED
    BY <1>1, <2>1, <2>2, <2>4 DEF ServerInv
<1> QED
  BY <1>2, <1>3

\* The values the checks look at.
LEMMA LoadedValues ==
  ASSUME ServerInv, Loaded
  PROVE  \A k \in Keys : Faithful(config[k], k)
  BY LoadedIsWritten DEF Loaded

LEMMA NewKeepsServerInv == ServerInv /\ New => ServerInv'
<1> SUFFICES ASSUME ServerInv, New PROVE ServerInv'
  OBVIOUS
<1>1. /\ phase = "loaded" /\ UNCHANGED <<file, env, commands, config, run, limiter>>
      /\ Loaded
  BY DEF New, sources, ServerInv
<1>2. Loaded'
  BY <1>1 DEF Loaded, Raw, EnvSource, Deserializes
<1>3. /\ Faithful(config.gateway_id, "gateway_id")
      /\ Faithful(config.api_secret, "api_secret")
  BY <1>1, LoadedValues, KeysAre
<1>4. /\ Faithful(config.messages_per_minute, "messages_per_minute")
      /\ Faithful(config.messages_per_hour, "messages_per_hour")
  BY <1>1, LoadedValues, KeysAre
<1>5. ASSUME NEW problem \in {"gatewayId", "apiSecret", "rateLimit", "client", "commands"},
             Reject(problem),
             problem = "gatewayId" => config.gateway_id # "*GATEWAY",
             problem = "apiSecret" => config.api_secret = "",
             problem = "rateLimit" => "0" \in {config.messages_per_minute,
                                               config.messages_per_hour},
             problem = "commands" => ~commands
      PROVE  ServerInv'
  <2>1. phase' = "rejected" /\ error' = problem
    BY <1>5 DEF Reject
  <2>2. TypeOK'
    BY <1>1, <1>5, <2>1 DEF Reject, ServerInv, TypeOK, Errors
  <2>3. /\ problem = "gatewayId" => Written("gateway_id") # "*GATEWAY"
        /\ problem = "apiSecret" => Written("api_secret") = ""
        /\ problem = "rateLimit" => \/ Written("messages_per_minute") = "0"
                                    \/ Written("messages_per_hour") = "0"
    BY <1>3, <1>4, <1>5 DEF Faithful, TextKeys, Respelled
  <2>4. /\ Written("gateway_id")' = Written("gateway_id")
        /\ Written("api_secret")' = Written("api_secret")
        /\ Written("messages_per_minute")' = Written("messages_per_minute")
        /\ Written("messages_per_hour")' = Written("messages_per_hour")
        /\ commands' = commands
    BY <1>1 DEF Written, IsWritten
  <2>5. RejectedWithReason'
    BY <1>5, <2>1, <2>3, <2>4 DEF RejectedWithReason
  <2> QED
    BY <1>1, <2>1, <2>2, <2>5 DEF ServerInv
<1>6. CASE Problems(config) # {} /\ Reject(FirstProblem(config))
  <2>1. /\ "gatewayId" \in Problems(config) <=> config.gateway_id # "*GATEWAY"
        /\ "apiSecret" \in Problems(config) <=> config.api_secret = ""
        /\ "rateLimit" \in Problems(config)
             => "0" \in {config.messages_per_minute, config.messages_per_hour}
        /\ Problems(config) \subseteq {"gatewayId", "apiSecret", "rateLimit"}
    BY DEF Problems
  <2> QED
    BY <1>5, <1>6, <2>1 DEF FirstProblem, Errors
<1>7. CASE Reject("client")
  BY <1>5, <1>7 DEF Errors
<1>8. CASE ~commands /\ Reject("commands")
  BY <1>5, <1>8 DEF Errors
<1>9. CASE /\ Problems(config) = {}
           /\ phase' = "ready"
           /\ client' = [endpoint |-> Endpoint(config.api_url), id |-> config.gateway_id,
                         secret |-> config.api_secret, key |-> config.private_key]
           /\ UNCHANGED error
  <2>1. DOMAIN client' = {"endpoint", "id", "secret", "key"}
        /\ client'.endpoint = Endpoint(config.api_url)
    BY <1>9
  <2>2. TypeOK'
    BY <1>1, <1>9, <2>1 DEF ServerInv, TypeOK
  <2> QED
    BY <1>1, <1>2, <1>9, <2>1, <2>2 DEF ServerInv, RejectedWithReason, Problems
<1> QED
  BY <1>6, <1>7, <1>8, <1>9 DEF New

\* The steps of a call of `run` leave the configuration alone.
LEMMA RunKeepsServerInv ==
  ASSUME ServerInv, UNCHANGED <<sources, server>>, phase = "ready",
         NEW r \in Runs,
         NEW stage \in {"idle", "credentials", "binding", "serving", "panicked"},
         Goto(r, stage),
         \/ limiter' = limiter
         \/ limiter' = [limiter EXCEPT ![r] = NoLimits]
         \/ limiter' = [limiter EXCEPT ![r] = Limits],
         stage \in {"binding", "serving"} => limiter'[r] = Limits,
         error' \in Errors \cup {"none"}
  PROVE  ServerInv'
<1>1. UNCHANGED <<file, env, commands, phase, config, client>>
  BY DEF sources, server
<1>2. /\ run' = [run EXCEPT ![r] = stage]
      /\ run \in [Runs -> {"idle", "credentials", "binding", "serving", "panicked"}]
      /\ DOMAIN limiter = Runs
  BY DEF Goto, ServerInv, TypeOK
<1>3. Limits' = Limits /\ DOMAIN Limits = DOMAIN NoLimits
  BY <1>1 DEF Limits, NoLimits
<1>4. DOMAIN limiter' = Runs /\ \A q \in Runs \ {r} : limiter'[q] = limiter[q]
  BY <1>2
<1>5. \A q \in Runs : DOMAIN limiter'[q] = DOMAIN NoLimits
  <2>1. \A q \in Runs : DOMAIN limiter[q] = DOMAIN NoLimits
    BY DEF ServerInv, TypeOK
  <2>2. limiter'[r] \in {limiter[r], NoLimits, Limits}
    BY <1>2
  <2> QED
    BY <1>3, <1>4, <2>1, <2>2
<1>6. TypeOK'
  BY <1>1, <1>2, <1>5 DEF ServerInv, TypeOK
<1>7. \A q \in Runs : run'[q] \in {"binding", "serving"} => limiter'[q] = Limits'
  BY <1>2, <1>3, <1>4 DEF ServerInv
<1>8. phase' \in {"loaded", "ready"} => Loaded'
  BY <1>1 DEF ServerInv, Loaded, Raw, EnvSource, Deserializes
<1> QED
  BY <1>1, <1>4, <1>6, <1>7, <1>8 DEF ServerInv, RejectedWithReason, Problems

LEMMA NextServerInv == ServerInv /\ [Next]_vars => ServerInv'
<1> SUFFICES ASSUME ServerInv, [Next]_vars PROVE ServerInv'
  OBVIOUS
<1>1. /\ run \in [Runs -> {"idle", "credentials", "binding", "serving", "panicked"}]
      /\ DOMAIN limiter = Runs
      /\ error \in Errors \cup {"none"}
      /\ phase # "ready" => \A r \in Runs : run[r] = "idle"
      /\ \A r \in Runs : run[r] \in {"binding", "serving"} => limiter[r] = Limits
  BY DEF ServerInv, TypeOK
<1>2. CASE Load \/ New
  BY <1>2, LoadKeepsServerInv, NewKeepsServerInv
<1>3. ASSUME NEW r \in Runs, Call(r) PROVE ServerInv'
  BY <1>1, <1>3, RunKeepsServerInv DEF Call
<1>4. ASSUME NEW r \in Runs, NEW problem \in Errors, run[r] # "idle", Return(r, problem)
      PROVE  ServerInv'
  BY <1>1, <1>4, RunKeepsServerInv DEF Return
<1>5. ASSUME NEW r \in Runs, CredentialsAccepted(r) PROVE ServerInv'
  <2>1. limiter'[r] = Limits
    BY <1>1, <1>5 DEF CredentialsAccepted
  <2>2. PICK stage \in {"binding", "panicked"} : Goto(r, stage)
    BY <1>5 DEF CredentialsAccepted
  <2> QED
    BY <1>1, <1>5, <2>1, <2>2, RunKeepsServerInv DEF CredentialsAccepted
<1>6. ASSUME NEW r \in Runs, Bind(r) PROVE ServerInv'
  BY <1>1, <1>6, RunKeepsServerInv DEF Bind
<1>7. ASSUME NEW r \in Runs, Interrupt(r) PROVE ServerInv'
  BY <1>1, <1>7, RunKeepsServerInv DEF Interrupt
<1>8. ASSUME NEW r \in Runs, CredentialsRejected(r) \/ BindFails(r) \/ ServeFails(r)
      PROVE  ServerInv'
  BY <1>4, <1>8 DEF CredentialsRejected, BindFails, ServeFails, Errors
<1>9. CASE UNCHANGED vars
  <2>1. UNCHANGED <<file, env, commands, phase, config, client, run, limiter, error>>
    BY <1>9 DEF vars, sources, server
  <2>2. TypeOK' /\ RejectedWithReason'
    BY <2>1 DEF ServerInv, TypeOK, RejectedWithReason, IsNumericEntry, Written, IsWritten
  <2>3. Loaded' <=> Loaded
    BY <2>1 DEF Loaded, Raw, EnvSource, Deserializes
  <2>4. Problems(config)' = Problems(config) /\ Limits' = Limits
    BY <2>1 DEF Problems, Limits
  <2>5. client.endpoint' = client.endpoint
          /\ Endpoint(config.api_url)' = Endpoint(config.api_url)
    BY <2>1 DEF Endpoint
  <2> QED
    BY <2>1, <2>2, <2>3, <2>4, <2>5 DEF ServerInv
<1> QED
  BY <1>2, <1>3, <1>5, <1>6, <1>7, <1>8, <1>9 DEF Next, Step

-----------------------------------------------------------------------------

\* Type correctness of the configuration and the server's life cycle, for any
\* sources and any number of overlapping calls of `run`.
THEOREM BotServerTypeOK == Spec => []TypeOK
<1>1. ServerInv => TypeOK
  BY DEF ServerInv
<1> QED
  BY <1>1, InitServerInv, NextServerInv, PTL DEF Spec

\* A bot that BotServer::new accepted has, for every key, the value that was
\* written for it, and reaches the Gateway where it was told to, whatever else
\* the file and the environment hold (config.rs, client.rs); only a number or a
\* boolean in a text of the environment may be spelled differently.
THEOREM BotServerRunsAsWritten == Spec => []RunsAsWritten
<1>1. ServerInv => RunsAsWritten
  <2> SUFFICES ASSUME ServerInv, phase = "ready"
               PROVE  /\ \A k \in Keys : ~IsRespelled(k) => config[k] = Written(k)
                      /\ client.endpoint = "custom"
                           <=> Written("api_url") \in {"custom", "custom/"}
    BY DEF RunsAsWritten
  <2>1. \A k \in Keys : Faithful(config[k], k)
    BY LoadedValues DEF ServerInv
  <2>2. /\ "api_url" \in Keys /\ "api_url" \in DOMAIN Values
        /\ Values["api_url"] = {"", "/", "standard", "standard/", "custom", "custom/", "bad"}
    BY KeysAre DEF Values
  <2>3. Written("api_url") \in Values["api_url"]
    BY <2>2, WrittenIsKnown DEF ServerInv
  <2>4. config.api_url = Written("api_url") /\ config.api_url # "bad"
    BY <2>1, <2>2, <2>3 DEF Faithful, Respelled
  <2>5. client.endpoint = Endpoint(config.api_url)
    BY DEF ServerInv
  <2> QED
    BY <2>1, <2>2, <2>3, <2>4, <2>5 DEF Faithful, IsRespelled, Endpoint
<1> QED
  BY <1>1, InitServerInv, NextServerInv, PTL DEF Spec

\* BotConfig::load_with_prefix and BotServer::new reject a bot only for a problem
\* that its configuration, the client or the commands really have, or for a single
\* entry of allowed_users in the environment that reads as a number (config.rs).
THEOREM BotServerRejectedWithReason == Spec => []RejectedWithReason
<1>1. ServerInv => RejectedWithReason
  BY DEF ServerInv
<1> QED
  BY <1>1, InitServerInv, NextServerInv, PTL DEF Spec

\* Every call of `run` that binds has a rate limiter of its own with the limits that
\* were written in either source, or their defaults, none of them zero, and has none
\* exactly if rate limiting was switched off (server/mod.rs, config.rs).
THEOREM BotServerLimitedAsWritten == Spec => []LimitedAsWritten
<1>1. ServerInv => LimitedAsWritten
  <2> SUFFICES ASSUME ServerInv, NEW r \in Runs, run[r] \in {"binding", "serving"}
               PROVE  IF Written("enabled") = "false" THEN limiter[r] = NoLimits
                      ELSE \A k \in DOMAIN NoLimits :
                             limiter[r][k] = Written(k) /\ Written(k) \notin {"0", "none"}
    BY DEF LimitedAsWritten
  <2>1. /\ phase = "ready" /\ Loaded /\ Problems(config) = {}
        /\ limiter[r] = Limits
    BY DEF ServerInv
  <2>2. \A k \in {"enabled", "messages_per_minute", "messages_per_hour"} :
          k \in Keys /\ config[k] = Written(k) /\ config[k] # "bad"
    BY <2>1, LoadedValues, KeysAre DEF Faithful, TextKeys
  <2>3. Written("enabled") \in {"true", "false"}
    BY <2>2, WrittenIsKnown DEF ServerInv, Values
  <2>4. Written("messages_per_minute") # "none" /\ Written("messages_per_hour") # "none"
    BY <2>2, WrittenIsKnown DEF ServerInv
  <2>5. CASE Written("enabled") = "false"
    BY <2>1, <2>2, <2>5 DEF Limits
  <2>6. CASE Written("enabled") = "true"
    <3>1. /\ limiter[r].messages_per_minute = Written("messages_per_minute")
          /\ limiter[r].messages_per_hour = Written("messages_per_hour")
      BY <2>1, <2>2, <2>6 DEF Limits
    <3>2. "0" \notin {config.messages_per_minute, config.messages_per_hour}
      <4>1. "rateLimit" \notin Problems(config)
        BY <2>1
      <4> QED
        BY <2>2, <2>6, <4>1 DEF Problems
    <3>3. DOMAIN NoLimits = {"messages_per_minute", "messages_per_hour"}
      BY DEF NoLimits
    <3> QED
      BY <2>2, <2>4, <2>6, <3>1, <3>2, <3>3
  <2> QED
    BY <2>3, <2>5, <2>6
<1> QED
  BY <1>1, InitServerInv, NextServerInv, PTL DEF Spec

=============================================================================
