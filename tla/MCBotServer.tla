---------------------------- MODULE MCBotServer ----------------------------
(***************************************************************************)
(* BotServer with a file that holds the required keys and differs from     *)
(* that in up to one key or section, and up to two keys in the             *)
(* environment.                                                            *)
(***************************************************************************)
EXTENDS BotServer, TLC

Complete ==
  [server |-> [host |-> "host", port |-> "8080", webhook_path |-> "/webhook"],
   threema |-> [gateway_id |-> "*GATEWAY", private_key |-> "key", api_secret |-> "secret"]]

\* Values that matter, next to those of Complete.
Texts ==
  [host |-> {"host"}, port |-> {"8080", "bad"}, webhook_path |-> {"webhook"},
   message_id_cache_size |-> {"0", "bad"}, max_webhook_age_seconds |-> {"0", "bad"},
   gateway_id |-> {"PERSONAL", "bad"}, private_key |-> {"key", "bad"},
   api_secret |-> {"", "a,b", "007", "TRUE"}, api_url |-> {"/", "standard/", "custom/"},
   allowed_users |-> {"anyone", "ECHOECHO,ABCD1234", "12345678", "bad"},
   enabled |-> {"true", "false", "bad"}, messages_per_minute |-> {"0", "bad"},
   messages_per_hour |-> {"0", "1000"}]

Entry(k, v) == SectionOf(k) :> (k :> v)
Entries == UNION {{Entry(k, v) : v \in Texts[k]} : k \in Keys}

\* In the environment, an empty text is no list.
EnvEntries ==
  (Entries \ {Entry("allowed_users", "anyone")}) \cup {Entry("allowed_users", "")}

Without(k) == [Complete EXCEPT ![SectionOf(k)] = [l \in DOMAIN @ \ {k} |-> @[l]]]

SomeFiles ==
  {Complete, << >>, [threema |-> Complete.threema], [server |-> Complete.server]}
    \cup {Merged(Complete, e) : e \in Entries}
    \cup {Without(k) : k \in Required}

SomeEnvironments == {Merged(d, e) : d, e \in EnvEntries} \cup {<< >>, Complete}

=============================================================================
