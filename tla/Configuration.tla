--------------------------- MODULE Configuration ---------------------------
(***************************************************************************)
(* What an application can ask of its client and of its server before they *)
(* are built: the configurations, the setters of the builders, and what    *)
(* build makes of them.  Settings that do not show on the wire only leave  *)
(* their name in given.                                                    *)
(***************************************************************************)
EXTENDS Codecs, Pipeline

ClientKinds == {"simple", "observer", "flare", "direct"}
ServerKinds == {"simple", "observer", "flare"}

ClientDefaults ==
  [transport |-> "websocket", transports |-> <<>>, format |-> "json",
   compression |-> "none", force_format |-> "none", force_compression |-> "unset",
   encryption |-> "none", reconnect_on_send |-> TRUE,
   middlewares |-> <<>>, processors |-> <<>>, given |-> {}]

ServerDefaults ==
  [transport |-> "websocket", transports |-> <<>>, format |-> "protobuf",
   compression |-> "none", encryption |-> "none", given |-> {}]

(* What the fields hold, and a configuration that holds it.                *)
Transports == {"websocket", "quic", "tcp"}
ClientTypes ==
  [transport |-> Transports, transports |-> Seq(Transports), format |-> Formats,
   compression |-> CompressionNames, force_format |-> Formats \cup {"none"},
   force_compression |-> CompressionNames \cup {"unset"},
   encryption |-> EncryptionNames, reconnect_on_send |-> BOOLEAN,
   middlewares |-> Seq(Middleware), processors |-> Seq(Processor),
   given |-> SUBSET STRING]
ServerTypes ==
  [transport |-> Transports, transports |-> Seq(Transports), format |-> Formats,
   compression |-> CompressionNames, encryption |-> EncryptionNames,
   given |-> SUBSET STRING]
Typed(cfg, types) ==
  DOMAIN cfg = DOMAIN types /\ \A f \in DOMAIN types : cfg[f] \in types[f]

(* The field a setter writes.                                              *)
ClientFields ==
  [with_protocol |-> "transport", with_protocol_race |-> "transports",
   with_format |-> "format", with_compression |-> "compression",
   force_format |-> "force_format", force_compression |-> "force_compression",
   with_reconnect_on_send |-> "reconnect_on_send", metadata |-> "encryption"]
ClientLists == [with_middleware |-> "middlewares", with_processor |-> "processors"]
ListElements == [with_middleware |-> Middleware, with_processor |-> Processor]
ServerFields ==
  [with_protocol |-> "transport", with_protocols |-> "transports",
   with_default_format |-> "format", with_default_compression |-> "compression",
   with_default_encryption |-> "encryption"]

(* The value a setter takes is one of the field it writes.                 *)
ClientCall(name, value) ==
  /\ name \in DOMAIN ClientLists => value \in ListElements[name]
  /\ name \in DOMAIN ClientFields => value \in ClientTypes[ClientFields[name]]
ServerCall(name, value) ==
  name \in DOMAIN ServerFields => value \in ServerTypes[ServerFields[name]]

SetClient(cfg, name, value) ==
  IF name \in DOMAIN ClientLists
  THEN [cfg EXCEPT ![ClientLists[name]] = Append(@, value)]
  ELSE IF name \in DOMAIN ClientFields
  THEN [cfg EXCEPT ![ClientFields[name]] = value]
  ELSE [cfg EXCEPT !.given = @ \cup {name}]
SetServer(cfg, name, value) ==
  IF name \in DOMAIN ServerFields
  THEN [cfg EXCEPT ![ServerFields[name]] = value]
  ELSE [cfg EXCEPT !.given = @ \cup {name}]

(* The setters of BaseClientBuilderConfig, and what each builder offers of *)
(* them; a ClientConfig used directly has public fields as well.           *)
BaseClientSetters ==
  {"with_protocol", "with_protocol_race", "with_protocol_url", "with_user_id",
   "with_token", "with_format", "with_compression", "force_format",
   "force_compression", "with_device_info", "with_heartbeat", "with_tls",
   "with_connect_timeout", "with_race_timeout", "with_reconnect_interval",
   "with_max_reconnect_attempts", "with_reconnect_on_send", "enable_router"}
NegotiatedOnly == {"force_format", "force_compression", "with_race_timeout"}
FlareClientSetters ==
  BaseClientSetters \cup {"with_listener", "with_middleware", "with_processor",
                          "with_observer"}
SimpleClientSetters ==
  (BaseClientSetters \ NegotiatedOnly) \cup {"on_message", "on_event"}
ObserverClientSetters ==
  (BaseClientSetters \ NegotiatedOnly) \cup {"with_observer", "with_event_handler"}
DirectClientSetters == BaseClientSetters \cup {"metadata"}

ClientSetters ==
  [simple |-> SimpleClientSetters, observer |-> ObserverClientSetters,
   flare |-> FlareClientSetters, direct |-> DirectClientSetters]

BaseServerSetters ==
  {"with_authenticator", "enable_auth", "with_auth_timeout",
   "with_shutdown_close_grace", "with_protocol", "with_protocols",
   "with_protocol_address", "with_default_format", "with_default_compression",
   "with_default_encryption", "with_max_connections", "with_handshake_timeout",
   "with_max_handshake_concurrency", "with_write_timeout",
   "with_fanout_concurrency", "with_connection_timeout", "with_heartbeat",
   "with_tls", "with_device_conflict_strategy"}
FlareOnly == {"with_default_encryption", "with_connection_timeout",
              "with_device_conflict_strategy"}
FlareServerSetters ==
  BaseServerSetters \cup {"with_connection_manager", "with_device_manager",
                          "with_middleware", "with_processor"}
SimpleServerSetters ==
  (BaseServerSetters \ (FlareOnly \cup {"with_protocol_address"}))
    \cup {"on_message", "on_connect", "on_disconnect"}
ObserverServerSetters ==
  (BaseServerSetters \ FlareOnly) \cup {"with_connection_manager", "with_device_manager"}

ServerSetters ==
  [simple |-> SimpleServerSetters, observer |-> ObserverServerSetters,
   flare |-> FlareServerSetters]

-----------------------------------------------------------------------------
IsForced(cfg) == cfg.force_format # "none" \/ cfg.force_compression # "unset"
GetFormat(cfg) == IF cfg.force_format # "none" THEN cfg.force_format ELSE cfg.format
GetCompression(cfg) ==
  IF cfg.force_compression # "unset" THEN cfg.force_compression ELSE cfg.compression
IsRace(cfg) == Len(cfg.transports) > 1

(* build: a listener, or an observer, must be there.                       *)
FlareClientBuilds(cfg) == "with_listener" \in cfg.given

(* Mutant: the listener comes behind the other processors.                 *)
FlarePipeline_ListenerLast(cfg, listener) ==
  [NewPipeline EXCEPT !.middlewares = cfg.middlewares,
                      !.processors = Append(cfg.processors, listener)]

(* Its pipeline: the middlewares, the listener, the other processors.      *)
FlarePipeline(cfg, listener) ==
  AddProcessors(AddMiddlewares(NewPipeline, cfg.middlewares),
                <<listener>> \o cfg.processors)

ObserverClientBuilds(cfg) == "with_observer" \in cfg.given
ClientBuilds(kind, cfg) ==
  CASE kind = "flare" -> FlareClientBuilds(cfg)
    [] kind = "observer" -> ObserverClientBuilds(cfg)
    [] OTHER -> TRUE

ValidAuth(cfg) == "enable_auth" \in cfg.given => "with_authenticator" \in cfg.given
ServerBuilds(kind, cfg) == kind = "simple" \/ ValidAuth(cfg)

(* auth_enabled of the core.                                               *)
AuthEnabled(cfg) == {"enable_auth", "with_authenticator"} \subseteq cfg.given
=============================================================================
