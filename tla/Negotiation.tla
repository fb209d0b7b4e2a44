----------------------------- MODULE Negotiation -----------------------------
(***************************************************************************)
(* What CONNECT asks for, what the server makes of it, and what CONNECT_ACK*)
(* tells the client.                                                       *)
(***************************************************************************)
EXTENDS Configuration

(* determine_initial_format: the parser a client starts with.              *)
InitialParser(cfg) ==
  IF IsForced(cfg) THEN NewParser(GetFormat(cfg), GetCompression(cfg), "none")
  ELSE PRE_NEGOTIATION_PARSER

(* Of the built-in compressions, the ones this process can undo.           *)
AcceptedCompressions(reg) ==
  {n \in {"gzip", "zstd"} : CompressionRegistered(reg, n)}

(* determine_connect_format: JSON is not asked for, unless it is forced.   *)
ConnectFormat(cfg) ==
  [format |-> IF IsForced(cfg) THEN GetFormat(cfg) ELSE cfg.format,
   compression |-> IF IsForced(cfg) THEN GetCompression(cfg) ELSE cfg.compression,
   sent |-> IsForced(cfg) \/ cfg.format # "json"]

(* build_connect_metadata; config.metadata comes last.                     *)
ConnectMetadata(cfg, reg) ==
  LET wish == ConnectFormat(cfg)
  IN [format |-> IF wish.sent THEN wish.format ELSE "absent",
      compression |-> IF wish.compression = "none" THEN "absent" ELSE wish.compression,
      accept_compression |-> AcceptedCompressions(reg),
      force_format |-> IsForced(cfg),
      encryption |-> IF cfg.encryption = "none" THEN "absent" ELSE cfg.encryption]

(* serialize_connect_frame: a forced client speaks its own format at once. *)
ConnectParser(cfg) ==
  IF IsForced(cfg) THEN InitialParser(cfg) ELSE PRE_NEGOTIATION_PARSER

(* parse_connect_message.                                                  *)
ParseConnect(meta) ==
  [format |-> IF meta.format = "absent" THEN "json" ELSE meta.format,
   specified |-> meta.format # "absent",
   compression |-> IF meta.compression = "absent" THEN "none"
                   ELSE CompressionFromStr(meta.compression),
   accepted |-> {CompressionFromStr(n) : n \in meta.accept_compression} \ {"none"},
   encryption |-> IF meta.encryption = "absent" THEN "none"
                  ELSE EncryptionFromStr(meta.encryption),
   forced |-> meta.force_format]

(* Mutant: the server's compression whether or not the client can undo it. *)
Determine_AnyDefault(cfg, neg) ==
  NewParser(
    IF neg.forced \/ neg.specified THEN neg.format ELSE cfg.format,
    IF neg.forced \/ neg.compression # "none" THEN neg.compression
    ELSE cfg.compression,
    IF neg.encryption # "none" THEN neg.encryption ELSE cfg.encryption)

(* determine_negotiation_result: the client's wishes first; the server's   *)
(* compression only if the client can undo it.                             *)
Determine(cfg, neg) ==
  NewParser(
    IF neg.forced \/ neg.specified THEN neg.format ELSE cfg.format,
    IF neg.forced \/ neg.compression # "none" THEN neg.compression
    ELSE IF cfg.compression \in neg.accepted THEN cfg.compression ELSE "none",
    IF neg.encryption # "none" THEN neg.encryption ELSE cfg.encryption)

(* create_connect_ack: what is not registered is announced as none.        *)
ConnectAck(reg, p) ==
  NewParser(p.format,
            IF CompressionRegistered(reg, p.compression) THEN p.compression ELSE "none",
            IF EncryptionRegistered(reg, p.encryption) THEN p.encryption ELSE "none")

(* handle_connect_ack.                                                     *)
HandleConnectAck(ack) ==
  NewParser(ack.format, CompressionFromStr(ack.compression),
            EncryptionFromStr(ack.encryption))
=============================================================================
