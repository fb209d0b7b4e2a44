------------------------------- MODULE Codecs -------------------------------
(***************************************************************************)
(* The codec registries of a process and the MessageParser that uses them. *)
(* A registry holds                                                        *)
(*   compressors  the names of the registered compressors                  *)
(*   detecting    those of them that recognise their own output            *)
(*   encryptors   the key each registered encryptor was made with          *)
(* A parser is [format, compression, encryption].  Encoded data is a       *)
(* record of the message, the format, the compressor that really was       *)
(* applied and the key it is sealed with.  Both serializers are always     *)
(* registered and are tried in turn on whatever is neither compressed nor  *)
(* encrypted.  Ciphertext and compressed data never pass for a frame, and  *)
(* an encryptor notices data that was not sealed with its key (AES-GCM).   *)
(***************************************************************************)
EXTENDS Naturals, Sequences, FiniteSets

Formats == {"json", "protobuf"}

(* Names of algorithms: the built-in ones and one custom compressor, whose *)
(* name is not all lower case.                                             *)
CompressionNames == {"none", "gzip", "zstd", "Pack", "pack"}
EncryptionNames == {"none", "aes256gcm"}
Keys == {"key1", "key2"}

Registries ==
  [compressors : SUBSET CompressionNames, detecting : SUBSET CompressionNames,
   encryptors : UNION {[N -> Keys] : N \in SUBSET (EncryptionNames \ {"none"})}]
Parsers == [format : Formats, compression : CompressionNames,
            encryption : EncryptionNames]

(* from_str matches the lower-case form of a name and keeps that form.     *)
CompressionFromStr(s) == IF s = "Pack" THEN "pack" ELSE s
EncryptionFromStr(s) == s

(* register_defaults: gzip only with its feature; no encryptor has a key.  *)
CompressionDefaults(gzip) ==
  IF gzip THEN {"none", "gzip"} ELSE {"none"}
EncryptionDefaults == [n \in {} |-> "key1"]
RegistryDefaults(gzip) ==
  [compressors |-> CompressionDefaults(gzip),
   detecting |-> CompressionDefaults(gzip) \ {"none"},
   encryptors |-> EncryptionDefaults]

(* A compressor that does not override can_detect recognises nothing.      *)
RegisterCompressor(reg, name, detects) ==
  [reg EXCEPT !.compressors = @ \cup {name},
              !.detecting = IF detects THEN @ \cup {name} ELSE @ \ {name}]

(* An encryptor already there is kept.                                     *)
RegisterEncryptor(reg, name, key) ==
  [reg EXCEPT !.encryptors =
     IF name \in DOMAIN @ THEN @
     ELSE [n \in DOMAIN @ \cup {name} |-> IF n = name THEN key ELSE @[n]]]

CompressionRegistered(reg, name) == name \in reg.compressors
EncryptionRegistered(reg, name) == name = "none" \/ name \in DOMAIN reg.encryptors

-----------------------------------------------------------------------------
PRE_NEGOTIATION_PARSER ==
  [format |-> "json", compression |-> "none", encryption |-> "none"]
NewParser(format, compression, encryption) ==
  [format |-> format, compression |-> compression, encryption |-> encryption]

(* compress: without the compressor, NoCompressor.                         *)
Compressed(reg, compression) ==
  IF CompressionRegistered(reg, compression) THEN compression ELSE "none"

(* encrypt_data fails without the encryptor, and serialize with it.        *)
CanSerialize(reg, p) == EncryptionRegistered(reg, p.encryption)
Serialize(reg, p, m) ==
  [msg |-> m, format |-> p.format,
   compression |-> Compressed(reg, p.compression),
   sealed |-> IF p.encryption = "none" THEN "none" ELSE reg.encryptors[p.encryption]]

Error == [msg |-> "error", format |-> "json", compression |-> "none",
          sealed |-> "error"]

(* Decryption fails on data sealed otherwise, or not sealed at all.  Where *)
(* fallback is allowed the data is then taken as it is.                    *)
Decrypt(reg, p, fallback, d) ==
  IF p.encryption = "none" THEN d
  ELSE IF ~EncryptionRegistered(reg, p.encryption) THEN Error
  ELSE IF d.sealed = reg.encryptors[p.encryption] THEN [d EXCEPT !.sealed = "none"]
  ELSE IF fallback THEN d ELSE Error

(* auto_detect finds the compressor by the data, not by the parser.        *)
AutoDetects(reg, d) == d.sealed = "none" /\ d.compression \in reg.detecting

Decompress(reg, p, fallback, d) ==
  IF p.compression = "none" THEN d
  ELSE IF AutoDetects(reg, d) THEN [d EXCEPT !.compression = "none"]
  ELSE IF fallback THEN d ELSE Error

(* Every serializer that may fit is tried, in strict mode too.             *)
Deserializes(d) == d.sealed = "none" /\ d.compression = "none"

(* parse_with_fallback succeeds.                                           *)
Parses(reg, p, fallback, d) ==
  Deserializes(Decompress(reg, p, fallback, Decrypt(reg, p, fallback, d)))
=============================================================================
