----------------------------- MODULE WireProofs -----------------------------
(***************************************************************************)
(* Proofs about Wire, for any messages, any typed calls of the builders'   *)
(* setters, any number of them, and any codec registries of the two        *)
(* processes that hold what register_defaults puts there.                  *)
(*                                                                         *)
(* The properties say what the receiver could read; the argument is about  *)
(* what is on its way.  A frame is encoded at one moment and read at       *)
(* another, and between the two either side may have switched its parser.  *)
(* A frame is Bare when only its serialization is applied, as the          *)
(* pre-negotiation parser leaves it, and Agreed when it is compressed and  *)
(* sealed as the negotiated parser does it.  WireInv adds to TypeOK:       *)
(*                                                                         *)
(*   BeforeBuilt    nothing happens before both sides are built            *)
(*   ProfileFacts   what the two builds came to: the agreed compression is *)
(*                  one the client asked for or has registered, and a      *)
(*                  pipeline no middleware stops reaches the listener      *)
(*   Switches       which parser each side has, by its negotiation state,  *)
(*                  that only a switched client marks tasks negotiated,    *)
(*                  and that its flag stays set until the connection ends  *)
(*   Compressions   what the server has queued or written, the client can  *)
(*                  undo                                                   *)
(*   Unwritten      what waits to be written is agreed, or bare and stale  *)
(*   ReadyLast      before the client sends it, NEGOTIATION_READY is       *)
(*                  nowhere and the server is not confirmed                *)
(*   ServerLine     on the way to the server every frame is bare or        *)
(*                  agreed, and behind NEGOTIATION_READY bare only if      *)
(*                  stale: the order of the stream ends the tolerance at   *)
(*                  the right place                                        *)
(*   ClientLine     every frame of the server is bare or agreed all the    *)
(*                  way to the client's tasks, and agreed if the server    *)
(*                  encoded it as confirmed, which it is only while the    *)
(*                  client's flag is set                                   *)
(*   Listening      what waits for the listener of a FlareClient is read   *)
(*                  by the agreed parser, which its pipeline has by then   *)
(***************************************************************************)
EXTENDS Wire, SequenceTheorems, WellFoundedInduction, TLAPS

-----------------------------------------------------------------------------
(* What encoding leaves of a frame: nothing but its bytes, or what the two *)
(* sides have agreed on.                                                   *)
Bare(d) == d.compression = "none" /\ d.sealed = "none"
Example == Serialize(sreg, prof.result, "m")
Agreed(d) == d.compression = Example.compression /\ d.sealed = Example.sealed

(* What remains to be read of data sealed with s under the encryption of   *)
(* p, and of data compressed with c under its compression.                 *)
Opens(reg, p, fallback, s) ==
  IF p.encryption = "none" THEN s = "none"
  ELSE /\ EncryptionRegistered(reg, p.encryption)
       /\ s = reg.encryptors[p.encryption] \/ (fallback /\ s = "none")
Inflates(reg, p, fallback, c) ==
  IF p.compression = "none" THEN c = "none"
  ELSE c \in reg.detecting \/ (fallback /\ c = "none")

IsData(d) == d = [msg |-> d.msg, format |-> d.format, compression |-> d.compression,
                  sealed |-> d.sealed]

-----------------------------------------------------------------------------
(* Nothing happens before both sides are built.                            *)
BeforeBuilt ==
  ~prof.built =>
    /\ prof = NoProfile
    /\ cparser = PRE_NEGOTIATION_PARSER /\ cdone = FALSE /\ ended = FALSE
    /\ tasks = {} /\ acking = "no" /\ encoded = {} /\ build = "no" /\ ptasks = {}
    /\ sstate = "pre" /\ sparser = PRE_NEGOTIATION_PARSER /\ pushed = <<>>
    /\ toServer = <<>> /\ toClient = <<>>
    /\ heard = NoMsgs /\ lost = NoMsgs /\ stale = {} /\ late = {}
    /\ dropped = {} /\ outrun = {}

(* What the builds came to, and the compression they agreed on.            *)
ProfileFacts ==
  /\ prof.built \in BOOLEAN
  /\ prof.built =>
       /\ prof.initial \in Parsers /\ prof.result \in Parsers
       /\ ~prof.forced => prof.initial = PRE_NEGOTIATION_PARSER
       /\ CompressionFromStr(prof.result.compression) = prof.result.compression
       /\ \/ prof.result.compression \in creg.compressors
          \/ prof.result.compression = CompressionFromStr(prof.metadata.compression)
       /\ prof.open => prof.reaches

(* Who has which parser, when.                                             *)
Switches ==
  /\ cdone => acking # "no"
  /\ (acking # "no" /\ ~ended) => cdone
  /\ ended => sstate = "closed"
  /\ (prof.built /\ acking = "no") => cparser = prof.initial
  /\ (prof.built /\ Supported /\ acking # "no") => cparser = prof.result
  /\ sstate \in {"finalized", "completed", "confirmed"} => sparser = prof.result
  /\ \A t \in tasks : t.negotiated => acking # "no"

(* The client asked for the compression of d or has it registered.         *)
Undoable(d) ==
  \/ d.compression \in creg.compressors
  \/ d.compression = CompressionFromStr(prof.metadata.compression)

(* What the server has encoded, the client can undo.                       *)
Compressions ==
  /\ \A i \in DOMAIN pushed : Undoable(pushed[i])
  /\ \A i \in DOMAIN toClient : Undoable(toClient[i])

(* A frame the server can read after NEGOTIATION_READY, or one that is     *)
(* allowed to be lost.                                                     *)
Settled(d) ==
  \/ Agreed(d)
  \/ d.msg = "NEGOTIATION_READY" /\ Bare(d)
  \/ d.msg \in stale

(* What the client has encoded and not written: no two frames of one       *)
(* message, and bare only when it would be stale.                          *)
Unwritten ==
  /\ \A d \in encoded : d.msg \in ClientMsgs
  /\ \A d, e \in encoded : d.msg = e.msg => d = e
  /\ (prof.built /\ Supported) =>
       \A d \in encoded : Agreed(d) \/ (Bare(d) /\ d.msg \in stale)

(* The line to the server, when the agreement is supported.                *)
Arriving ==
  /\ \A i \in DOMAIN toServer : Bare(toServer[i]) \/ Agreed(toServer[i])
  /\ sstate = "pre" => /\ toServer # <<>> /\ Head(toServer).msg = "CONNECT"
                       /\ Bare(Head(toServer))
  /\ \A i, j \in DOMAIN toServer :
       (i < j /\ toServer[i].msg = "NEGOTIATION_READY") => Settled(toServer[j])
  /\ sstate = "confirmed" => \A i \in DOMAIN toServer : Settled(toServer[i])
  /\ lost["server"] \subseteq stale
  /\ sstate # "confirmed" => lost["server"] = {}
ServerLine == (prof.built /\ Supported) => Arriving

(* NEGOTIATION_READY is written last in the client's switch.               *)
ReadyLast ==
  acking # "ready" =>
    /\ sstate # "confirmed"
    /\ \A i \in DOMAIN toServer : toServer[i].msg # "NEGOTIATION_READY"

LateKnown == late # {} => sstate = "confirmed"

(* A frame of the server that a switched client can read: if the server    *)
(* knew of the switch, in the agreed encoding.                             *)
Readable(d) == (Bare(d) \/ Agreed(d)) /\ (d.msg \in late => Agreed(d))

(* The frames of the server on their way, and those the client failed on.  *)
Answering ==
  /\ \A i \in DOMAIN pushed : Readable(pushed[i])
  /\ \A i \in DOMAIN toClient : Readable(toClient[i])
  /\ \A t \in tasks : Readable(t.data)
  /\ lost["client"] \subseteq outrun
  /\ lost["client"] \cap late = {}
ClientLine == LateKnown /\ ((prof.built /\ Supported) => Answering)

(* The pipeline of a FlareClient on one protocol.                          *)
Hearing ==
  /\ build = "done" => acking # "no" /\ pparser = prof.result
  /\ \A d \in ptasks : d.msg = "CONNECT_ACK" \/ Parses(creg, prof.result, TRUE, d)
  /\ prof.open => lost["listener"] = {}
Listening ==
  (prof.built /\ Supported /\ ckind = "flare" /\ ~prof.race) => Hearing

WireInv ==
  /\ TypeOK /\ BeforeBuilt /\ ProfileFacts
  /\ Switches /\ Compressions /\ Unwritten /\ ReadyLast
  /\ ServerLine /\ ClientLine /\ Listening

-----------------------------------------------------------------------------
(* The codecs.                                                             *)

(* What the three stages of parse come to: the encryption can be opened    *)
(* and the compression undone.                                             *)
LEMMA ParsesIff ==
  ASSUME NEW reg, NEW p, NEW fallback \in BOOLEAN, NEW d, IsData(d)
  PROVE  Parses(reg, p, fallback, d)
           <=> /\ Opens(reg, p, fallback, d.sealed)
               /\ Inflates(reg, p, fallback, d.compression)
<1>1. /\ Error.sealed = "error" /\ Error.compression = "none"
      /\ [d EXCEPT !.sealed = "none"].sealed = "none"
      /\ [d EXCEPT !.sealed = "none"].compression = d.compression
  BY DEF Error, IsData
<1>2. ASSUME NEW e, e = d \/ e = [d EXCEPT !.sealed = "none"] \/ e = Error
      PROVE  Deserializes(Decompress(reg, p, fallback, e))
               <=> e.sealed = "none" /\ Inflates(reg, p, fallback, e.compression)
  <2>1. /\ [e EXCEPT !.compression = "none"].compression = "none"
        /\ [e EXCEPT !.compression = "none"].sealed = e.sealed
    BY <1>2 DEF Error, IsData
  <2> QED BY <1>1, <2>1 DEF Deserializes, Inflates, AutoDetects, Decompress
<1> QED BY <1>1, <1>2 DEF Parses, Opens, Decrypt, EncryptionRegistered

(* What serialize makes of a message.                                      *)
LEMMA SerializeShape ==
  ASSUME NEW reg, NEW p, NEW m
  PROVE  /\ IsData(Serialize(reg, p, m))
         /\ Serialize(reg, p, m).msg = m
         /\ Serialize(reg, p, m).compression = Compressed(reg, p.compression)
         /\ Serialize(reg, p, m).sealed
              = IF p.encryption = "none" THEN "none" ELSE reg.encryptors[p.encryption]
BY DEF IsData, Serialize

(* What a parser can serialize is well-formed data.                        *)
LEMMA SerializeTyped ==
  ASSUME NEW reg \in Registries, NEW p \in Parsers, NEW m \in Msgs, CanSerialize(reg, p)
  PROVE  Serialize(reg, p, m) \in Data
<1>1. Compressed(reg, p.compression) \in CompressionNames
  BY DEF Compressed, CompressionNames, Parsers
<1>2. ASSUME p.encryption # "none" PROVE reg.encryptors[p.encryption] \in Keys
  <2>1. p.encryption \in DOMAIN reg.encryptors
    BY <1>2 DEF CanSerialize, EncryptionRegistered
  <2>2. PICK N \in SUBSET (EncryptionNames \ {"none"}) : reg.encryptors \in [N -> Keys]
    BY DEF Registries
  <2> QED BY <2>1, <2>2
<1> QED BY <1>1, <1>2 DEF Serialize, Data, Parsers

(* Data on the line is a record of the form serialize makes.               *)
LEMMA DataShape ==
  ASSUME NEW d \in Data
  PROVE  IsData(d)
BY DEF Data, IsData

(* The pre-negotiation parser reads what is bare, and nothing else.        *)
LEMMA BareReads ==
  ASSUME NEW reg, NEW d, IsData(d)
  PROVE  Parses(reg, PRE_NEGOTIATION_PARSER, TRUE, d) <=> Bare(d)
<1>1. Parses(reg, PRE_NEGOTIATION_PARSER, TRUE, d)
        <=> /\ Opens(reg, PRE_NEGOTIATION_PARSER, TRUE, d.sealed)
            /\ Inflates(reg, PRE_NEGOTIATION_PARSER, TRUE, d.compression)
  BY ParsesIff
<1> QED BY <1>1 DEF Opens, Inflates, PRE_NEGOTIATION_PARSER, Bare

(* With the fallback every usable parser reads what is bare.               *)
LEMMA BareTolerated ==
  ASSUME NEW reg, NEW p, EncryptionRegistered(reg, p.encryption), NEW d, IsData(d), Bare(d)
  PROVE  Parses(reg, p, TRUE, d)
BY ParsesIff DEF Opens, Inflates, Bare

(* What a parser reads depends on the encoding of a frame only, and the    *)
(* fallback takes nothing away.                                            *)
LEMMA SameReads ==
  ASSUME NEW reg, NEW p, NEW fallback \in BOOLEAN, NEW d, IsData(d), NEW e, IsData(e),
         d.compression = e.compression, d.sealed = e.sealed, Parses(reg, p, FALSE, d)
  PROVE  Parses(reg, p, fallback, e)
<1>1. Opens(reg, p, FALSE, d.sealed) /\ Inflates(reg, p, FALSE, d.compression)
  BY ParsesIff
<1>2. Opens(reg, p, fallback, e.sealed) /\ Inflates(reg, p, fallback, e.compression)
  BY <1>1 DEF Opens, Inflates
<1> QED BY <1>2, ParsesIff

-----------------------------------------------------------------------------
(* Configurations.                                                         *)

(* A new client configuration is well-formed.                              *)
LEMMA ClientDefaultsTyped == Typed(ClientDefaults, ClientTypes)
<1>1. <<>> \in Seq(Transports) /\ <<>> \in Seq(Middleware) /\ <<>> \in Seq(Processor)
  OBVIOUS
<1>2. DOMAIN ClientDefaults = DOMAIN ClientTypes
  BY DEF ClientDefaults, ClientTypes
<1>3. /\ "websocket" \in Transports /\ "json" \in Formats /\ "none" \in CompressionNames
      /\ "none" \in EncryptionNames
  BY DEF Transports, Formats, CompressionNames, EncryptionNames
<1>4. /\ ClientDefaults["transport"] \in ClientTypes["transport"]
      /\ ClientDefaults["transports"] \in ClientTypes["transports"]
      /\ ClientDefaults["format"] \in ClientTypes["format"]
      /\ ClientDefaults["compression"] \in ClientTypes["compression"]
      /\ ClientDefaults["force_format"] \in ClientTypes["force_format"]
      /\ ClientDefaults["force_compression"] \in ClientTypes["force_compression"]
      /\ ClientDefaults["encryption"] \in ClientTypes["encryption"]
      /\ ClientDefaults["reconnect_on_send"] \in ClientTypes["reconnect_on_send"]
      /\ ClientDefaults["middlewares"] \in ClientTypes["middlewares"]
      /\ ClientDefaults["processors"] \in ClientTypes["processors"]
      /\ ClientDefaults["given"] \in ClientTypes["given"]
  BY <1>1, <1>3 DEF ClientDefaults, ClientTypes
<1>5. DOMAIN ClientTypes = {"transport", "transports", "format",
         "compression", "force_format", "force_compression", "encryption",
         "reconnect_on_send", "middlewares", "processors", "given"}
  BY DEF ClientTypes
<1> QED BY <1>2, <1>4, <1>5 DEF Typed

(* A new server configuration is well-formed.                              *)
LEMMA ServerDefaultsTyped == Typed(ServerDefaults, ServerTypes)
<1>1. <<>> \in Seq(Transports)
  OBVIOUS
<1>2. DOMAIN ServerDefaults = DOMAIN ServerTypes
  BY DEF ServerDefaults, ServerTypes
<1>3. /\ "websocket" \in Transports /\ "protobuf" \in Formats
      /\ "none" \in CompressionNames /\ "none" \in EncryptionNames
  BY DEF Transports, Formats, CompressionNames, EncryptionNames
<1>4. /\ ServerDefaults["transport"] \in ServerTypes["transport"]
      /\ ServerDefaults["transports"] \in ServerTypes["transports"]
      /\ ServerDefaults["format"] \in ServerTypes["format"]
      /\ ServerDefaults["compression"] \in ServerTypes["compression"]
      /\ ServerDefaults["encryption"] \in ServerTypes["encryption"]
      /\ ServerDefaults["given"] \in ServerTypes["given"]
  BY <1>1, <1>3 DEF ServerDefaults, ServerTypes
<1>5. DOMAIN ServerTypes = {"transport", "transports", "format",
         "compression", "encryption", "given"}
  BY DEF ServerTypes
<1> QED BY <1>2, <1>4, <1>5 DEF Typed

(* A setter of a client builder keeps the configuration well-formed.       *)
LEMMA SetClientTyped ==
  ASSUME NEW cfg, Typed(cfg, ClientTypes), NEW name \in STRING, NEW v, ClientCall(name, v)
  PROVE  Typed(SetClient(cfg, name, v), ClientTypes)
<1>1. CASE name \in DOMAIN ClientLists
  <2>1. ClientLists[name] \in DOMAIN cfg
    BY <1>1 DEF ClientLists, ClientTypes, Typed
  <2>2. Append(cfg[ClientLists[name]], v) \in ClientTypes[ClientLists[name]]
    <3>1. CASE name = "with_middleware"
      <4>1. v \in Middleware /\ cfg["middlewares"] \in Seq(Middleware)
        BY <3>1 DEF ClientLists, ClientTypes, Typed, ClientCall, ListElements
      <4>2. Append(cfg["middlewares"], v) \in Seq(Middleware)
        BY <4>1
      <4> QED BY <3>1, <4>2 DEF ClientLists, ClientTypes
    <3>2. CASE name = "with_processor"
      <4>1. v \in Processor /\ cfg["processors"] \in Seq(Processor)
        BY <3>2 DEF ClientLists, ClientTypes, Typed, ClientCall, ListElements
      <4>2. Append(cfg["processors"], v) \in Seq(Processor)
        BY <4>1
      <4> QED BY <3>2, <4>2 DEF ClientLists, ClientTypes
    <3> QED BY <1>1, <3>1, <3>2 DEF ClientLists
  <2> QED BY <1>1, <2>1, <2>2 DEF SetClient, Typed
<1>2. CASE name \notin DOMAIN ClientLists /\ name \in DOMAIN ClientFields
  <2>1. ClientFields[name] \in DOMAIN cfg
    BY <1>2 DEF ClientFields, ClientTypes, Typed
  <2>2. v \in ClientTypes[ClientFields[name]]
    BY <1>2 DEF ClientCall
  <2> QED BY <1>2, <2>1, <2>2 DEF SetClient, Typed
<1>3. CASE name \notin DOMAIN ClientLists /\ name \notin DOMAIN ClientFields
  <2>1. cfg.given \cup {name} \in ClientTypes.given /\ "given" \in DOMAIN cfg
    BY DEF ClientTypes, Typed
  <2>2. SetClient(cfg, name, v) = [cfg EXCEPT !.given = @ \cup {name}]
    BY <1>3 DEF SetClient
  <2> QED BY <2>1, <2>2 DEF Typed
<1> QED BY <1>1, <1>2, <1>3

(* A setter of a server builder keeps the configuration well-formed.       *)
LEMMA SetServerTyped ==
  ASSUME NEW cfg, Typed(cfg, ServerTypes), NEW name \in STRING, NEW v, ServerCall(name, v)
  PROVE  Typed(SetServer(cfg, name, v), ServerTypes)
<1>1. CASE name \in DOMAIN ServerFields
  <2>1. ServerFields[name] \in DOMAIN cfg
    BY <1>1 DEF ServerFields, ServerTypes, Typed
  <2>2. v \in ServerTypes[ServerFields[name]]
    BY <1>1 DEF ServerCall
  <2> QED BY <1>1, <2>1, <2>2 DEF SetServer, Typed
<1>2. CASE name \notin DOMAIN ServerFields
  <2>1. cfg.given \cup {name} \in ServerTypes.given /\ "given" \in DOMAIN cfg
    BY DEF ServerTypes, Typed
  <2>2. SetServer(cfg, name, v) = [cfg EXCEPT !.given = @ \cup {name}]
    BY <1>2 DEF SetServer
  <2> QED BY <2>1, <2>2 DEF Typed
<1> QED BY <1>1, <1>2

(* The fields of a client configuration that the negotiation reads.        *)
LEMMA ClientTyped ==
  ASSUME NEW cfg, Typed(cfg, ClientTypes)
  PROVE  /\ cfg.format \in Formats /\ cfg.compression \in CompressionNames
         /\ cfg.force_format \in Formats \cup {"none"}
         /\ cfg.force_compression \in CompressionNames \cup {"unset"}
         /\ cfg.encryption \in EncryptionNames /\ cfg.processors \in Seq(Processor)
BY DEF Typed, ClientTypes

(* The fields of a server configuration that the negotiation reads.        *)
LEMMA ServerTyped ==
  ASSUME NEW cfg, Typed(cfg, ServerTypes)
  PROVE  /\ cfg.format \in Formats /\ cfg.compression \in CompressionNames
         /\ cfg.encryption \in EncryptionNames
BY DEF Typed, ServerTypes

(* Every nonempty set of naturals has a least element.                     *)
LEMMA LeastExists ==
  ASSUME NEW S \in SUBSET Nat, S # {}
  PROVE  \E i \in S : \A j \in S : i <= j
<1> DEFINE less == OpToRel(<, Nat)
<1>1. IsWellFoundedOn(less, Nat)
  BY NatLessThanWellFounded
<1>2. \A i, j \in Nat : j < i => <<j, i>> \in less
  BY DEF OpToRel
<1> HIDE DEF less
<1>3. PICK i \in S : \A j \in S : <<j, i>> \notin less
  BY <1>1, WFMin
<1>4. ASSUME NEW j \in S PROVE i <= j
  <2>1. i \in Nat /\ j \in Nat /\ ~(j < i)
    BY <1>2, <1>3
  <2> QED BY <2>1
<1> QED BY <1>4

(* A pipeline stops at one of its elements.                                *)
LEMMA StopsInside ==
  ASSUME NEW os, NEW n \in Nat \ {0}, os \in Seq(Outcomes), Len(os) = n
  PROVE  StopAt(os) \in 1 .. n
<1> DEFINE stops == {i \in DOMAIN os : os[i] # "pass"}
<1>1. stops \subseteq 1 .. n
  OBVIOUS
<1>2. CASE stops = {}
  BY <1>2 DEF StopAt
<1>3. CASE stops # {}
  <2>1. \E i \in stops : \A j \in stops : i <= j
    <3>1. stops \in SUBSET Nat
      BY <1>1
    <3> HIDE DEF stops
    <3> QED BY <1>3, <3>1, LeastExists
  <2>2. StopAt(os) = CHOOSE i \in stops : \A j \in stops : i <= j
    BY <1>3 DEF StopAt
  <2> HIDE DEF stops
  <2>3. StopAt(os) \in stops
    BY <2>1, <2>2
  <2> QED BY <1>1, <2>3
<1> QED BY <1>2, <1>3

(* Once the middlewares let a frame pass it reaches the listener, whatever *)
(* the other processors answer: the listener was added first.              *)
LEMMA ListenerReached ==
  ASSUME NEW cfg, Typed(cfg, ClientTypes),
         Before(FlarePipeline(cfg, Listener)) = "pass"
  PROVE  Listener.name \in Reached(FlarePipeline(cfg, Listener))
<1> DEFINE pipe == FlarePipeline(cfg, Listener)
           around == AddMiddlewares(NewPipeline, cfg.middlewares)
           ps == pipe.processors
           Chain == Processor \cup {Listener}
<1>1. cfg.processors \in Seq(Chain) /\ Listener \in Chain
  <2>1. cfg.processors \in Seq(Processor)
    BY ClientTyped
  <2> QED BY <2>1
<1>2. around.processors = <<>> /\ "processors" \in DOMAIN around
  BY DEF AddMiddlewares, NewPipeline
<1>3. ps = <<>> \o (<<Listener>> \o cfg.processors)
  <2> HIDE DEF around
  <2> QED BY <1>2 DEF FlarePipeline, AddProcessors, around
<1>4. /\ ps \in Seq(Chain) /\ Len(ps) = 1 + Len(cfg.processors) /\ ps[1] = Listener
      /\ Len(cfg.processors) \in Nat
  <2> HIDE DEF ps
  <2> QED BY <1>1, <1>3
<1> HIDE DEF pipe, ps, Chain
<1>5. Processors(pipe) \in Seq(Outcomes) /\ Len(Processors(pipe)) = Len(ps)
  <2> DEFINE os == [i \in 1 .. Len(ps) |-> ps[i].outcome]
  <2>1. Processors(pipe) = os
    BY <1>4 DEF Processors, ps
  <2>2. \A i \in 1 .. Len(ps) : ps[i].outcome \in Outcomes
    <3>1. \A p \in Chain : p.outcome \in Outcomes
      BY DEF Chain, Processor, Listener, Outcomes
    <3> QED BY <1>4, <3>1
  <2>3. Len(ps) \in Nat
    BY <1>4
  <2>4. os \in Seq(Outcomes) /\ Len(os) = Len(ps)
    BY <2>2, <2>3
  <2> QED BY <2>1, <2>4
<1>6. StopAt(Processors(pipe)) \in 1 .. Len(ps)
  BY <1>4, <1>5, StopsInside
<1>7. 1 \in 1 .. StopAt(Processors(pipe))
  BY <1>4, <1>6
<1>8. pipe.processors[1].name \in Reached(pipe)
  BY <1>7 DEF Reached, pipe
<1> QED BY <1>4, <1>8 DEF ps, pipe

(* The pre-negotiation parser is a parser.                                 *)
LEMMA PreTyped == PRE_NEGOTIATION_PARSER \in Parsers
BY DEF PRE_NEGOTIATION_PARSER, Parsers, Formats, CompressionNames, EncryptionNames

(* The parsers the client starts with do not encrypt, and only a forced    *)
(* format makes them other than the pre-negotiation parser.                *)
LEMMA InitialTyped ==
  ASSUME NEW cfg, Typed(cfg, ClientTypes)
  PROVE  /\ InitialParser(cfg) \in Parsers /\ ConnectParser(cfg) \in Parsers
         /\ InitialParser(cfg).encryption = "none" /\ ConnectParser(cfg).encryption = "none"
         /\ ~IsForced(cfg) => InitialParser(cfg) = PRE_NEGOTIATION_PARSER
<1>1. /\ GetFormat(cfg) \in Formats /\ GetCompression(cfg) \in CompressionNames
      /\ "none" \in EncryptionNames
  BY ClientTyped DEF GetFormat, GetCompression, EncryptionNames
<1>2. /\ InitialParser(cfg) \in Parsers /\ InitialParser(cfg).encryption = "none"
      /\ ~IsForced(cfg) => InitialParser(cfg) = PRE_NEGOTIATION_PARSER
  <2>1. PRE_NEGOTIATION_PARSER.encryption = "none"
    BY DEF PRE_NEGOTIATION_PARSER
  <2> QED BY <1>1, <2>1, PreTyped DEF InitialParser, NewParser, Parsers
<1> QED BY <1>2, PreTyped DEF ConnectParser, PRE_NEGOTIATION_PARSER

(* The compression that is agreed on is one the client asked for or one it *)
(* can undo, and its name is in the form the client's parser gives it.     *)
LEMMA ResultSound ==
  ASSUME NEW cfg, Typed(cfg, ClientTypes), NEW srv, Typed(srv, ServerTypes), NEW reg,
         CompressionRegistered(reg, "none"),
         NEW meta, meta = ConnectMetadata(cfg, reg),
         NEW r, r = Determine(srv, ParseConnect(meta))
  PROVE  /\ r \in Parsers
         /\ CompressionFromStr(r.compression) = r.compression
         /\ \/ r.compression \in reg.compressors
            \/ r.compression = CompressionFromStr(meta.compression)
<1> DEFINE wish == ConnectFormat(cfg)
           neg == ParseConnect(meta)
<1>1. wish.format \in Formats /\ wish.compression \in CompressionNames
  <2>1. GetFormat(cfg) \in Formats /\ GetCompression(cfg) \in CompressionNames
    BY ClientTyped DEF GetFormat, GetCompression
  <2> QED BY <2>1, ClientTyped DEF ConnectFormat
<1>2. /\ meta.format \in Formats \cup {"absent"}
      /\ meta.compression \in CompressionNames \cup {"absent"}
      /\ meta.encryption \in EncryptionNames \cup {"absent"}
      /\ meta.accept_compression \subseteq {"gzip", "zstd"} \cap reg.compressors
  <2>1. AcceptedCompressions(reg) \subseteq {"gzip", "zstd"} \cap reg.compressors
    BY DEF AcceptedCompressions, CompressionRegistered
  <2> HIDE DEF wish
  <2> QED BY <1>1, <2>1, ClientTyped DEF ConnectMetadata, wish
<1>3. \A c : c \in CompressionNames => CompressionFromStr(c) \in CompressionNames
  BY DEF CompressionFromStr, CompressionNames
<1>4. /\ neg.format \in Formats /\ neg.encryption \in EncryptionNames
      /\ neg.compression = "none" \/ neg.compression = CompressionFromStr(meta.compression)
      /\ neg.compression \in CompressionNames
      /\ neg.accepted \subseteq {"gzip", "zstd"} \cap reg.compressors
  <2>1. "json" \in Formats /\ "none" \in EncryptionNames /\ "none" \in CompressionNames
    BY DEF Formats, EncryptionNames, CompressionNames
  <2>2. {CompressionFromStr(n) : n \in meta.accept_compression}
          \subseteq {"gzip", "zstd"} \cap reg.compressors
    BY <1>2 DEF CompressionFromStr
  <2> QED BY <1>2, <1>3, <2>1, <2>2 DEF ParseConnect, EncryptionFromStr
<1> HIDE DEF neg
<1>5. /\ r.compression \in {neg.compression, "none"} \cup neg.accepted
      /\ r.compression \in CompressionNames
  <2>1. neg.accepted \subseteq CompressionNames /\ "none" \in CompressionNames
    BY <1>4 DEF CompressionNames
  <2> QED BY <1>4, <2>1 DEF Determine, NewParser, neg
<1>6. r \in Parsers
  <2>1. r.format \in Formats /\ r.encryption \in EncryptionNames
    BY <1>4, ServerTyped DEF Determine, NewParser, neg
  <2>2. r = [format |-> r.format, compression |-> r.compression,
             encryption |-> r.encryption]
    BY DEF Determine, NewParser
  <2> QED BY <1>5, <2>1, <2>2 DEF Parsers
<1>7. CompressionFromStr(r.compression) = r.compression
  BY <1>4, <1>5 DEF CompressionFromStr
<1> QED BY <1>4, <1>5, <1>6, <1>7 DEF CompressionRegistered

(* What the two builds come to satisfies ProfileFacts.                     *)
LEMMA ProfileSound ==
  ASSUME Typed(ccfg, ClientTypes), Typed(scfg, ServerTypes),
         CompressionRegistered(creg, "none")
  PROVE  /\ Profile.built = TRUE
         /\ Profile.initial = InitialParser(ccfg) /\ Profile.connect = ConnectParser(ccfg)
         /\ Profile.initial \in Parsers /\ Profile.result \in Parsers
         /\ ~Profile.forced => Profile.initial = PRE_NEGOTIATION_PARSER
         /\ CompressionFromStr(Profile.result.compression) = Profile.result.compression
         /\ \/ Profile.result.compression \in creg.compressors
            \/ Profile.result.compression = CompressionFromStr(Profile.metadata.compression)
         /\ Profile.open => Profile.reaches
<1>1. /\ Profile.built = TRUE
      /\ Profile.initial = InitialParser(ccfg) /\ Profile.connect = ConnectParser(ccfg)
      /\ Profile.forced = IsForced(ccfg) /\ Profile.metadata = ConnectMetadata(ccfg, creg)
      /\ Profile.result = Determine(scfg, ParseConnect(ConnectMetadata(ccfg, creg)))
      /\ Profile.open = (Before(FlarePipeline(ccfg, Listener)) = "pass")
      /\ Profile.reaches = (Listener.name \in Reached(FlarePipeline(ccfg, Listener)))
  BY DEF Profile
<1>2. /\ Profile.result \in Parsers
      /\ CompressionFromStr(Profile.result.compression) = Profile.result.compression
      /\ \/ Profile.result.compression \in creg.compressors
         \/ Profile.result.compression = CompressionFromStr(Profile.metadata.compression)
  BY <1>1, ResultSound
<1>3. Profile.open => Profile.reaches
  BY <1>1, ListenerReached
<1> QED BY <1>1, <1>2, <1>3, InitialTyped

-----------------------------------------------------------------------------
(* What Supported gives.                                                   *)

(* Between processes that support the agreement the client switches to the *)
(* parser the server uses, and both have its encryption.                   *)
LEMMA AckIsResult ==
  ASSUME prof.result \in Parsers, Supported,
         CompressionFromStr(prof.result.compression) = prof.result.compression
  PROVE  /\ HandleConnectAck(ConnectAck(sreg, prof.result)) = prof.result
         /\ EncryptionRegistered(sreg, prof.result.encryption)
         /\ EncryptionRegistered(creg, prof.result.encryption)
<1>1. ConnectAck(sreg, prof.result) = prof.result
  BY DEF Supported
<1>2. HandleConnectAck(prof.result) = prof.result
  BY DEF HandleConnectAck, NewParser, EncryptionFromStr, Parsers
<1>3. EncryptionRegistered(sreg, prof.result.encryption)
  BY <1>1 DEF ConnectAck, NewParser, EncryptionRegistered
<1> QED BY <1>1, <1>2, <1>3 DEF Supported

(* Both processes encode with the negotiated parser in the agreed way.     *)
LEMMA AgreedEncoding ==
  ASSUME Supported, NEW m
  PROVE  Agreed(Serialize(creg, prof.result, m)) /\ Agreed(Serialize(sreg, prof.result, m))
<1>1. Serialize(creg, prof.result, "m") = Example
  BY DEF Supported, Example
<1>2. ASSUME NEW reg
      PROVE  /\ Serialize(reg, prof.result, m).compression
                   = Serialize(reg, prof.result, "m").compression
             /\ Serialize(reg, prof.result, m).sealed
                   = Serialize(reg, prof.result, "m").sealed
  BY SerializeShape
<1> QED BY <1>1, <1>2 DEF Agreed, Example

(* Both processes read agreed frames, with the fallback or without it.     *)
LEMMA AgreedReads ==
  ASSUME Supported, NEW d \in Data, Agreed(d), NEW fallback \in BOOLEAN
  PROVE  /\ Parses(sreg, prof.result, fallback, d)
         /\ Parses(creg, prof.result, fallback, d)
<1>1. /\ Parses(creg, prof.result, FALSE, Example)
      /\ Parses(sreg, prof.result, FALSE, Example)
  BY DEF Supported, Example
<1>2. IsData(Example) /\ IsData(d)
  BY SerializeShape, DataShape DEF Example
<1> QED BY <1>1, <1>2, SameReads DEF Agreed

(* Both processes read bare frames with the negotiated parser, while they  *)
(* tolerate them.                                                          *)
LEMMA BareIsRead ==
  ASSUME prof.result \in Parsers, Supported,
         CompressionFromStr(prof.result.compression) = prof.result.compression,
         NEW d \in Data, Bare(d)
  PROVE  /\ Parses(sreg, prof.result, TRUE, d)
         /\ Parses(creg, prof.result, TRUE, d)
BY AckIsResult, DataShape, BareTolerated

(* The pre-negotiation parser encodes bare frames.                         *)
LEMMA PreIsBare ==
  ASSUME NEW reg, NEW m
  PROVE  Bare(Serialize(reg, PRE_NEGOTIATION_PARSER, m))
BY SerializeShape DEF Bare, Compressed, PRE_NEGOTIATION_PARSER

(* What the client encodes before the switch is bare, or agreed when its   *)
(* format is forced.                                                       *)
LEMMA InitialEncoding ==
  ASSUME Supported, NEW m, ~prof.forced => prof.initial = PRE_NEGOTIATION_PARSER
  PROVE  \/ Bare(Serialize(creg, prof.initial, m))
         \/ Agreed(Serialize(creg, prof.initial, m))
<1>1. CASE prof.forced
  <2>1. prof.result = prof.initial
    BY <1>1 DEF Supported
  <2> QED BY <2>1, AgreedEncoding
<1>2. CASE ~prof.forced
  BY <1>2, PreIsBare
<1> QED BY <1>1, <1>2

(* A CONNECT that the server can read is bare.                             *)
LEMMA ConnectIsBare ==
  ASSUME NEW from, NEW to, NEW p,
         Parses(to, PRE_NEGOTIATION_PARSER, TRUE, Serialize(from, p, "CONNECT"))
  PROVE  Bare(Serialize(from, p, "CONNECT"))
BY BareReads, SerializeShape

(* Whether the processes support the agreement is settled by the builds.   *)
LEMMA SupportedStable ==
  ASSUME UNCHANGED <<creg, sreg, prof>>
  PROVE  (Supported' <=> Supported) /\ Example' = Example
BY DEF Supported, Example

-----------------------------------------------------------------------------
(* Sequences.                                                              *)

\* What an appended sequence holds.
LEMMA AppendFacts ==
  ASSUME NEW S, NEW q \in Seq(S), NEW e \in S
  PROVE  /\ Append(q, e) \in Seq(S) /\ Append(q, e) # <<>>
         /\ q # <<>> => Head(Append(q, e)) = Head(q)
         /\ DOMAIN q \subseteq Nat /\ DOMAIN Append(q, e) \subseteq Nat
         /\ \A i \in DOMAIN q : i < Len(q) + 1
         /\ Append(q, e)[Len(q) + 1] = e
         /\ \A i \in DOMAIN Append(q, e) :
              \/ i \in DOMAIN q /\ Append(q, e)[i] = q[i]
              \/ i = Len(q) + 1 /\ Append(q, e)[i] = e
<1>1. /\ Append(q, e) \in Seq(S) /\ Len(Append(q, e)) = Len(q) + 1
      /\ \A i \in 1..Len(q) : Append(q, e)[i] = q[i]
      /\ Append(q, e)[Len(q) + 1] = e
  BY AppendProperties
<1>2. /\ Len(q) \in Nat /\ DOMAIN q = 1..Len(q)
      /\ DOMAIN Append(q, e) = 1..Len(Append(q, e))
  BY <1>1, LenProperties
<1>3. q # <<>> => Head(Append(q, e)) = Head(q)
  OBVIOUS
<1>4. Append(q, e) # <<>>
  BY <1>1, <1>2, EmptySeq
<1> QED BY <1>1, <1>2, <1>3, <1>4

\* What the rest of a sequence holds.
LEMMA TailFacts ==
  ASSUME NEW S, NEW q \in Seq(S), q # <<>>
  PROVE  /\ Tail(q) \in Seq(S) /\ Head(q) \in S
         /\ 1 \in DOMAIN q /\ Head(q) = q[1]
         /\ DOMAIN q \subseteq Nat /\ DOMAIN Tail(q) \subseteq Nat
         /\ \A i \in DOMAIN Tail(q) : i + 1 \in DOMAIN q /\ 1 < i + 1 /\ Tail(q)[i] = q[i + 1]
<1>1. /\ Head(q) \in S /\ Tail(q) \in Seq(S)
  BY HeadTailProperties
<1>2. Len(Tail(q)) = Len(q) - 1 /\ \A i \in 1..Len(Tail(q)) : Tail(q)[i] = q[i + 1]
  BY HeadTailProperties
<1>3. Len(q) \in Nat \ {0} /\ DOMAIN q = 1..Len(q) /\ DOMAIN Tail(q) = 1..Len(Tail(q))
  BY <1>1, LenProperties, EmptySeq
<1>4. Head(q) = q[1]
  OBVIOUS
<1> QED BY <1>1, <1>2, <1>3, <1>4

\* A message noted for a side.
LEMMA NoteFacts ==
  ASSUME NEW log \in [Sides -> SUBSET Msgs], NEW s \in Sides, NEW m \in Msgs, NEW new,
         new = log \/ new = [log EXCEPT ![s] = @ \cup {m}]
  PROVE  /\ new \in [Sides -> SUBSET Msgs]
         /\ \A r \in Sides : r # s => new[r] = log[r]
         /\ new[s] \subseteq log[s] \cup {m}
OBVIOUS

-----------------------------------------------------------------------------
(* Types.                                                                  *)

(* The steps that end the connection at the server.                        *)
Closing == RefuseConnect \/ AckFails \/ OnConnectRefuses

(* A step of the connection, as opposed to one of the builders.            *)
Talks ==
  \/ TakeBeforeNegotiation \/ SendAck \/ FinalizeNegotiation \/ TakeNegotiated
  \/ OnConnect \/ Closing \/ CClose
  \/ \E m \in ServerMsgs : Push(m)
  \/ WritePushed \/ CRead
  \/ \E t \in tasks : TaskFrame(t)
  \/ \E t \in tasks : TaskAck(t)
  \/ SendReady \/ \E m \in ClientMsgs : Encode(m)
  \/ \E d \in encoded : Write(d)
  \/ AttachListener \/ UpdatePipeline \/ BuildFails \/ \E d \in ptasks : Listen(d)

(* Every step is a setter, the connect, or a step of the connection.       *)
LEMMA NextTalks ==
  ASSUME Next
  PROVE  CallClient \/ CallServer \/ Connect \/ Talks
BY DEF Next, Talks, Closing

\* Only a built connection takes steps, and none of them rebuilds it.
LEMMA TalksBuilt ==
  ASSUME BeforeBuilt, Talks
  PROVE  prof.built /\ UNCHANGED configVars
<1>0. ASSUME OnConnect \/ Closing \/ CClose
      PROVE  prof.built /\ UNCHANGED configVars
  BY <1>0 DEF BeforeBuilt, OnConnect, Closing, RefuseConnect, AckFails, OnConnectRefuses,
              CloseAfter, CClose
<1>1. ASSUME TakeBeforeNegotiation \/ SendAck \/ FinalizeNegotiation \/ TakeNegotiated
      PROVE  prof.built /\ UNCHANGED configVars
  BY <1>1 DEF BeforeBuilt, TakeBeforeNegotiation, SendAck, FinalizeNegotiation, TakeNegotiated
<1>2. ASSUME \/ \E m \in ServerMsgs : Push(m)
             \/ WritePushed \/ CRead
             \/ \E t \in tasks : TaskFrame(t)
             \/ \E t \in tasks : TaskAck(t)
      PROVE  prof.built /\ UNCHANGED configVars
  BY <1>2 DEF BeforeBuilt, Push, WritePushed, CRead, TaskFrame, TaskAck
<1>3. ASSUME SendReady \/ (\E m \in ClientMsgs : Encode(m)) \/ (\E d \in encoded : Write(d))
      PROVE  prof.built /\ UNCHANGED configVars
  BY <1>3 DEF BeforeBuilt, SendReady, Encode, Write
<1>4. ASSUME AttachListener \/ UpdatePipeline \/ BuildFails \/ \E d \in ptasks : Listen(d)
      PROVE  prof.built /\ UNCHANGED configVars
  BY <1>4 DEF BeforeBuilt, AttachListener, UpdatePipeline, BuildFails, Listen
<1> QED BY <1>0, <1>1, <1>2, <1>3, <1>4 DEF Talks

(* The variables a step of the connection does not leave to configVars.    *)
TalkTypes ==
  /\ cparser \in Parsers /\ pparser \in Parsers /\ sparser \in Parsers
  /\ cdone \in BOOLEAN /\ ended \in BOOLEAN /\ acking \in {"no", "switched", "ready"}
  /\ build \in {"no", "connected", "attached", "done", "failed"}
  /\ sstate \in {"pre", "accepted", "acked", "finalized", "completed", "confirmed",
                 "closed"}
  /\ pushed \in Seq(Data) /\ toServer \in Seq(Data) /\ toClient \in Seq(Data)
  /\ tasks \subseteq Tasks /\ encoded \subseteq Data /\ ptasks \subseteq Data
  /\ heard \in [Sides -> SUBSET Msgs] /\ lost \in [Sides -> SUBSET Msgs]
  /\ stale \subseteq ClientMsgs /\ late \subseteq ServerMsgs
  /\ dropped \subseteq Msgs /\ outrun \subseteq Msgs

\* The registries hold what register_defaults put there.
LEMMA RegistryFacts ==
  ASSUME TypeOK
  PROVE  /\ creg \in Registries /\ sreg \in Registries
         /\ CompressionRegistered(creg, "none") /\ CompressionRegistered(sreg, "none")
BY WireAssumption DEF TypeOK

\* The parser of CONNECT_ACK is a parser.
LEMMA AckTyped ==
  ASSUME NEW p \in Parsers, NEW reg
  PROVE  HandleConnectAck(ConnectAck(reg, p)) \in Parsers
BY DEF HandleConnectAck, ConnectAck, NewParser, Parsers, CompressionFromStr, EncryptionFromStr,
       CompressionNames, EncryptionNames

\* What each end encodes with the pre-negotiation parser.
LEMMA PreSerialized ==
  ASSUME NEW reg \in Registries, NEW m \in Msgs
  PROVE  Serialize(reg, PRE_NEGOTIATION_PARSER, m) \in Data
<1>1. CanSerialize(reg, PRE_NEGOTIATION_PARSER)
  BY DEF CanSerialize, EncryptionRegistered, PRE_NEGOTIATION_PARSER
<1> QED BY <1>1, PreTyped, SerializeTyped

\* How the server ends a connection: with nothing more said, with ERROR in
\* the encoding of CONNECT_ACK, or with KICKED in the agreed one.
LEMMA ClosingFacts ==
  ASSUME TypeOK, Closing
  PROVE  /\ sstate \in {"accepted", "finalized"} /\ sstate' = "closed" /\ pushed' = <<>>
         /\ UNCHANGED <<configVars, coreVars, listenerVars, sparser, toServer, logVars>>
         /\ \/ toClient' = toClient
            \/ \E e \in Data :
                 /\ toClient' = Append(toClient, e) /\ e.msg \in Control
                 /\ \/ e = Serialize(sreg, PRE_NEGOTIATION_PARSER, "ERROR")
                    \/ sstate = "finalized" /\ e = Serialize(sreg, sparser, "KICKED")
<1> DEFINE error == Serialize(sreg, PRE_NEGOTIATION_PARSER, "ERROR")
           kicked == Serialize(sreg, sparser, "KICKED")
<1>1. sreg \in Registries /\ sparser \in Parsers /\ {"ERROR", "KICKED"} \subseteq Msgs \cap Control
  BY RegistryFacts DEF TypeOK, Msgs, Control
<1>2. error \in Data /\ error.msg = "ERROR"
  BY <1>1, PreSerialized, SerializeShape
<1>3. CanSerialize(sreg, sparser) => kicked \in Data /\ kicked.msg = "KICKED"
  BY <1>1, SerializeTyped, SerializeShape
<1> HIDE DEF error, kicked
<1>4. \/ sstate \in {"accepted", "finalized"} /\ CloseAfter(toClient)
      \/ sstate = "accepted" /\ CloseAfter(Append(toClient, error))
      \/ /\ sstate = "finalized" /\ CanSerialize(sreg, sparser)
         /\ CloseAfter(Append(toClient, kicked))
  BY DEF Closing, RefuseConnect, AckFails, OnConnectRefuses, error, kicked
<1>5. /\ sstate \in {"accepted", "finalized"} /\ sstate' = "closed" /\ pushed' = <<>>
      /\ UNCHANGED <<configVars, coreVars, listenerVars, sparser, toServer, logVars>>
  BY <1>4 DEF CloseAfter
<1>6. \/ toClient' = toClient
      \/ toClient' = Append(toClient, error)
      \/ /\ sstate = "finalized" /\ CanSerialize(sreg, sparser)
         /\ toClient' = Append(toClient, kicked)
  BY <1>4 DEF CloseAfter
<1> QED BY <1>1, <1>2, <1>3, <1>5, <1>6 DEF error, kicked

\* A delivery appends to the line, or the inbound queue drops the frame.
LEMMA DeliverFacts ==
  ASSUME NEW d, Deliver(d)
  PROVE  /\ toServer' = toServer \/ toServer' = Append(toServer, d)
         /\ dropped' \subseteq dropped \cup {d.msg}
BY DEF Deliver

\* Both keep the types.
LEMMA DeliverTyped ==
  ASSUME toServer \in Seq(Data), dropped \subseteq Msgs, NEW d \in Data, Deliver(d)
  PROVE  toServer' \in Seq(Data) /\ dropped' \subseteq Msgs
<1>1. d.msg \in Msgs
  BY DEF Data
<1>2. toServer' \in Seq(Data)
  BY DeliverFacts, AppendFacts
<1> QED BY <1>1, <1>2, DeliverFacts

(* A step of the connection keeps its variables well-typed.                *)
LEMMA TalksTyped ==
  ASSUME TypeOK, prof.result \in Parsers, prof.initial \in Parsers, Talks
  PROVE  TalkTypes'
<1> USE DEF coreVars, listenerVars, serverVars, lineVars, logVars
<1>0. /\ TalkTypes /\ Control \subseteq Msgs /\ ClientMsgs \subseteq Msgs
      /\ ServerMsgs \subseteq Msgs /\ "server" \in Sides /\ "client" \in Sides
      /\ "listener" \in Sides
  BY DEF TypeOK, TalkTypes, Msgs, Sides
<1>d. \A d \in Data : d.msg \in Msgs
  BY DEF Data
<1>t. \A u \in Tasks : u.data \in Data /\ u.data.msg \in Msgs
  BY DEF Data, Tasks
<1>1. CASE TakeBeforeNegotiation
  <2>1. toServer \in Seq(Data) /\ toServer # <<>>
    BY <1>0, <1>1 DEF TalkTypes, TakeBeforeNegotiation
  <2>2. Tail(toServer) \in Seq(Data) /\ Head(toServer) \in Data
    BY <2>1, TailFacts
  <2>3. /\ heard' = heard \/ heard' = [heard EXCEPT !["server"] = @ \cup {Head(toServer).msg}]
        /\ lost' = lost \/ lost' = [lost EXCEPT !["server"] = @ \cup {Head(toServer).msg}]
    BY <1>1, Zenon DEF TakeBeforeNegotiation, NoteLost, NoteHeard
  <2>4. heard' \in [Sides -> SUBSET Msgs] /\ lost' \in [Sides -> SUBSET Msgs]
    <3>1. /\ Head(toServer).msg \in Msgs
          /\ heard \in [Sides -> SUBSET Msgs] /\ lost \in [Sides -> SUBSET Msgs]
      BY <1>0, <1>d, <2>2 DEF TalkTypes
    <3>2. heard' \in [Sides -> SUBSET Msgs]
      BY <1>0, <2>3, <3>1, NoteFacts
    <3>3. lost' \in [Sides -> SUBSET Msgs]
      BY <1>0, <2>3, <3>1, NoteFacts
    <3> QED BY <3>2, <3>3
  <2> QED BY <1>0, <1>1, <2>2, <2>4 DEF TalkTypes, TakeBeforeNegotiation
<1>2. CASE SendAck
  <2>1. Serialize(sreg, PRE_NEGOTIATION_PARSER, "CONNECT_ACK") \in Data
    BY <1>0, PreSerialized, RegistryFacts DEF Control
  <2>2. toClient' \in Seq(Data)
    BY <1>0, <1>2, <2>1, AppendFacts DEF TalkTypes, SendAck
  <2> QED BY <1>0, <1>2, <2>2 DEF TalkTypes, SendAck
<1>3. CASE FinalizeNegotiation \/ OnConnect \/ CClose
  BY <1>0, <1>3 DEF TalkTypes, FinalizeNegotiation, OnConnect, CClose
<1>c. CASE Closing
  <2>1. toClient' \in Seq(Data)
    <3>1. toClient \in Seq(Data)
      BY <1>0 DEF TalkTypes
    <3>2. toClient' = toClient \/ \E e \in Data : toClient' = Append(toClient, e)
      BY <1>c, ClosingFacts
    <3> QED BY <3>1, <3>2, AppendFacts
  <2>2. <<>> \in Seq(Data)
    OBVIOUS
  <2> QED BY <1>0, <1>c, <2>1, <2>2, ClosingFacts DEF TalkTypes
<1>4. CASE TakeNegotiated
  <2>1. toServer \in Seq(Data) /\ toServer # <<>>
    BY <1>0, <1>4 DEF TalkTypes, TakeNegotiated
  <2>2. Tail(toServer) \in Seq(Data) /\ Head(toServer) \in Data
    BY <2>1, TailFacts
  <2>3. /\ heard' = heard \/ heard' = [heard EXCEPT !["server"] = @ \cup {Head(toServer).msg}]
        /\ lost' = lost \/ lost' = [lost EXCEPT !["server"] = @ \cup {Head(toServer).msg}]
    BY <1>4, Zenon DEF TakeNegotiated, NoteLost, NoteHeard
  <2>4. heard' \in [Sides -> SUBSET Msgs] /\ lost' \in [Sides -> SUBSET Msgs]
    <3>1. /\ Head(toServer).msg \in Msgs
          /\ heard \in [Sides -> SUBSET Msgs] /\ lost \in [Sides -> SUBSET Msgs]
      BY <1>0, <1>d, <2>2 DEF TalkTypes
    <3>2. heard' \in [Sides -> SUBSET Msgs]
      BY <1>0, <2>3, <3>1, NoteFacts
    <3>3. lost' \in [Sides -> SUBSET Msgs]
      BY <1>0, <2>3, <3>1, NoteFacts
    <3> QED BY <3>2, <3>3
  <2> QED BY <1>0, <1>4, <2>2, <2>4 DEF TalkTypes, TakeNegotiated
<1>5. ASSUME NEW m \in ServerMsgs, Push(m) PROVE TalkTypes'
  <2>1. PushParser \in Parsers
    BY <1>0, PreTyped DEF PushParser, TalkTypes
  <2>2. Serialize(sreg, PushParser, m) \in Data
    BY <1>0, <1>5, <2>1, SerializeTyped, RegistryFacts DEF Push
  <2>3. pushed' \in Seq(Data)
    BY <1>0, <1>5, <2>2, AppendFacts DEF TalkTypes, Push
  <2> QED BY <1>0, <1>5, <2>3 DEF TalkTypes, Push
<1>6. CASE WritePushed
  <2>1. Tail(pushed) \in Seq(Data) /\ Head(pushed) \in Data
    BY <1>0, <1>6, TailFacts DEF TalkTypes, WritePushed
  <2>2. toClient' \in Seq(Data)
    BY <1>0, <1>6, <2>1, AppendFacts DEF TalkTypes, WritePushed
  <2> QED BY <1>0, <1>6, <2>1, <2>2 DEF TalkTypes, WritePushed
<1>7. CASE CRead
  <2>1. Tail(toClient) \in Seq(Data) /\ Head(toClient) \in Data
    BY <1>0, <1>7, TailFacts DEF TalkTypes, CRead
  <2>2. [data |-> Head(toClient), negotiated |-> cdone] \in Tasks
    BY <1>0, <2>1 DEF TalkTypes, Tasks
  <2> QED BY <1>0, <1>7, <2>1, <2>2 DEF TalkTypes, CRead
<1>8. ASSUME NEW t \in tasks, TaskFrame(t) PROVE TalkTypes'
  <2>1. t.data \in Data /\ t.data.msg \in Msgs
    BY <1>0, <1>t DEF TalkTypes
  <2>2. outrun' \subseteq Msgs
    BY <1>0, <1>8, <2>1 DEF TalkTypes, TaskFrame
  <2>3. /\ tasks' \subseteq Tasks /\ ptasks' \subseteq Data
        /\ heard' \in [Sides -> SUBSET Msgs] /\ lost' \in [Sides -> SUBSET Msgs]
    BY <1>0, <1>8, <2>1, SMTT(30) DEF TalkTypes, TaskFrame, NoteHeard, NoteLost, Notify
  <2> QED BY <1>0, <1>8, <2>2, <2>3 DEF TalkTypes, TaskFrame
<1>9. ASSUME NEW t \in tasks, TaskAck(t) PROVE TalkTypes'
  BY <1>0, <1>9, AckTyped DEF TalkTypes, TaskAck
<1>10. CASE SendReady
  <2>1. Serialize(creg, PRE_NEGOTIATION_PARSER, "NEGOTIATION_READY") \in Data
    BY <1>0, PreSerialized, RegistryFacts DEF Control
  <2>2. toServer' \in Seq(Data) /\ dropped' \subseteq Msgs
    BY <1>0, <1>10, <2>1, DeliverTyped DEF TalkTypes, SendReady
  <2>3. PICK t \in tasks : tasks' = tasks \ {t} /\ Notify(t.data)
    BY <1>10 DEF SendReady
  <2>4. tasks' \subseteq Tasks /\ ptasks' \subseteq Data
    BY <1>0, <1>t, <2>3 DEF TalkTypes, Notify
  <2> QED BY <1>0, <1>10, <2>2, <2>4 DEF TalkTypes, SendReady
<1>11. ASSUME NEW m \in ClientMsgs, Encode(m) PROVE TalkTypes'
  <2>1. Serialize(creg, cparser, m) \in Data
    BY <1>0, <1>11, SerializeTyped, RegistryFacts DEF Encode, TalkTypes
  <2> QED BY <1>0, <1>11, <2>1 DEF TalkTypes, Encode
<1>12. ASSUME NEW d \in encoded, Write(d) PROVE TalkTypes'
  <2>1. toServer' \in Seq(Data) /\ dropped' \subseteq Msgs
    BY <1>0, <1>12, DeliverTyped DEF TalkTypes, Write
  <2> QED BY <1>0, <1>12, <2>1 DEF TalkTypes, Write
<1>13. CASE AttachListener
  BY <1>0, <1>13 DEF TalkTypes, AttachListener
<1>14. CASE UpdatePipeline
  BY <1>0, <1>14 DEF TalkTypes, UpdatePipeline
<1>15. CASE BuildFails
  BY <1>0, <1>15 DEF TalkTypes, BuildFails
<1>16. ASSUME NEW d \in ptasks, Listen(d) PROVE TalkTypes'
  <2>1. d \in Data /\ d.msg \in Msgs
    BY <1>0, <1>d DEF TalkTypes
  <2>2. pparser' \in Parsers
    BY <1>0, <1>16, AckTyped DEF TalkTypes, Listen
  <2>3. lost' = lost \/ lost' = [lost EXCEPT !["listener"] = @ \cup {d.msg}]
    BY <1>16, Zenon DEF Listen, NoteLost
  <2>4. lost' \in [Sides -> SUBSET Msgs]
    <3>1. d.msg \in Msgs /\ lost \in [Sides -> SUBSET Msgs]
      BY <1>0, <2>1 DEF TalkTypes
    <3> QED BY <1>0, <2>3, <3>1, NoteFacts
  <2> QED BY <1>0, <1>16, <2>2, <2>4 DEF TalkTypes, Listen
<1> QED
  BY <1>1, <1>2, <1>3, <1>4, <1>5, <1>6, <1>7, <1>8, <1>9, <1>10, <1>11, <1>12, <1>13,
     <1>14, <1>15, <1>16, <1>c DEF Talks

BaseInv == TypeOK /\ BeforeBuilt /\ ProfileFacts

(* The base of the invariant holds at first.                               *)
LEMMA BaseInit == Init => BaseInv
<1> SUFFICES ASSUME Init PROVE BaseInv
  OBVIOUS
<1>1. ckind \in ClientKinds /\ skind \in ServerKinds /\ 0 \in 0 .. MaxCalls
  BY WireAssumption DEF Init
<1>2. Typed(ccfg, ClientTypes) /\ Typed(scfg, ServerTypes)
  BY ClientDefaultsTyped, ServerDefaultsTyped DEF Init
<1>3. <<>> \in Seq(Data) /\ NoMsgs \in [Sides -> SUBSET Msgs]
  BY DEF NoMsgs
<1>4. TypeOK
  BY <1>1, <1>2, <1>3, PreTyped DEF Init, TypeOK
<1>5. prof.built = FALSE
  BY DEF Init, NoProfile
<1> QED BY <1>4, <1>5 DEF BaseInv, BeforeBuilt, ProfileFacts, Init

(* What Connect leaves, and what it starts from.                           *)
LEMMA ConnectFacts ==
  ASSUME BaseInv, Connect
  PROVE  /\ TypeOK' /\ prof' = Profile /\ prof'.built = TRUE
         /\ creg' = creg /\ sreg' = sreg /\ ckind' = ckind
         /\ prof'.initial \in Parsers /\ prof'.result \in Parsers
         /\ ~prof'.forced => prof'.initial = PRE_NEGOTIATION_PARSER
         /\ CompressionFromStr(prof'.result.compression) = prof'.result.compression
         /\ \/ prof'.result.compression \in creg.compressors
            \/ prof'.result.compression = CompressionFromStr(prof'.metadata.compression)
         /\ prof'.open => prof'.reaches
         /\ cparser' = prof'.initial /\ cdone' = FALSE /\ ended' = FALSE
         /\ tasks' = {} /\ acking' = "no"
         /\ encoded' = {} /\ ptasks' = {}
         /\ sstate' = "pre" /\ pushed' = <<>>
         /\ build' = IF ckind = "flare" THEN "connected" ELSE "done"
         /\ toServer' = <<Serialize(creg, prof'.connect, "CONNECT")>> /\ toClient' = <<>>
         /\ lost' = NoMsgs /\ stale' = {} /\ late' = {}
         /\ Serialize(creg, prof'.connect, "CONNECT") \in Data
<1> DEFINE d == Serialize(creg, ConnectParser(ccfg), "CONNECT")
<1>1. /\ ~prof.built /\ prof' = Profile /\ cparser' = InitialParser(ccfg)
      /\ toServer' = <<d>> /\ build' = IF ckind = "flare" THEN "connected" ELSE "done"
      /\ ccfg' = ClientDefaults /\ scfg' = ServerDefaults /\ calls' = 0
      /\ ckind' = ckind /\ skind' = skind /\ creg' = creg /\ sreg' = sreg
      /\ cdone' = cdone /\ ended' = ended /\ tasks' = tasks /\ acking' = acking /\ encoded' = encoded
      /\ pparser' = pparser /\ ptasks' = ptasks /\ sstate' = sstate
      /\ sparser' = sparser /\ pushed' = pushed /\ toClient' = toClient
      /\ heard' = heard /\ lost' = lost /\ stale' = stale /\ late' = late
      /\ dropped' = dropped /\ outrun' = outrun
  BY DEF Connect, serverVars, logVars
<1>2. /\ cdone' = FALSE /\ ended' = FALSE /\ tasks' = {} /\ acking' = "no" /\ encoded' = {} /\ ptasks' = {}
      /\ sstate' = "pre" /\ pushed' = <<>> /\ toClient' = <<>>
      /\ lost' = NoMsgs /\ stale' = {} /\ late' = {}
  BY <1>1 DEF BaseInv, BeforeBuilt
<1>3. Typed(ccfg, ClientTypes) /\ Typed(scfg, ServerTypes) /\ creg \in Registries
      /\ CompressionRegistered(creg, "none")
  BY RegistryFacts DEF BaseInv, TypeOK
<1>4. InitialParser(ccfg) \in Parsers /\ ConnectParser(ccfg) \in Parsers
      /\ ConnectParser(ccfg).encryption = "none"
  BY <1>3, InitialTyped
<1>5. d \in Data
  <2>1. CanSerialize(creg, ConnectParser(ccfg))
    BY <1>4 DEF CanSerialize, EncryptionRegistered
  <2>2. "CONNECT" \in Msgs
    BY DEF Msgs, Control
  <2> QED BY <1>3, <1>4, <2>1, <2>2, SerializeTyped
<1> HIDE DEF d
<1>6. <<d>> \in Seq(Data) /\ 0 \in 0 .. MaxCalls
  BY <1>5, WireAssumption
<1>7. Typed(ClientDefaults, ClientTypes) /\ Typed(ServerDefaults, ServerTypes)
  BY ClientDefaultsTyped, ServerDefaultsTyped
<1>8. TypeOK'
  BY <1>1, <1>4, <1>6, <1>7 DEF BaseInv, TypeOK
<1> QED BY <1>1, <1>2, <1>3, <1>5, <1>8, ProfileSound DEF d

(* Every step keeps the base of the invariant.                             *)
LEMMA BaseStep == BaseInv /\ [Next]_vars => BaseInv'
<1> SUFFICES ASSUME BaseInv, [Next]_vars PROVE BaseInv'
  OBVIOUS
<1>1. CASE UNCHANGED vars
  BY <1>1 DEF BaseInv, TypeOK, BeforeBuilt, ProfileFacts, vars, configVars, coreVars,
              listenerVars, serverVars, lineVars, logVars
<1>2. CASE CallClient
  <2>1. PICK c \in Calls.client : ccfg' = SetClient(ccfg, c[1], c[2])
    BY <1>2 DEF CallClient
  <2>2. Typed(ccfg', ClientTypes)
    BY <2>1, WireAssumption, SetClientTyped DEF BaseInv, TypeOK
  <2>3. calls' \in 0 .. MaxCalls
    BY <1>2, WireAssumption DEF CallClient, BaseInv, TypeOK
  <2> QED BY <1>2, <2>2, <2>3 DEF CallClient, BaseInv, TypeOK, BeforeBuilt, ProfileFacts,
            coreVars, listenerVars, serverVars, lineVars, logVars
<1>3. CASE CallServer
  <2>1. PICK c \in Calls.server : scfg' = SetServer(scfg, c[1], c[2])
    BY <1>3 DEF CallServer
  <2>2. Typed(scfg', ServerTypes)
    BY <2>1, WireAssumption, SetServerTyped DEF BaseInv, TypeOK
  <2>3. calls' \in 0 .. MaxCalls
    BY <1>3, WireAssumption DEF CallServer, BaseInv, TypeOK
  <2> QED BY <1>3, <2>2, <2>3 DEF CallServer, BaseInv, TypeOK, BeforeBuilt, ProfileFacts,
            coreVars, listenerVars, serverVars, lineVars, logVars
<1>4. CASE Connect
  BY <1>4, ConnectFacts DEF BaseInv, BeforeBuilt, ProfileFacts
<1>5. CASE Talks
  <2>1. prof.built /\ UNCHANGED configVars
    BY <1>5, TalksBuilt DEF BaseInv
  <2>2. TalkTypes'
    BY <1>5, <2>1, TalksTyped DEF BaseInv, ProfileFacts
  <2>3. TypeOK'
    BY <2>1, <2>2 DEF BaseInv, TypeOK, TalkTypes, configVars
  <2>4. BeforeBuilt' /\ ProfileFacts'
    BY <2>1 DEF BaseInv, BeforeBuilt, ProfileFacts, configVars
  <2> QED BY <2>3, <2>4 DEF BaseInv
<1> QED BY <1>1, <1>2, <1>3, <1>4, <1>5, NextTalks

-----------------------------------------------------------------------------
(* The switch of the parsers.                                              *)

(* What a step of the builders leaves alone.                               *)
Quiet == UNCHANGED <<ckind, creg, sreg, prof, coreVars, listenerVars, serverVars, lineVars,
                     logVars>>

(* Setters are called before anything is built, and touch only a           *)
(* configuration.                                                          *)
LEMMA CallsQuiet ==
  ASSUME CallClient \/ CallServer \/ UNCHANGED vars
  PROVE  Quiet
BY DEF CallClient, CallServer, Quiet, vars, configVars

(* The cases every part of the invariant is proved over.                   *)
LEMMA StepCases ==
  ASSUME BaseInv, [Next]_vars
  PROVE  \/ Quiet
         \/ Connect
         \/ Talks /\ prof.built /\ UNCHANGED configVars
BY CallsQuiet, NextTalks, TalksBuilt DEF BaseInv

(* Every step keeps Switches: the client changes its parser with its flag, *)
(* and the server with its state.                                          *)
LEMMA SwitchesStep ==
  ASSUME BaseInv, BaseInv', Switches, [Next]_vars
  PROVE  Switches'
<1> USE DEF coreVars, listenerVars, serverVars, lineVars, logVars
<1>1. CASE Quiet
  <2>1. Supported' <=> Supported
    BY <1>1, SupportedStable DEF Quiet
  <2> QED BY <1>1, <2>1 DEF Switches, Quiet
<1>2. CASE Connect
  BY <1>2, ConnectFacts DEF Switches
<1>3. ASSUME Talks, prof.built, UNCHANGED configVars PROVE Switches'
  <2>1. (Supported' <=> Supported) /\ prof' = prof
    BY <1>3, SupportedStable DEF configVars
  <2>k. ASSUME UNCHANGED <<cparser, cdone, ended, acking>>, tasks' \subseteq tasks,
               sstate' = sstate \/ sstate # "closed",
               \/ UNCHANGED <<sstate, sparser>>
               \/ sstate' \notin {"finalized", "completed", "confirmed"}
               \/ sparser' = prof.result
        PROVE  Switches'
    BY <2>1, <2>k, <1>3 DEF Switches
  <2>2. CASE TakeBeforeNegotiation
    <3>1. /\ sstate = "pre" /\ sstate' \in {"pre", "accepted"}
          /\ UNCHANGED <<cparser, cdone, ended, acking, tasks>>
      BY <2>2, Zenon DEF TakeBeforeNegotiation
    <3> QED BY <2>k, <3>1
  <2>3. CASE SendAck \/ FinalizeNegotiation \/ OnConnect
    <3>1. OnConnect => sparser = prof.result
      BY DEF OnConnect, Switches
    <3> QED BY <2>3, <2>k, <3>1 DEF SendAck, FinalizeNegotiation, OnConnect
  <2>c. CASE Closing
    BY <2>c, <2>k, ClosingFacts DEF BaseInv
  <2>e. CASE CClose
    BY <2>1, <2>e DEF CClose, Switches
  <2>4. CASE TakeNegotiated
    <3>1. /\ UNCHANGED <<cparser, cdone, ended, acking, tasks, sparser>>
          /\ sparser = prof.result /\ sstate # "closed"
      BY <2>4 DEF TakeNegotiated, Switches
    <3> QED BY <2>k, <3>1
  <2>5. ASSUME NEW m \in ServerMsgs, Push(m) PROVE Switches'
    BY <2>5, <2>k DEF Push
  <2>6. CASE WritePushed \/ AttachListener \/ UpdatePipeline \/ BuildFails
    BY <2>6, <2>k DEF WritePushed, AttachListener, UpdatePipeline, BuildFails
  <2>7. CASE CRead
    BY <2>7, <2>1, <1>3 DEF CRead, Switches
  <2>8. ASSUME NEW u \in tasks, TaskFrame(u) PROVE Switches'
    BY <2>8, <2>k DEF TaskFrame
  <2>9. ASSUME NEW u \in tasks, TaskAck(u) PROVE Switches'
    <3>1. /\ cdone' = TRUE /\ acking' = "switched" /\ acking = "no"
          /\ UNCHANGED <<ended, tasks, sstate, sparser>>
          /\ cparser' = IF prof.forced THEN cparser
                        ELSE HandleConnectAck(ConnectAck(sreg, prof.result))
      BY <2>9 DEF TaskAck
    <3>2. Supported => cparser' = prof.result
      <4> SUFFICES ASSUME Supported PROVE cparser' = prof.result
        OBVIOUS
      <4>1. CASE prof.forced
        <5>1. cparser = prof.initial /\ prof.result = prof.initial
          BY <1>3, <3>1, <4>1 DEF Switches, Supported
        <5> QED BY <3>1, <4>1, <5>1
      <4>2. CASE ~prof.forced
        BY <1>3, <3>1, <4>2, AckIsResult DEF BaseInv, ProfileFacts
      <4> QED BY <4>1, <4>2
    <3> QED BY <2>1, <3>1, <3>2 DEF Switches
  <2>10. CASE SendReady
    <3>1. /\ acking' = "ready" /\ acking = "switched"
          /\ UNCHANGED <<cparser, cdone, ended, sstate, sparser>> /\ tasks' \subseteq tasks
      BY <2>10 DEF SendReady
    <3> QED BY <2>1, <3>1 DEF Switches
  <2>11. ASSUME NEW m \in ClientMsgs, Encode(m) PROVE Switches'
    BY <2>11, <2>k DEF Encode
  <2>12. ASSUME NEW d \in encoded, Write(d) PROVE Switches'
    BY <2>12, <2>k DEF Write
  <2>13. ASSUME NEW d \in ptasks, Listen(d) PROVE Switches'
    BY <2>13, <2>k DEF Listen
  <2> QED BY <1>3, <2>2, <2>3, <2>4, <2>5, <2>6, <2>7, <2>8, <2>9, <2>10, <2>11, <2>12, <2>13,
             <2>c, <2>e DEF Talks
<1> QED BY <1>1, <1>2, <1>3, StepCases

(* Every step keeps Compressions: a push is encoded with no compression or *)
(* with the agreed one.                                                    *)
LEMMA CompressionsStep ==
  ASSUME BaseInv, BaseInv', Switches, Compressions, [Next]_vars
  PROVE  Compressions'
<1> USE DEF coreVars, listenerVars, serverVars, lineVars, logVars
<1>1. CASE Quiet
  BY <1>1 DEF Compressions, Undoable, Quiet
<1>2. CASE Connect
  <2>1. pushed' = <<>> /\ toClient' = <<>>
    BY <1>2, ConnectFacts
  <2> QED BY <2>1 DEF Compressions
<1>3. ASSUME Talks, prof.built, UNCHANGED configVars PROVE Compressions'
  <2>1. \A d : Undoable(d)' <=> Undoable(d)
    BY <1>3 DEF Undoable, configVars
  <2>2. pushed \in Seq(Data) /\ toClient \in Seq(Data) /\ creg' = creg /\ prof' = prof
    BY <1>3 DEF BaseInv, TypeOK, configVars
  <2>k. ASSUME UNCHANGED <<pushed, toClient>> PROVE Compressions'
    BY <2>1, <2>2, <2>k DEF Compressions, Undoable
  <2>c. ASSUME NEW m, NEW p, p = PRE_NEGOTIATION_PARSER \/ p = prof.result
        PROVE  Undoable(Serialize(sreg, p, m))
    <3>1. "none" \in creg.compressors
      BY RegistryFacts DEF BaseInv, CompressionRegistered
    <3>2. Serialize(sreg, p, m).compression \in {"none", prof.result.compression}
      BY <2>c, SerializeShape DEF Compressed, PRE_NEGOTIATION_PARSER
    <3> QED BY <1>3, <3>1, <3>2 DEF Undoable, BaseInv, ProfileFacts
  <2>3. CASE TakeBeforeNegotiation \/ FinalizeNegotiation \/ TakeNegotiated \/ OnConnect \/ CClose
    BY <2>3, <2>k DEF TakeBeforeNegotiation, FinalizeNegotiation, TakeNegotiated, OnConnect, CClose
  <2>e. CASE Closing
    <3>1. CASE toClient' = toClient
      BY <2>1, <2>2, <2>e, <3>1, ClosingFacts DEF Compressions, Undoable, BaseInv
    <3>2. CASE toClient' # toClient
      <4>1. PICK e \in Data :
              /\ toClient' = Append(toClient, e)
              /\ \/ e = Serialize(sreg, PRE_NEGOTIATION_PARSER, "ERROR")
                 \/ sstate = "finalized" /\ e = Serialize(sreg, sparser, "KICKED")
        BY <2>e, <3>2, ClosingFacts DEF BaseInv
      <4>2. Undoable(e)
        <5>1. CASE e = Serialize(sreg, PRE_NEGOTIATION_PARSER, "ERROR")
          BY <2>c, <5>1
        <5>2. CASE sstate = "finalized" /\ e = Serialize(sreg, sparser, "KICKED")
          BY <2>c, <5>2 DEF Switches
        <5> QED BY <4>1, <5>1, <5>2
      <4>3. pushed' = <<>>
        BY <2>e, ClosingFacts DEF BaseInv
      <4> QED BY <2>1, <2>2, <4>1, <4>2, <4>3, AppendFacts DEF Compressions, Undoable
    <3> QED BY <3>1, <3>2
  <2>4. CASE SendAck
    <3> DEFINE e == Serialize(sreg, PRE_NEGOTIATION_PARSER, "CONNECT_ACK")
    <3>1. Undoable(e) /\ e \in Data
      BY <2>c, PreSerialized, RegistryFacts DEF BaseInv, Msgs, Control
    <3> HIDE DEF e
    <3>2. toClient' = Append(toClient, e) /\ pushed' = pushed
      BY <2>4 DEF SendAck, e
    <3> QED BY <2>1, <2>2, <3>1, <3>2, AppendFacts DEF Compressions, Undoable
  <2>5. ASSUME NEW m \in ServerMsgs, Push(m) PROVE Compressions'
    <3> DEFINE e == Serialize(sreg, PushParser, m)
    <3>1. PushParser = PRE_NEGOTIATION_PARSER \/ PushParser = prof.result
      BY DEF PushParser, Switches
    <3>2. PushParser \in Parsers
      BY <1>3, <3>1, PreTyped DEF BaseInv, ProfileFacts
    <3>3. Undoable(e) /\ e \in Data
      BY <2>5, <2>c, <3>1, <3>2, SerializeTyped, RegistryFacts DEF BaseInv, Msgs, Push
    <3> HIDE DEF e
    <3>4. pushed' = Append(pushed, e) /\ toClient' = toClient
      BY <2>5 DEF Push, e
    <3>5. \A i \in DOMAIN pushed' : pushed'[i] = e \/ (i \in DOMAIN pushed /\ pushed'[i] = pushed[i])
      BY <2>2, <3>3, <3>4, AppendFacts
    <3> QED BY <2>1, <3>3, <3>4, <3>5 DEF Compressions, Undoable
  <2>6. CASE WritePushed
    <3>1. /\ pushed # <<>> /\ pushed' = Tail(pushed)
          /\ toClient' = Append(toClient, Head(pushed))
      BY <2>6 DEF WritePushed
    <3>2. Head(pushed) \in Data /\ Undoable(Head(pushed))
      BY <2>2, <3>1, TailFacts DEF Compressions
    <3>3. \A i \in DOMAIN pushed' : Undoable(pushed'[i])
      BY <2>2, <3>1, TailFacts DEF Compressions
    <3>4. \A i \in DOMAIN toClient' : Undoable(toClient'[i])
      BY <2>2, <3>1, <3>2, AppendFacts DEF Compressions
    <3> QED BY <2>2, <3>3, <3>4 DEF Compressions, Undoable
  <2>7. CASE CRead
    <3>1. /\ toClient # <<>> /\ toClient' = Tail(toClient) /\ pushed' = pushed
      BY <2>7 DEF CRead
    <3>2. \A i \in DOMAIN toClient' : Undoable(toClient'[i])
      BY <2>2, <3>1, TailFacts DEF Compressions
    <3> QED BY <2>2, <3>1, <3>2 DEF Compressions, Undoable
  <2>8. ASSUME NEW u \in tasks, TaskFrame(u) \/ TaskAck(u) PROVE Compressions'
    BY <2>8, <2>k DEF TaskFrame, TaskAck
  <2>9. ASSUME NEW m \in ClientMsgs, Encode(m) PROVE Compressions'
    BY <2>9, <2>k DEF Encode
  <2>10. ASSUME NEW d \in encoded, Write(d) PROVE Compressions'
    BY <2>10, <2>k DEF Write
  <2>11. CASE SendReady \/ AttachListener \/ UpdatePipeline \/ BuildFails
    BY <2>11, <2>k DEF SendReady, AttachListener, UpdatePipeline, BuildFails
  <2>12. ASSUME NEW d \in ptasks, Listen(d) PROVE Compressions'
    BY <2>12, <2>k DEF Listen
  <2> QED BY <1>3, <2>3, <2>4, <2>5, <2>6, <2>7, <2>8, <2>9, <2>10, <2>11, <2>12,
             <2>e DEF Talks
<1> QED BY <1>1, <1>2, <1>3, StepCases

-----------------------------------------------------------------------------
(* From the client to the server.                                          *)

(* Every step keeps Unwritten: what was encoded before the switch is       *)
(* marked stale until it is written.                                       *)
LEMMA UnwrittenStep ==
  ASSUME BaseInv, BaseInv', Switches, Unwritten, [Next]_vars
  PROVE  Unwritten'
<1> USE DEF coreVars, listenerVars, serverVars, lineVars, logVars
<1>1. CASE Quiet
  <2>1. (Supported' <=> Supported) /\ Example' = Example
    BY <1>1, SupportedStable DEF Quiet
  <2> QED BY <1>1, <2>1 DEF Unwritten, Agreed, Bare, Quiet
<1>2. CASE Connect
  <2>1. encoded' = {}
    BY <1>2, ConnectFacts
  <2> QED BY <2>1 DEF Unwritten
<1>3. ASSUME Talks, prof.built, UNCHANGED configVars PROVE Unwritten'
  <2>1. (Supported' <=> Supported) /\ Example' = Example /\ prof' = prof
    BY <1>3, SupportedStable DEF configVars
  <2>k. ASSUME UNCHANGED <<encoded, stale>> PROVE Unwritten'
    BY <2>1, <2>k DEF Unwritten, Agreed, Bare
  <2>2. CASE TakeBeforeNegotiation \/ SendAck \/ FinalizeNegotiation \/ TakeNegotiated
    BY <2>2, <2>k DEF TakeBeforeNegotiation, SendAck, FinalizeNegotiation, TakeNegotiated
  <2>c. CASE OnConnect \/ Closing \/ CClose
    BY <2>c, <2>k, ClosingFacts DEF OnConnect, CClose, BaseInv
  <2>3. ASSUME NEW m \in ServerMsgs, Push(m) PROVE Unwritten'
    BY <2>3, <2>k DEF Push
  <2>4. CASE WritePushed \/ CRead \/ SendReady
    BY <2>4, <2>k DEF WritePushed, CRead, SendReady
  <2>5. ASSUME NEW u \in tasks, TaskFrame(u) \/ TaskAck(u) PROVE Unwritten'
    BY <2>5, <2>k DEF TaskFrame, TaskAck
  <2>6. ASSUME NEW m \in ClientMsgs, Encode(m) PROVE Unwritten'
    <3> DEFINE e == Serialize(creg, cparser, m)
    <3>1. e.msg = m
      BY SerializeShape
    <3>2. Supported => Agreed(e) \/ (Bare(e) /\ ~cdone)
      <4> SUFFICES ASSUME Supported PROVE Agreed(e) \/ (Bare(e) /\ ~cdone)
        OBVIOUS
      <4>1. CASE cdone
        BY <1>3, <4>1, AgreedEncoding DEF Switches
      <4>2. CASE ~cdone
        <5>1. acking = "no"
          BY <2>6, <4>2 DEF Encode, Switches
        <5> QED BY <1>3, <4>2, <5>1, InitialEncoding DEF Switches, BaseInv, ProfileFacts
      <4> QED BY <4>1, <4>2
    <3> HIDE DEF e
    <3>3. /\ encoded' = encoded \cup {e} /\ \A d \in encoded : d.msg # m
          /\ stale' = IF cdone THEN stale ELSE stale \cup {m}
      BY <2>6 DEF Encode, Unsent, e
    <3>4. \A d \in encoded' : d.msg \in ClientMsgs
      BY <3>1, <3>3 DEF Unwritten
    <3>5. \A d, f \in encoded' : d.msg = f.msg => d = f
      BY <3>1, <3>3 DEF Unwritten
    <3>6. Supported => \A d \in encoded' : Agreed(d) \/ (Bare(d) /\ d.msg \in stale')
      BY <1>3, <3>1, <3>2, <3>3 DEF Unwritten
    <3> QED BY <2>1, <3>4, <3>5, <3>6 DEF Unwritten, Agreed, Bare
  <2>7. ASSUME NEW d \in encoded, Write(d) PROVE Unwritten'
    <3>1. /\ encoded' = encoded \ {d}
          /\ stale' = IF acking = "ready" THEN stale ELSE stale \ {d.msg}
      BY <2>7 DEF Write
    <3>2. \A e \in encoded' : e \in encoded /\ e.msg # d.msg
      BY <3>1 DEF Unwritten
    <3>3. Supported => \A e \in encoded' : Agreed(e) \/ (Bare(e) /\ e.msg \in stale')
      BY <1>3, <3>1, <3>2 DEF Unwritten
    <3> QED BY <2>1, <3>2, <3>3 DEF Unwritten, Agreed, Bare
  <2>8. CASE AttachListener \/ UpdatePipeline \/ BuildFails
    BY <2>8, <2>k DEF AttachListener, UpdatePipeline, BuildFails
  <2>9. ASSUME NEW d \in ptasks, Listen(d) PROVE Unwritten'
    BY <2>9, <2>k DEF Listen
  <2> QED BY <1>3, <2>2, <2>3, <2>4, <2>5, <2>6, <2>7, <2>8, <2>9, <2>c DEF Talks
<1> QED BY <1>1, <1>2, <1>3, StepCases

(* Every step keeps ReadyLast: only SendReady writes NEGOTIATION_READY,    *)
(* and only its arrival confirms.                                          *)
LEMMA ReadyLastStep ==
  ASSUME BaseInv, BaseInv', Unwritten, ReadyLast, [Next]_vars
  PROVE  ReadyLast'
<1> USE DEF coreVars, listenerVars, serverVars, lineVars, logVars
<1>1. CASE Quiet
  BY <1>1 DEF ReadyLast, Quiet
<1>2. CASE Connect
  <2> DEFINE d == Serialize(creg, prof'.connect, "CONNECT")
  <2>1. toServer' = <<d>> /\ sstate' = "pre" /\ d.msg = "CONNECT"
    BY <1>2, ConnectFacts, SerializeShape
  <2> HIDE DEF d
  <2> QED BY <2>1 DEF ReadyLast
<1>3. ASSUME Talks, prof.built, UNCHANGED configVars PROVE ReadyLast'
  <2>0. toServer \in Seq(Data)
    BY DEF BaseInv, TypeOK
  <2>k. ASSUME UNCHANGED <<acking, toServer>>, sstate' # "confirmed" \/ sstate' = sstate
        PROVE  ReadyLast'
    BY <2>k DEF ReadyLast
  <2>2. CASE TakeBeforeNegotiation
    <3>1. /\ toServer # <<>> /\ toServer' = Tail(toServer) /\ acking' = acking
          /\ sstate' # "confirmed"
      BY <2>2, Zenon DEF TakeBeforeNegotiation
    <3> QED BY <2>0, <3>1, TailFacts DEF ReadyLast
  <2>3. CASE SendAck \/ FinalizeNegotiation \/ OnConnect
    BY <2>3, <2>k DEF SendAck, FinalizeNegotiation, OnConnect
  <2>c. CASE Closing \/ CClose
    BY <2>c, <2>k, ClosingFacts DEF CClose, BaseInv
  <2>4. CASE TakeNegotiated
    <3>1. /\ toServer # <<>> /\ toServer' = Tail(toServer) /\ acking' = acking
          /\ sstate' = sstate \/ Head(toServer).msg = "NEGOTIATION_READY"
      BY <2>4 DEF TakeNegotiated, IsReady
    <3> QED BY <2>0, <3>1, TailFacts DEF ReadyLast
  <2>5. ASSUME NEW m \in ServerMsgs, Push(m) PROVE ReadyLast'
    BY <2>5, <2>k DEF Push
  <2>6. CASE WritePushed \/ CRead \/ AttachListener \/ UpdatePipeline \/ BuildFails
    BY <2>6, <2>k DEF WritePushed, CRead, AttachListener, UpdatePipeline, BuildFails
  <2>7. ASSUME NEW u \in tasks, TaskFrame(u) PROVE ReadyLast'
    BY <2>7, <2>k DEF TaskFrame
  <2>8. ASSUME NEW u \in tasks, TaskAck(u) PROVE ReadyLast'
    BY <2>8 DEF TaskAck, ReadyLast
  <2>9. CASE SendReady
    BY <2>9 DEF SendReady, ReadyLast
  <2>10. ASSUME NEW m \in ClientMsgs, Encode(m) PROVE ReadyLast'
    BY <2>10, <2>k DEF Encode
  <2>11. ASSUME NEW d \in encoded, Write(d) PROVE ReadyLast'
    <3>1. /\ toServer' = toServer \/ toServer' = Append(toServer, d)
          /\ UNCHANGED <<acking, sstate>>
      BY <2>11, DeliverFacts DEF Write
    <3>2. d \in Data /\ d.msg # "NEGOTIATION_READY"
      BY WireAssumption DEF Unwritten, BaseInv, TypeOK, Control
    <3> QED BY <2>0, <3>1, <3>2, AppendFacts DEF ReadyLast
  <2>12. ASSUME NEW d \in ptasks, Listen(d) PROVE ReadyLast'
    BY <2>12, <2>k DEF Listen
  <2> QED BY <1>3, <2>2, <2>3, <2>4, <2>5, <2>6, <2>7, <2>8, <2>9, <2>10, <2>11, <2>12,
             <2>c DEF Talks
<1> QED BY <1>1, <1>2, <1>3, StepCases

(* The first frame is CONNECT, and the server can read it.                 *)
LEMMA ArrivingConnect ==
  ASSUME BaseInv, Connect, Supported'
  PROVE  Arriving'
<1> DEFINE d == Serialize(creg, prof'.connect, "CONNECT")
<1>1. /\ toServer' = <<d>> /\ sstate' = "pre" /\ lost' = NoMsgs /\ d.msg = "CONNECT"
      /\ creg' = creg /\ "server" \in Sides
  BY ConnectFacts, SerializeShape DEF Sides
<1>2. Bare(d)
  <2>1. Parses(sreg', PRE_NEGOTIATION_PARSER, TRUE, d)
    BY <1>1 DEF Supported
  <2> QED BY <2>1, ConnectIsBare
<1> HIDE DEF d
<1> QED BY <1>1, <1>2 DEF Arriving, NoMsgs

(* A step of the connection keeps what holds of the line to the server.    *)
(* Writes append, and behind NEGOTIATION_READY only an agreed or a stale   *)
(* frame is appended; the server takes from the front, and its state says  *)
(* which frames it still has to tolerate.                                  *)
LEMMA ArrivingStep ==
  ASSUME BaseInv, BaseInv', Switches, Unwritten, ReadyLast, Arriving, Supported,
         Talks, prof.built, UNCHANGED configVars
  PROVE  Arriving'
<1> USE DEF coreVars, listenerVars, serverVars, lineVars, logVars
<1>0. /\ toServer \in Seq(Data) /\ lost \in [Sides -> SUBSET Msgs] /\ "server" \in Sides
      /\ "client" \in Sides /\ "listener" \in Sides
  BY DEF BaseInv, TypeOK, Sides
<1>1. \A d : /\ Agreed(d)' <=> Agreed(d)
             /\ Bare(d)' <=> Bare(d)
             /\ Settled(d)' <=> (\/ Agreed(d)
                                 \/ d.msg = "NEGOTIATION_READY" /\ Bare(d)
                                 \/ d.msg \in stale')
  BY SupportedStable DEF Agreed, Bare, Settled, configVars
<1>k. ASSUME UNCHANGED <<toServer, stale>>, lost'["server"] = lost["server"],
             sstate' = sstate \/ (sstate # "confirmed" /\ sstate' \notin {"pre", "confirmed"})
      PROVE  Arriving'
  BY <1>1, <1>k DEF Arriving, Agreed, Bare, Settled
<1>2. CASE TakeBeforeNegotiation
  <2> DEFINE d == Head(toServer)
  <2>1. sstate = "pre" /\ toServer # <<>> /\ toServer' = Tail(toServer) /\ stale' = stale
    BY <1>2 DEF TakeBeforeNegotiation
  <2>2. d \in Data /\ d.msg = "CONNECT" /\ Bare(d)
    BY <1>0, <2>1, TailFacts DEF Arriving
  <2>3. Parses(sreg, PRE_NEGOTIATION_PARSER, TRUE, d)
    BY <2>2, BareReads, DataShape
  <2>4. sstate' = "accepted" /\ lost' = lost
    BY <1>2, <2>2, <2>3, Zenon DEF TakeBeforeNegotiation
  <2> HIDE DEF d
  <2>5. \A i \in DOMAIN toServer' : Bare(toServer'[i]) \/ Agreed(toServer'[i])
    BY <1>0, <2>1, TailFacts DEF Arriving
  <2>6. \A i, j \in DOMAIN toServer' :
          (i < j /\ toServer'[i].msg = "NEGOTIATION_READY") => Settled(toServer'[j])
    BY <1>0, <2>1, TailFacts DEF Arriving
  <2> QED BY <1>1, <2>1, <2>4, <2>5, <2>6 DEF Arriving, Agreed, Bare, Settled
<1>3. CASE SendAck \/ FinalizeNegotiation \/ OnConnect \/ CClose
  BY <1>3, <1>k DEF SendAck, FinalizeNegotiation, OnConnect, CClose
<1>c. CASE Closing
  BY <1>c, <1>k, ClosingFacts DEF BaseInv
<1>4. CASE TakeNegotiated
  <2> DEFINE d == Head(toServer)
  <2>1. /\ sstate \in {"completed", "confirmed"} /\ toServer # <<>>
        /\ toServer' = Tail(toServer) /\ stale' = stale
    BY <1>4 DEF TakeNegotiated
  <2>2. d \in Data /\ (Bare(d) \/ Agreed(d)) /\ (sstate = "confirmed" => Settled(d))
    BY <1>0, <2>1, TailFacts DEF Arriving
  <2>3. \A i \in DOMAIN toServer' : Bare(toServer'[i]) \/ Agreed(toServer'[i])
    BY <1>0, <2>1, TailFacts DEF Arriving
  <2>4. \A i, j \in DOMAIN toServer' :
          (i < j /\ toServer'[i].msg = "NEGOTIATION_READY") => Settled(toServer'[j])
    BY <1>0, <2>1, TailFacts DEF Arriving
  <2>5. (sstate = "confirmed" \/ d.msg = "NEGOTIATION_READY")
          => \A i \in DOMAIN toServer' : Settled(toServer'[i])
    BY <1>0, <2>1, TailFacts DEF Arriving
  <2>6. CASE IsReady(d)
    <3>1. sstate' = "confirmed" /\ lost' = lost
      BY <1>4, <2>6, Zenon DEF TakeNegotiated
    <3>2. d.msg = "NEGOTIATION_READY"
      BY <2>6 DEF IsReady
    <3> QED BY <1>1, <2>1, <2>3, <2>4, <2>5, <3>1, <3>2 DEF Arriving, Agreed, Bare, Settled
  <2>7. CASE ~IsReady(d)
    <3>1. sstate' = sstate
      BY <1>4, <2>7, Zenon DEF TakeNegotiated
    <3>2. sparser = prof.result /\ EncryptionRegistered(sreg, prof.result.encryption)
      BY <2>1, AckIsResult DEF Switches, BaseInv, ProfileFacts
    <3>3. \/ lost' = lost
          \/ /\ ~Parses(sreg, prof.result, sstate = "completed", d)
             /\ lost' = [lost EXCEPT !["server"] = @ \cup {d.msg}]
      BY <1>4, <2>7, <3>2, Zenon DEF TakeNegotiated, NoteLost
    <3>4. ASSUME ~Parses(sreg, prof.result, sstate = "completed", d)
          PROVE  sstate = "confirmed" /\ d.msg \in stale
      <4>1. ~Agreed(d)
        BY <2>2, <3>4, AgreedReads
      <4>2. Parses(sreg, prof.result, TRUE, d)
        BY <2>2, <4>1, BareIsRead DEF BaseInv, ProfileFacts
      <4>3. sstate = "confirmed"
        BY <2>1, <3>4, <4>2
      <4>4. ~(d.msg = "NEGOTIATION_READY" /\ Bare(d))
        BY <2>2, <2>7, BareReads, DataShape DEF IsReady
      <4> QED BY <2>2, <4>1, <4>3, <4>4 DEF Settled
    <3>5. /\ lost'["server"] \subseteq stale
          /\ sstate # "confirmed" => lost'["server"] = {}
      <4>1. CASE lost' = lost
        BY <4>1 DEF Arriving
      <4>2. CASE /\ ~Parses(sreg, prof.result, sstate = "completed", d)
                 /\ lost' = [lost EXCEPT !["server"] = @ \cup {d.msg}]
        <5>1. lost'["server"] = lost["server"] \cup {d.msg}
          BY <1>0, <4>2
        <5> QED BY <3>4, <4>2, <5>1 DEF Arriving
      <4> QED BY <3>3, <4>1, <4>2
    <3> QED BY <1>1, <2>1, <2>3, <2>4, <2>5, <3>1, <3>5 DEF Arriving, Agreed, Bare, Settled
  <2> QED BY <2>6, <2>7
<1>5. ASSUME NEW m \in ServerMsgs, Push(m) PROVE Arriving'
  BY <1>5, <1>k DEF Push
<1>6. CASE WritePushed \/ CRead \/ AttachListener \/ UpdatePipeline \/ BuildFails
  BY <1>6, <1>k DEF WritePushed, CRead, AttachListener, UpdatePipeline, BuildFails
<1>7. ASSUME NEW u \in tasks, TaskFrame(u) PROVE Arriving'
  <2>1. lost' = lost \/ lost' = [lost EXCEPT !["client"] = @ \cup {u.data.msg}]
    BY <1>7, Zenon DEF TaskFrame, NoteLost
  <2>2. lost'["server"] = lost["server"]
    BY <1>0, <2>1
  <2> QED BY <1>7, <1>k, <2>2 DEF TaskFrame
<1>8. ASSUME NEW u \in tasks, TaskAck(u) PROVE Arriving'
  BY <1>8, <1>k DEF TaskAck
<1>9. CASE SendReady
  <2> DEFINE d == Serialize(creg, PRE_NEGOTIATION_PARSER, "NEGOTIATION_READY")
  <2>1. d \in Data /\ Bare(d)
    BY PreIsBare, PreSerialized, RegistryFacts DEF BaseInv, Msgs, Control
  <2> HIDE DEF d
  <2>2. /\ toServer' = toServer \/ toServer' = Append(toServer, d)
        /\ acking = "switched" /\ UNCHANGED <<sstate, stale, lost>>
    BY <1>9, DeliverFacts DEF SendReady, d
  <2>3. sstate # "confirmed" /\ \A i \in DOMAIN toServer : toServer[i].msg # "NEGOTIATION_READY"
    BY <2>2 DEF ReadyLast
  <2>4. \A i \in DOMAIN toServer' : Bare(toServer'[i]) \/ Agreed(toServer'[i])
    BY <1>0, <2>1, <2>2, AppendFacts DEF Arriving
  <2>5. \A i, j \in DOMAIN toServer' : i < j => toServer'[i].msg # "NEGOTIATION_READY"
    BY <1>0, <2>1, <2>2, <2>3, AppendFacts
  <2>6. sstate = "pre" => /\ toServer' # <<>> /\ Head(toServer').msg = "CONNECT"
                          /\ Bare(Head(toServer'))
    BY <1>0, <2>1, <2>2, AppendFacts DEF Arriving
  <2> QED BY <1>1, <2>2, <2>3, <2>4, <2>5, <2>6 DEF Arriving, Agreed, Bare, Settled
<1>10. ASSUME NEW m \in ClientMsgs, Encode(m) PROVE Arriving'
  <2>1. UNCHANGED <<toServer, sstate, lost>> /\ stale \subseteq stale'
    BY <1>10 DEF Encode
  <2> QED BY <1>1, <2>1 DEF Arriving, Agreed, Bare, Settled
<1>11. ASSUME NEW d \in encoded, Write(d) PROVE Arriving'
  <2>1. /\ toServer' = toServer \/ toServer' = Append(toServer, d)
        /\ UNCHANGED <<sstate, lost>>
        /\ stale' = IF acking = "ready" THEN stale ELSE stale \ {d.msg}
    BY <1>11, DeliverFacts DEF Write
  <2>2. /\ d \in Data /\ d.msg # "NEGOTIATION_READY"
        /\ Agreed(d) \/ (Bare(d) /\ d.msg \in stale)
    BY WireAssumption DEF Unwritten, BaseInv, TypeOK, Control
  <2>3. \A i \in DOMAIN toServer' : Bare(toServer'[i]) \/ Agreed(toServer'[i])
    BY <1>0, <2>1, <2>2, AppendFacts DEF Arriving
  <2>4. sstate = "pre" => /\ toServer' # <<>> /\ Head(toServer').msg = "CONNECT"
                          /\ Bare(Head(toServer'))
    BY <1>0, <2>1, <2>2, AppendFacts DEF Arriving
  <2>5. CASE acking = "ready"
    <3>1. stale' = stale /\ Settled(d)
      BY <2>1, <2>2, <2>5 DEF Settled
    <3>2. \A i, j \in DOMAIN toServer' :
            (i < j /\ toServer'[i].msg = "NEGOTIATION_READY") => Settled(toServer'[j])
      <4>1. CASE toServer' = toServer
        BY <4>1 DEF Arriving
      <4>2. CASE toServer' = Append(toServer, d)
        BY <1>0, <2>2, <3>1, <4>2, AppendFacts DEF Arriving
      <4> QED BY <2>1, <4>1, <4>2
    <3>3. sstate = "confirmed" => \A i \in DOMAIN toServer' : Settled(toServer'[i])
      BY <1>0, <2>1, <2>2, <3>1, AppendFacts DEF Arriving
    <3> QED BY <1>1, <2>1, <2>3, <2>4, <3>1, <3>2, <3>3 DEF Arriving, Agreed, Bare, Settled
  <2>6. CASE acking # "ready"
    <3>1. sstate # "confirmed" /\ lost["server"] = {}
      BY <2>6 DEF ReadyLast, Arriving
    <3>2. \A i \in DOMAIN toServer' : toServer'[i].msg # "NEGOTIATION_READY"
      BY <1>0, <2>1, <2>2, <2>6, AppendFacts DEF ReadyLast
    <3> QED BY <1>1, <2>1, <2>3, <2>4, <3>1, <3>2 DEF Arriving, Agreed, Bare, Settled
  <2> QED BY <2>5, <2>6
<1>12. ASSUME NEW d \in ptasks, Listen(d) PROVE Arriving'
  <2>1. lost' = lost \/ lost' = [lost EXCEPT !["listener"] = @ \cup {d.msg}]
    BY <1>12, Zenon DEF Listen, NoteLost
  <2>2. lost'["server"] = lost["server"]
    BY <1>0, <2>1
  <2> QED BY <1>12, <1>k, <2>2 DEF Listen
<1> QED BY <1>2, <1>3, <1>4, <1>5, <1>6, <1>7, <1>8, <1>9, <1>10, <1>11, <1>12,
           <1>c DEF Talks

(* Every step keeps ServerLine.                                            *)
LEMMA ServerLineStep ==
  ASSUME BaseInv, BaseInv', Switches, Unwritten, ReadyLast, ServerLine, [Next]_vars
  PROVE  ServerLine'
<1>1. CASE Quiet
  <2>1. (Supported' <=> Supported) /\ Example' = Example
    BY <1>1, SupportedStable DEF Quiet
  <2> QED BY <1>1, <2>1 DEF ServerLine, Arriving, Agreed, Bare, Settled, Quiet, coreVars,
            serverVars, lineVars, logVars
<1>2. CASE Connect
  BY <1>2, ArrivingConnect DEF ServerLine
<1>3. ASSUME Talks, prof.built, UNCHANGED configVars PROVE ServerLine'
  <2>1. Supported' <=> Supported
    BY <1>3, SupportedStable DEF configVars
  <2> QED BY <1>3, <2>1, ArrivingStep DEF ServerLine
<1> QED BY <1>1, <1>2, <1>3, StepCases

-----------------------------------------------------------------------------
(* From the server to the client.                                          *)

(* Only a server that knows of the switch encodes late frames.             *)
LEMMA LateKnownStep ==
  ASSUME BaseInv, LateKnown, [Next]_vars
  PROVE  LateKnown'
<1> USE DEF coreVars, listenerVars, serverVars, lineVars, logVars
<1>k. ASSUME late' = late, sstate' = sstate \/ sstate' = "confirmed" \/ sstate # "confirmed"
      PROVE  LateKnown'
  BY <1>k DEF LateKnown
<1>1. CASE Quiet
  BY <1>1, <1>k DEF Quiet
<1>2. CASE Connect
  BY <1>2, ConnectFacts DEF LateKnown
<1>3. CASE TakeBeforeNegotiation \/ SendAck \/ FinalizeNegotiation \/ TakeNegotiated
  BY <1>3, <1>k DEF TakeBeforeNegotiation, SendAck, FinalizeNegotiation, TakeNegotiated
<1>c. CASE OnConnect \/ Closing \/ CClose
  BY <1>c, <1>k, ClosingFacts DEF OnConnect, CClose, BaseInv
<1>4. ASSUME NEW m \in ServerMsgs, Push(m) PROVE LateKnown'
  BY <1>4 DEF Push, LateKnown
<1>5. CASE WritePushed \/ CRead \/ SendReady \/ AttachListener \/ UpdatePipeline \/ BuildFails
  BY <1>5, <1>k DEF WritePushed, CRead, SendReady, AttachListener, UpdatePipeline, BuildFails
<1>6. ASSUME NEW u \in tasks, TaskFrame(u) \/ TaskAck(u) PROVE LateKnown'
  BY <1>6, <1>k DEF TaskFrame, TaskAck
<1>7. ASSUME NEW m \in ClientMsgs, Encode(m) PROVE LateKnown'
  BY <1>7, <1>k DEF Encode
<1>8. ASSUME NEW d \in encoded, Write(d) PROVE LateKnown'
  BY <1>8, <1>k DEF Write
<1>9. ASSUME NEW d \in ptasks, Listen(d) PROVE LateKnown'
  BY <1>9, <1>k DEF Listen
<1> QED BY <1>1, <1>2, <1>3, <1>4, <1>5, <1>6, <1>7, <1>8, <1>9, <1>c, StepCases DEF Talks

(* A step of the connection keeps what holds of the server's frames on     *)
(* their way: a switched client can read them, also in a task that was     *)
(* started before the switch, for it tries the agreed parser too; and the  *)
(* client has switched when one of them is late.                           *)
LEMMA AnsweringStep ==
  ASSUME BaseInv, BaseInv', Switches, ReadyLast, LateKnown, Answering, Supported,
         Talks, prof.built, UNCHANGED configVars
  PROVE  Answering'
<1> USE DEF coreVars, listenerVars, serverVars, lineVars, logVars
<1>0. /\ pushed \in Seq(Data) /\ toClient \in Seq(Data) /\ lost \in [Sides -> SUBSET Msgs]
      /\ tasks \subseteq Tasks /\ late \subseteq ServerMsgs /\ ServerMsgs \cap Control = {}
      /\ "server" \in Sides /\ "client" \in Sides /\ "listener" \in Sides
  BY WireAssumption DEF BaseInv, TypeOK, Sides
<1>1. /\ \A d : Agreed(d)' <=> Agreed(d)
      /\ \A d : Readable(d)' <=> (Bare(d) \/ Agreed(d)) /\ (d.msg \in late' => Agreed(d))
  BY SupportedStable DEF Agreed, Bare, Readable, configVars
<1>2. late' = late => \A d : Readable(d)' <=> Readable(d)
  BY <1>1 DEF Readable
<1>k. ASSUME UNCHANGED <<pushed, toClient, late, outrun>>, tasks' \subseteq tasks,
             lost'["client"] = lost["client"]
      PROVE  Answering'
  BY <1>2, <1>k DEF Answering
<1>p. ASSUME NEW m, NEW p, p = PRE_NEGOTIATION_PARSER \/ p = prof.result
      PROVE  LET e == Serialize(sreg, p, m) IN e.msg = m /\ (Bare(e) \/ Agreed(e))
  BY <1>p, SerializeShape, PreIsBare, AgreedEncoding
<1>3. CASE TakeBeforeNegotiation \/ TakeNegotiated
  <2>1. \/ lost' = lost
        \/ lost' = [lost EXCEPT !["server"] = @ \cup {Head(toServer).msg}]
    BY <1>3, Zenon DEF TakeBeforeNegotiation, TakeNegotiated, NoteLost
  <2>2. lost'["client"] = lost["client"]
    BY <1>0, <2>1
  <2> QED BY <1>3, <1>k, <2>2 DEF TakeBeforeNegotiation, TakeNegotiated
<1>4. CASE \/ FinalizeNegotiation \/ OnConnect \/ CClose
           \/ AttachListener \/ UpdatePipeline \/ BuildFails
  BY <1>4, <1>k DEF FinalizeNegotiation, OnConnect, CClose, AttachListener, UpdatePipeline,
                    BuildFails
<1>a. ASSUME NEW e \in Data, Bare(e) \/ Agreed(e), e.msg \in Control,
             toClient' = Append(toClient, e), pushed' = pushed \/ pushed' = <<>>,
             UNCHANGED <<late, tasks, lost, outrun>>
      PROVE  Answering'
  <2>1. Readable(e)
    BY <1>0, <1>a DEF Readable
  <2>2. \A i \in DOMAIN toClient' : Readable(toClient'[i])
    BY <1>0, <1>a, <2>1, AppendFacts DEF Answering
  <2>3. \A i \in DOMAIN pushed' : Readable(pushed'[i])
    BY <1>a DEF Answering
  <2> QED BY <1>2, <1>a, <2>2, <2>3 DEF Answering
<1>5. CASE SendAck
  <2> DEFINE e == Serialize(sreg, PRE_NEGOTIATION_PARSER, "CONNECT_ACK")
  <2>1. e \in Data /\ e.msg \in Control /\ Bare(e)
    BY <1>p, PreIsBare, PreSerialized, RegistryFacts DEF BaseInv, Msgs, Control
  <2> HIDE DEF e
  <2>2. toClient' = Append(toClient, e) /\ UNCHANGED <<pushed, late, tasks, lost, outrun>>
    BY <1>5 DEF SendAck, e
  <2> QED BY <1>a, <2>1, <2>2
<1>6. CASE Closing
  <2>1. pushed' = <<>> /\ UNCHANGED <<late, tasks, lost, outrun>>
    BY <1>6, ClosingFacts DEF BaseInv
  <2>2. CASE toClient' = toClient
    BY <1>2, <2>1, <2>2 DEF Answering
  <2>3. CASE toClient' # toClient
    <3>1. PICK e \in Data :
            /\ toClient' = Append(toClient, e) /\ e.msg \in Control
            /\ \/ e = Serialize(sreg, PRE_NEGOTIATION_PARSER, "ERROR")
               \/ sstate = "finalized" /\ e = Serialize(sreg, sparser, "KICKED")
      BY <1>6, <2>3, ClosingFacts DEF BaseInv
    <3>2. Bare(e) \/ Agreed(e)
      <4>1. CASE e = Serialize(sreg, PRE_NEGOTIATION_PARSER, "ERROR")
        BY <1>p, <4>1
      <4>2. CASE sstate = "finalized" /\ e = Serialize(sreg, sparser, "KICKED")
        BY <1>p, <4>2 DEF Switches
      <4> QED BY <3>1, <4>1, <4>2
    <3> QED BY <1>a, <2>1, <3>1, <3>2
  <2> QED BY <2>2, <2>3
<1>7. ASSUME NEW m \in ServerMsgs, Push(m) PROVE Answering'
  <2> DEFINE e == Serialize(sreg, PushParser, m)
  <2>1. PushParser = PRE_NEGOTIATION_PARSER \/ PushParser = prof.result
    BY DEF PushParser, Switches
  <2>2. sstate = "confirmed" => PushParser = prof.result
    BY DEF PushParser, Switches
  <2>3. e \in Data
    BY <1>7, <2>1, PreTyped, SerializeTyped, RegistryFacts DEF BaseInv, ProfileFacts, Msgs, Push
  <2>4. e.msg = m /\ (Bare(e) \/ Agreed(e)) /\ (sstate = "confirmed" => Agreed(e))
    BY <1>p, <2>1, <2>2, AgreedEncoding
  <2> HIDE DEF e
  <2>5. /\ pushed' = Append(pushed, e) /\ UNCHANGED <<toClient, tasks, lost, outrun>>
        /\ late' = IF sstate = "confirmed" THEN late \cup {m} ELSE late
    BY <1>7 DEF Push, e
  <2>6. /\ \A i \in DOMAIN pushed : pushed[i].msg # m
        /\ \A i \in DOMAIN toClient : toClient[i].msg # m
        /\ \A u \in tasks : u.data.msg # m
        /\ m \notin lost["client"]
    BY <1>7 DEF Push, Pending
  <2>7. \A d : Readable(d) /\ d.msg # m => Readable(d)'
    BY <1>1, <2>5 DEF Readable
  <2>8. \A d : d = e => Readable(d)'
    <3>1. m \in late' => sstate = "confirmed"
      BY <2>5 DEF LateKnown
    <3> QED BY <1>1, <2>4, <3>1
  <2>9. \A i \in DOMAIN pushed' :
          pushed'[i] = e \/ (i \in DOMAIN pushed /\ pushed'[i] = pushed[i])
    BY <1>0, <2>3, <2>5, AppendFacts
  <2>10. lost'["client"] \cap late' = {} /\ lost'["client"] \subseteq outrun'
    BY <2>5, <2>6 DEF Answering
  <2> QED BY <2>5, <2>6, <2>7, <2>8, <2>9, <2>10 DEF Answering
<1>8. CASE WritePushed
  <2>1. /\ pushed # <<>> /\ pushed' = Tail(pushed) /\ toClient' = Append(toClient, Head(pushed))
        /\ UNCHANGED <<late, tasks, lost, outrun>>
    BY <1>8 DEF WritePushed
  <2>2. Head(pushed) \in Data /\ Readable(Head(pushed))
    BY <1>0, <2>1, TailFacts DEF Answering
  <2>3. \A i \in DOMAIN pushed' : Readable(pushed'[i])
    BY <1>0, <2>1, TailFacts DEF Answering
  <2>4. \A i \in DOMAIN toClient' : Readable(toClient'[i])
    BY <1>0, <2>1, <2>2, AppendFacts DEF Answering
  <2> QED BY <1>2, <2>1, <2>3, <2>4 DEF Answering
<1>9. CASE CRead
  <2>1. /\ toClient # <<>> /\ toClient' = Tail(toClient)
        /\ tasks' = tasks \cup {[data |-> Head(toClient), negotiated |-> cdone]}
        /\ UNCHANGED <<late, pushed, lost, outrun>>
    BY <1>9 DEF CRead
  <2>2. Readable(Head(toClient))
    BY <1>0, <2>1, TailFacts DEF Answering
  <2>3. \A i \in DOMAIN toClient' : Readable(toClient'[i])
    BY <1>0, <2>1, TailFacts DEF Answering
  <2>4. \A u \in tasks' : Readable(u.data)
    BY <2>1, <2>2 DEF Answering
  <2> QED BY <1>2, <2>1, <2>3, <2>4 DEF Answering
<1>10. ASSUME NEW u \in tasks, TaskFrame(u) PROVE Answering'
  <2>1. /\ tasks' \subseteq tasks /\ UNCHANGED <<pushed, toClient, late>>
        /\ \/ lost' = lost
           \/ ~CoreParses(u) /\ lost' = [lost EXCEPT !["client"] = @ \cup {u.data.msg}]
    BY <1>10, Zenon DEF TaskFrame, NoteLost
  <2>2. outrun' = IF u.negotiated \/ cdone THEN outrun ELSE outrun \cup {u.data.msg}
    BY <1>10 DEF TaskFrame
  <2>3. (u.negotiated \/ cdone) => CoreParses(u)
    <3> SUFFICES ASSUME u.negotiated \/ cdone PROVE CoreParses(u)
      OBVIOUS
    <3>1. cparser = prof.result
      BY DEF Switches
    <3>2. (Bare(u.data) \/ Agreed(u.data)) /\ u.data \in Data
      BY <1>0 DEF Answering, Readable, Tasks
    <3>3. Parses(creg, prof.result, TRUE, u.data)
      BY <3>2, AgreedReads, BareIsRead DEF BaseInv, ProfileFacts
    <3> QED BY <3>1, <3>3 DEF CoreParses
  <2>4. u.data.msg \in late => cdone
    BY DEF LateKnown, ReadyLast, Switches
  <2>5. lost'["client"] \cap late = {} /\ lost'["client"] \subseteq outrun'
    <3>1. CASE lost' = lost
      BY <2>2, <3>1 DEF Answering
    <3>2. CASE ~CoreParses(u) /\ lost' = [lost EXCEPT !["client"] = @ \cup {u.data.msg}]
      <4>1. lost'["client"] = lost["client"] \cup {u.data.msg}
        BY <1>0, <3>2
      <4> QED BY <2>2, <2>3, <2>4, <3>2, <4>1 DEF Answering
    <3> QED BY <2>1, <3>1, <3>2
  <2> QED BY <1>2, <2>1, <2>5 DEF Answering
<1>11. ASSUME NEW u \in tasks, TaskAck(u) PROVE Answering'
  BY <1>11, <1>k DEF TaskAck
<1>12. CASE SendReady
  BY <1>12, <1>k DEF SendReady
<1>13. ASSUME NEW m \in ClientMsgs, Encode(m) PROVE Answering'
  BY <1>13, <1>k DEF Encode
<1>14. ASSUME NEW d \in encoded, Write(d) PROVE Answering'
  BY <1>14, <1>k DEF Write
<1>15. ASSUME NEW d \in ptasks, Listen(d) PROVE Answering'
  <2>1. lost' = lost \/ lost' = [lost EXCEPT !["listener"] = @ \cup {d.msg}]
    BY <1>15, Zenon DEF Listen, NoteLost
  <2>2. lost'["client"] = lost["client"]
    BY <1>0, <2>1
  <2> QED BY <1>15, <1>k, <2>2 DEF Listen
<1> QED BY <1>3, <1>4, <1>5, <1>6, <1>7, <1>8, <1>9, <1>10, <1>11, <1>12, <1>13, <1>14, <1>15
        DEF Talks

(* Every step keeps ClientLine.                                            *)
LEMMA ClientLineStep ==
  ASSUME BaseInv, BaseInv', Switches, ReadyLast, ClientLine, [Next]_vars
  PROVE  ClientLine'
<1>0. LateKnown'
  BY LateKnownStep DEF ClientLine
<1>1. CASE Quiet
  <2>1. (Supported' <=> Supported) /\ Example' = Example
    BY <1>1, SupportedStable DEF Quiet
  <2> QED BY <1>0, <1>1, <2>1 DEF ClientLine, Answering, Readable, Bare, Agreed, Quiet, coreVars,
            serverVars, lineVars, logVars
<1>2. CASE Connect
  <2>1. late' = {}
    BY <1>2, ConnectFacts
  <2>2. Answering'
    BY <1>2, <2>1, ConnectFacts DEF Answering, NoMsgs, Sides
  <2> QED BY <1>0, <2>2 DEF ClientLine
<1>3. ASSUME Talks, prof.built, UNCHANGED configVars PROVE ClientLine'
  <2>1. Supported' <=> Supported
    BY <1>3, SupportedStable DEF configVars
  <2> QED BY <1>0, <1>3, <2>1, AnsweringStep DEF ClientLine
<1> QED BY <1>1, <1>2, <1>3, StepCases

-----------------------------------------------------------------------------
(* The listener.                                                           *)

(* A step of the connection keeps what holds of a FlareClient's pipeline:  *)
(* it has the agreed parser once the client is built, whichever of the     *)
(* observer and the builder sets it last.                                  *)
LEMMA HearingStep ==
  ASSUME BaseInv, Switches, Hearing, Supported, ckind = "flare", ~prof.race,
         Talks, prof.built, UNCHANGED configVars
  PROVE  Hearing'
<1> USE DEF coreVars, listenerVars, serverVars, lineVars, logVars
<1>0. /\ lost \in [Sides -> SUBSET Msgs] /\ tasks \subseteq Tasks
      /\ "server" \in Sides /\ "client" \in Sides /\ "listener" \in Sides
      /\ prof' = prof /\ creg' = creg
  BY DEF BaseInv, TypeOK, Sides, configVars
<1>k. ASSUME UNCHANGED <<pparser, ptasks>>, build' = build \/ build' # "done",
             acking # "no" => acking' # "no", lost'["listener"] = lost["listener"]
      PROVE  Hearing'
  BY <1>0, <1>k DEF Hearing
<1>1. CASE TakeBeforeNegotiation \/ TakeNegotiated
  <2>1. \/ lost' = lost
        \/ lost' = [lost EXCEPT !["server"] = @ \cup {Head(toServer).msg}]
    BY <1>1, Zenon DEF TakeBeforeNegotiation, TakeNegotiated, NoteLost
  <2>2. lost'["listener"] = lost["listener"]
    BY <1>0, <2>1
  <2>3. UNCHANGED <<pparser, ptasks, build, acking>>
    BY <1>1 DEF TakeBeforeNegotiation, TakeNegotiated
  <2> QED BY <1>k, <2>2, <2>3
<1>2. CASE SendAck \/ FinalizeNegotiation \/ OnConnect \/ WritePushed \/ CRead
  BY <1>2, <1>k DEF SendAck, FinalizeNegotiation, OnConnect, WritePushed, CRead
<1>c. CASE Closing \/ CClose
  BY <1>c, <1>k, ClosingFacts DEF CClose, BaseInv
<1>3. ASSUME NEW m \in ServerMsgs, Push(m) PROVE Hearing'
  BY <1>3, <1>k DEF Push
<1>4. ASSUME NEW u \in tasks, TaskFrame(u) PROVE Hearing'
  <2>1. UNCHANGED <<pparser, build, acking>>
    BY <1>4 DEF TaskFrame
  <2>2. lost' = lost \/ lost' = [lost EXCEPT !["client"] = @ \cup {u.data.msg}]
    BY <1>4, Zenon DEF TaskFrame, NoteLost
  <2>3. lost'["listener"] = lost["listener"]
    BY <1>0, <2>2
  <2>4. ptasks' = ptasks \/ (CoreParses(u) /\ ptasks' = ptasks \cup {u.data})
    BY <1>4, Zenon DEF TaskFrame, Notify
  <2>5. CoreParses(u) => Parses(creg, prof.result, TRUE, u.data)
    <3>1. u.data \in Data
      BY <1>0 DEF Tasks
    <3>2. CASE Parses(creg, PRE_NEGOTIATION_PARSER, TRUE, u.data)
      BY <3>1, <3>2, BareReads, DataShape, BareIsRead DEF BaseInv, ProfileFacts
    <3>3. CASE (u.negotiated \/ cdone) /\ Parses(creg, cparser, TRUE, u.data)
      BY <3>3 DEF Switches
    <3> QED BY <3>2, <3>3 DEF CoreParses
  <2> QED BY <1>0, <2>1, <2>3, <2>4, <2>5 DEF Hearing
<1>5. ASSUME NEW u \in tasks, TaskAck(u) PROVE Hearing'
  BY <1>5, <1>k DEF TaskAck
<1>6. CASE SendReady
  <2>1. UNCHANGED <<pparser, build, lost>> /\ acking' = "ready"
    BY <1>6 DEF SendReady
  <2>2. PICK u \in tasks : u.data.msg = "CONNECT_ACK" /\ Notify(u.data)
    BY <1>6 DEF SendReady
  <2> QED BY <1>0, <2>1, <2>2 DEF Hearing, Notify
<1>7. ASSUME NEW m \in ClientMsgs, Encode(m) PROVE Hearing'
  BY <1>7, <1>k DEF Encode
<1>8. ASSUME NEW d \in encoded, Write(d) PROVE Hearing'
  BY <1>8, <1>k DEF Write
<1>9. CASE AttachListener \/ BuildFails
  BY <1>9, <1>k DEF AttachListener, BuildFails
<1>10. CASE UpdatePipeline
  BY <1>0, <1>10 DEF UpdatePipeline, Hearing, Switches
<1>11. ASSUME NEW d \in ptasks, Listen(d) PROVE Hearing'
  <2>1. UNCHANGED <<build, acking>> /\ ptasks' \subseteq ptasks
    BY <1>11 DEF Listen
  <2>2. pparser' = pparser \/ pparser' = prof.result
    BY <1>11, AckIsResult DEF Listen, BaseInv, ProfileFacts
  <2>3. prof.open => lost' = lost
    <3> SUFFICES ASSUME prof.open PROVE lost' = lost
      OBVIOUS
    <3>1. prof.reaches
      BY DEF BaseInv, ProfileFacts
    <3>2. CASE build # "done"
      BY <1>11, <3>2, Zenon DEF Listen, NoteLost
    <3>3. CASE build = "done"
      <4>1. d.msg = "CONNECT_ACK" \/ Parses(creg, pparser, TRUE, d)
        BY <3>3 DEF Hearing
      <4>2. "flare" # "simple"
        OBVIOUS
      <4> QED BY <1>11, <3>1, <4>1, <4>2, Zenon DEF Listen, NoteLost
    <3> QED BY <3>2, <3>3
  <2> QED BY <1>0, <2>1, <2>2, <2>3 DEF Hearing
<1> QED BY <1>1, <1>2, <1>3, <1>4, <1>5, <1>6, <1>7, <1>8, <1>9, <1>10, <1>11,
           <1>c DEF Talks

(* Every step keeps Listening.                                             *)
LEMMA ListeningStep ==
  ASSUME BaseInv, Switches, Listening, [Next]_vars
  PROVE  Listening'
<1>1. CASE Quiet
  <2>1. Supported' <=> Supported
    BY <1>1, SupportedStable DEF Quiet
  <2> QED BY <1>1, <2>1 DEF Listening, Hearing, Quiet, coreVars, listenerVars, logVars
<1>2. CASE Connect
  <2>1. /\ ckind' = "flare" => build' = "connected"
        /\ ptasks' = {} /\ lost' = NoMsgs /\ "listener" \in Sides
    BY <1>2, ConnectFacts DEF Sides
  <2> QED BY <2>1 DEF Listening, Hearing, NoMsgs
<1>3. ASSUME Talks, prof.built, UNCHANGED configVars PROVE Listening'
  <2>1. (Supported' <=> Supported) /\ prof' = prof /\ ckind' = ckind
    BY <1>3, SupportedStable DEF configVars
  <2> QED BY <1>3, <2>1, HearingStep DEF Listening
<1> QED BY <1>1, <1>2, <1>3, StepCases

-----------------------------------------------------------------------------
(* The invariant, and what follows from it.                                *)

(* The invariant holds at first.                                           *)
LEMMA WireInit == Init => WireInv
<1> SUFFICES ASSUME Init PROVE WireInv
  OBVIOUS
<1>1. TypeOK /\ BeforeBuilt /\ ProfileFacts
  BY BaseInit DEF BaseInv
<1>2. prof.built = FALSE
  BY DEF Init, NoProfile
<1>3. Switches
  BY <1>2 DEF Switches, Init
<1>4. Compressions /\ ReadyLast
  BY DEF Compressions, ReadyLast, Init
<1>5. Unwritten /\ ServerLine /\ ClientLine /\ Listening
  BY <1>2 DEF Unwritten, ServerLine, ClientLine, LateKnown, Listening, Init
<1> QED BY <1>1, <1>3, <1>4, <1>5 DEF WireInv

(* Every step of a setter, of the server, of the client and of its         *)
(* listener keeps the invariant.                                           *)
LEMMA WireStep == WireInv /\ [Next]_vars => WireInv'
<1> SUFFICES ASSUME WireInv, [Next]_vars PROVE WireInv'
  OBVIOUS
<1>1. /\ BaseInv /\ Switches /\ Compressions /\ Unwritten /\ ReadyLast
      /\ ServerLine /\ ClientLine /\ Listening
  BY DEF WireInv, BaseInv
<1>2. BaseInv'
  BY <1>1, BaseStep
<1>3. Switches' /\ Compressions'
  BY <1>1, <1>2, SwitchesStep, CompressionsStep
<1>4. Unwritten' /\ ReadyLast' /\ ServerLine'
  BY <1>1, <1>2, UnwrittenStep, ReadyLastStep, ServerLineStep
<1>5. ClientLine' /\ Listening'
  BY <1>1, <1>2, ClientLineStep, ListeningStep
<1> QED BY <1>2, <1>3, <1>4, <1>5 DEF WireInv, BaseInv

(* The inductive invariant holds in every behaviour of the negotiation,    *)
(* whatever the builders were told.                                        *)
THEOREM WireInvariance == Spec => []WireInv
BY WireInit, WireStep, PTL DEF Spec

(* Every frame on the line, in a queue or with a task is well-formed data, *)
(* every parser one that configurations can ask for, and the builders'     *)
(* configurations keep their types under every setter.                     *)
THEOREM WireTypeCorrect == Spec => []TypeOK
<1>1. WireInv => TypeOK
  BY DEF WireInv
<1> QED BY <1>1, WireInvariance, PTL

(* SwitchLossless: between processes that support what they agreed on,     *)
(* handle_negotiated_message at the server fails only on frames that were  *)
(* encoded before the client's switch and written after NEGOTIATION_READY; *)
(* handle_received_message at the client fails only on frames whose task   *)
(* runs while the client has not switched, those between CONNECT_ACK and   *)
(* NEGOTIATION_READY included, and on none the server encodes once         *)
(* confirmed, in whichever order the client's tasks run and however the    *)
(* server ends the connection.                                             *)
THEOREM SwitchLosslessCorrect == Spec => []SwitchLossless
<1>1. WireInv => SwitchLossless
  BY DEF WireInv, ServerLine, Arriving, ClientLine, Answering, SwitchLossless, ServerReads,
         ClientReads
<1> QED BY <1>1, WireInvariance, PTL

(* CompressionAccepted: every frame on its way to the client is compressed *)
(* with what CONNECT asked for or with what the client has registered, for *)
(* every pair of configurations and registries: the server's own default   *)
(* is used only when CONNECT lists it as accepted.                         *)
THEOREM CompressionAcceptedCorrect == Spec => []CompressionAccepted
<1>1. WireInv => CompressionAccepted
  BY DEF WireInv, Compressions, Undoable, CompressionAccepted
<1> QED BY <1>1, WireInvariance, PTL

(* FlareHears: once a FlareClient on one protocol is built its listener    *)
(* fails on no frame its core hears, whatever other processors are         *)
(* registered, unless a middleware takes the frame: the pipeline has the   *)
(* core's parser by then.                                                  *)
THEOREM FlareHearsCorrect == Spec => []FlareHears
<1>1. WireInv => FlareHears
  BY DEF WireInv, Listening, Hearing, FlareHears
<1> QED BY <1>1, WireInvariance, PTL
=============================================================================
