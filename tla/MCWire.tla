------------------------------- MODULE MCWire -------------------------------
EXTENDS Wire

Plain == RegistryDefaults(FALSE)
Pack == RegisterCompressor(RegistryDefaults(TRUE), "Pack", TRUE)
AesPack(key) == RegisterEncryptor(Pack, "aes256gcm", key)

MCCalls ==
  [client |-> {<<"with_protocol_race", <<"quic", "websocket">>>>,
               <<"with_compression", "Pack">>,
               <<"force_format", "json">>, <<"force_compression", "gzip">>,
               <<"metadata", "aes256gcm">>,
               <<"with_middleware", [priority |-> 5, before |-> "fail"]>>,
               <<"with_processor", [name |-> "app", outcome |-> "answer"]>>,
               <<"with_listener", TRUE>>, <<"with_observer", TRUE>>},
   server |-> {<<"with_default_compression", "gzip">>,
               <<"with_default_encryption", "aes256gcm">>,
               <<"enable_auth", TRUE>>, <<"with_authenticator", TRUE>>}]

MCClientRegs == {Plain, AesPack("key1")}
MCServerRegs == {Pack, AesPack("key1")}
MCKinds == {<<"flare", "flare">>, <<"direct", "flare">>, <<"simple", "simple">>,
            <<"observer", "observer">>}
=============================================================================
