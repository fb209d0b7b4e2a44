-------------------------- MODULE MCDeviceManager --------------------------
(* Platforms and strategies for the runs of DeviceManager.                 *)
EXTENDS DeviceManager, TLC

CONSTANTS Web, PC, Android, IOS, Other

MCPlatforms == {Web, PC, Android, IOS, Other}
MCMobile == {Android, IOS}
MCDesktop == {Web, PC}

Plain(kind) == [kind |-> kind, allowed |-> {}, groups |-> <<>>]

(* Every variant; two isolated groups for Custom, one of them of a single  *)
(* platform, and a pair of platforms in no group.                          *)
MCStrategies ==
  {Plain(k) : k \in Kinds \ {"Custom"}} \cup
  {[kind |-> "Custom",
    allowed |-> {{Web, PC}, {Web, Android}, {PC, IOS, Web}},
    groups |-> <<{Android, IOS}, {PC}>>]}

Symmetry == Permutations(Conns) \cup Permutations(DeviceOwners)
=============================================================================
