--------------------------- MODULE DeviceConflict ---------------------------
(***************************************************************************)
(* The device conflict strategies of common/device.rs: which platforms of  *)
(* an owner have to leave when a device of platform new logs in.  A        *)
(* strategy is a record; only Custom uses the last two fields:             *)
(*   kind     the variant of DeviceConflictStrategy                        *)
(*   allowed  allowed_combinations, a set of sets of platforms             *)
(*   groups   exclusive_groups, a sequence of sets of platforms            *)
(* CheckConflict returns the platforms of Err(..), and {} for Ok(()).      *)
(***************************************************************************)
EXTENDS Integers, Sequences

CONSTANTS Platforms,    \* DevicePlatform
          Mobile,       \* the platforms is_mobile() answers true for
          Desktop       \* {Web, PC}

ASSUME PlatformsAssumption ==
  /\ Mobile \subseteq Platforms
  /\ Desktop \subseteq Platforms
  /\ Mobile \cap Desktop = {}

Kinds == {"AllowAll", "MobileExclusive", "PlatformExclusive",
          "FullyExclusive", "MobileAndPcCoexist", "Custom"}

Strategy == [kind : Kinds,
             allowed : SUBSET SUBSET Platforms,
             groups : Seq(SUBSET Platforms)]

-----------------------------------------------------------------------------

MobileExclusive(new, existing) ==
  IF new \in Mobile THEN existing \cap Mobile ELSE {}

PlatformExclusive(new, existing) == existing \cap {new}

FullyExclusive(new, existing) == existing

MobileAndPcCoexist(new, existing) ==
  IF new \in Mobile THEN existing \cap Mobile
  ELSE IF new \in Desktop THEN existing \cap Desktop
  ELSE existing \cap {new}

(* The loop over exclusive_groups returns at the first group that holds    *)
(* both new and a platform already online; allowed_combinations is looked  *)
(* at only when no group does.                                             *)
Hits(groups, new, existing) ==
  {i \in DOMAIN groups : new \in groups[i] /\ existing \cap groups[i] # {}}

First(S) == CHOOSE i \in S : \A j \in S : i <= j

Custom(s, new, existing) ==
  LET hits == Hits(s.groups, new, existing)
  IN  IF hits # {} THEN existing \cap s.groups[First(hits)]
      ELSE IF existing \subseteq {new} THEN {}
      ELSE IF \E a \in s.allowed : existing \cup {new} \subseteq a THEN {}
      ELSE existing

(* A check_conflict whose mobile arm forgets the platform of the new login *)
(* and only looks for its own kind.                                        *)
CheckConflict_SamePlatform(s, new, existing) ==
  CASE s.kind = "AllowAll" -> {}
    [] s.kind = "MobileExclusive" -> PlatformExclusive(new, existing)
    [] s.kind = "PlatformExclusive" -> PlatformExclusive(new, existing)
    [] s.kind = "FullyExclusive" -> FullyExclusive(new, existing)
    [] s.kind = "MobileAndPcCoexist" -> MobileAndPcCoexist(new, existing)
    [] s.kind = "Custom" -> Custom(s, new, existing)

CheckConflict(s, new, existing) ==
  CASE s.kind = "AllowAll" -> {}
    [] s.kind = "MobileExclusive" -> MobileExclusive(new, existing)
    [] s.kind = "PlatformExclusive" -> PlatformExclusive(new, existing)
    [] s.kind = "FullyExclusive" -> FullyExclusive(new, existing)
    [] s.kind = "MobileAndPcCoexist" -> MobileAndPcCoexist(new, existing)
    [] s.kind = "Custom" -> Custom(s, new, existing)

-----------------------------------------------------------------------------
(* What the strategies promise, independently of how CheckConflict gets    *)
(* there: the sets of platforms of which an owner has at most one device   *)
(* online.  A Custom group that overlaps another one is left out: the      *)
(* early return may leave such a group unserved.                           *)

IsolatedGroups(groups) ==
  {groups[i] : i \in {k \in DOMAIN groups :
                        \A j \in DOMAIN groups \ {k} :
                          groups[j] \cap groups[k] = {}}}

ExclusiveClasses(s) ==
  CASE s.kind = "AllowAll" -> {}
    [] s.kind = "MobileExclusive" -> {Mobile}
    [] s.kind = "PlatformExclusive" -> {{p} : p \in Platforms}
    [] s.kind = "FullyExclusive" -> {Platforms}
    [] s.kind = "MobileAndPcCoexist" ->
         {Mobile, Desktop} \cup {{p} : p \in Platforms \ (Mobile \cup Desktop)}
    [] s.kind = "Custom" -> IsolatedGroups(s.groups)
=============================================================================
