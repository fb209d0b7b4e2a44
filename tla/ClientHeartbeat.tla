-------------------------- MODULE ClientHeartbeat --------------------------
(***************************************************************************)
(* HeartbeatManager of a client in time: the loop that pings a connection, *)
(* the PONGs recorded beside it, the probe an application asks for when it *)
(* comes to the foreground, and settings changed under way.  The loop's    *)
(* verdict is HeartbeatCloses of ClientSession.                            *)
(*   hconfig    the shared HeartbeatConfig                                 *)
(*   hloop      where the loop is, "off" before its start                  *)
(*   timer      what is left of its sleep                                  *)
(*   ping       the age of last_ping                                       *)
(*   covered    last_pong is not older than last_ping                      *)
(*   wake, stop the permit of heartbeat_probe_wake, and the stop signal    *)
(*   due        the ages of the PINGs the peer has still to answer         *)
(*   silence    how long the peer has answered nothing more                *)
(*   verdict    why the loop closed the connection                         *)
(* Time passes while the loop waits; what it does in between takes none,   *)
(* the lock of the connection and the write of a PING included.            *)
(***************************************************************************)
EXTENDS Naturals, FiniteSetsExt

CONSTANTS Unset,
          PROBE_TIMEOUT,
          RoundTrip,         \* how long a peer that is there takes to answer
          HeartbeatConfigs,  \* bound: the settings an application chooses from
          NatTimeouts        \* bound: the NAT timeouts it finds out

(* The fields of HeartbeatConfig; an interval with a default is filled in. *)
Settings ==
  [enabled : BOOLEAN, adaptive : BOOLEAN, interval : Nat, timeout : Nat,
   foreground : Nat \cup {Unset}, background : Nat, min : Nat, max : Nat,
   nat : Nat \cup {Unset}, app : {"Foreground", "Background"}]

ASSUME HeartbeatAssumption ==
  /\ Unset \notin Nat
  /\ PROBE_TIMEOUT \in Nat /\ RoundTrip \in Nat /\ RoundTrip < PROBE_TIMEOUT
  /\ IsFiniteSet(HeartbeatConfigs) /\ HeartbeatConfigs # {}
  /\ HeartbeatConfigs \subseteq Settings /\ \A c \in HeartbeatConfigs : RoundTrip < c.timeout
  /\ NatTimeouts \subseteq Nat \cup {Unset}

VARIABLES hconfig, hloop, timer, ping, covered, wake, stop, due, silence, verdict

waitVars == <<hloop, timer>>
pingVars == <<ping, covered>>
signalVars == <<wake, stop>>
peerSide == <<due, silence>>
heartbeatVars == <<hconfig, waitVars, pingVars, signalVars, peerSide, verdict>>

Or(v, default) == IF v = Unset THEN default ELSE v
AtMost(x, y) == IF x <= y THEN x ELSE y
AtLeast(x, y) == IF x >= y THEN x ELSE y

(* A sleep of no length is made one unit long.                             *)
PositiveDuration(d) == AtLeast(d, 1)

(* Well before the NAT forgets the connection.                             *)
NatSafeInterval(t) == PositiveDuration((t * 70) \div 100)

(* effective_interval: the lower bound comes last, also over the NAT's.    *)
(* The defaults of background, min and max are filled in when they are     *)
(* chosen, not here.                                                       *)
EffectiveInterval(c) ==
  IF ~c.adaptive THEN PositiveDuration(c.interval)
  ELSE
    LET base == PositiveDuration(IF c.app = "Foreground" THEN Or(c.foreground, c.interval)
                                 ELSE c.background)
        wanted == IF c.nat = Unset THEN base ELSE AtMost(base, NatSafeInterval(c.nat))
        low == PositiveDuration(c.min)
    IN AtLeast(AtMost(wanted, AtLeast(c.max, low)), low)

HeartbeatInit ==
  /\ hconfig \in HeartbeatConfigs
  /\ hloop = "off" /\ timer = 0
  /\ ping = Unset /\ covered = FALSE
  /\ wake = FALSE /\ stop = FALSE
  /\ due = {} /\ silence = Unset /\ verdict = "none"

-----------------------------------------------------------------------------
(* try_start_heartbeat, on a negotiated connection: a permit left from     *)
(* before makes the new loop begin with a probe.                           *)
StartLoop ==
  /\ hloop = "off" /\ hconfig.enabled
  /\ hloop' = "top"
  /\ UNCHANGED <<hconfig, timer, pingVars, signalVars, peerSide, verdict>>

(* The length of a sleep is settled when it begins.                        *)
BeginSleep ==
  /\ hloop = "top"
  /\ hloop' = "sleep" /\ timer' = EffectiveInterval(hconfig)
  /\ UNCHANGED <<hconfig, pingVars, signalVars, peerSide, verdict>>

(* Mutant: a PING is too old whether or not it was answered.               *)
UnansweredPingTimedOut_Answered == ping # Unset /\ ping > hconfig.timeout

UnansweredPingTimedOut == ping # Unset /\ ~covered /\ ping > hconfig.timeout

GiveUp(why) == hloop' = "ended" /\ verdict' = why

RecordPingStart == ping' = 0 /\ covered' = FALSE

(* A PING is dated only if the last dated one was answered, so that the    *)
(* ones behind it do not put its timeout off.                              *)
RecordPingStartIfIdle ==
  IF ping # Unset /\ ~covered THEN UNCHANGED pingVars ELSE RecordPingStart

SleepEnds ==
  /\ hloop = "sleep" /\ timer = 0
  /\ IF UnansweredPingTimedOut
       THEN GiveUp("timeout") /\ UNCHANGED pingVars
       ELSE RecordPingStartIfIdle /\ hloop' = "ping" /\ UNCHANGED verdict
  /\ UNCHANGED <<hconfig, timer, signalVars, peerSide>>

(* The probe is dated in any case.                                         *)
ProbeWakes ==
  /\ hloop = "sleep" /\ wake
  /\ wake' = FALSE
  /\ IF UnansweredPingTimedOut
       THEN GiveUp("timeout") /\ UNCHANGED pingVars
       ELSE RecordPingStart /\ hloop' = "probe" /\ UNCHANGED verdict
  /\ UNCHANGED <<hconfig, timer, stop, peerSide>>

PingSent ==
  /\ hloop \in {"ping", "probe"}
  /\ due' = IF silence = Unset THEN due \cup {0} ELSE due
  /\ IF hloop = "ping"
       THEN hloop' = "top" /\ UNCHANGED timer
       ELSE hloop' = "window" /\ timer' = AtMost(hconfig.timeout, PROBE_TIMEOUT)
  /\ UNCHANGED <<hconfig, pingVars, signalVars, silence, verdict>>

PingFails ==
  /\ hloop \in {"ping", "probe"}
  /\ GiveUp("failed")
  /\ UNCHANGED <<hconfig, timer, pingVars, signalVars, peerSide>>

(* The window of a probe is slept through, whatever happens meanwhile.     *)
ProbeOver ==
  /\ hloop = "window" /\ timer = 0
  /\ IF covered THEN hloop' = "top" /\ UNCHANGED verdict ELSE GiveUp("timeout")
  /\ UNCHANGED <<hconfig, timer, pingVars, signalVars, peerSide>>

StopSeen ==
  /\ hloop = "sleep" /\ stop
  /\ hloop' = "ended"
  /\ UNCHANGED <<hconfig, timer, pingVars, signalVars, peerSide, verdict>>

-----------------------------------------------------------------------------
(* record_pong: whichever PING it answers, it covers the dated one.  The   *)
(* manager of a stopped heartbeat is out of reach.                         *)
RecordPong(a) ==
  /\ a \in due
  /\ due' = due \ {a}
  /\ covered' = (covered \/ ~stop)
  /\ UNCHANGED <<hconfig, waitVars, ping, signalVars, silence, verdict>>

StopHeartbeat ==
  /\ hloop # "off" /\ ~stop
  /\ stop' = TRUE
  /\ UNCHANGED <<hconfig, waitVars, pingVars, wake, peerSide, verdict>>

UpdateConfig(c) ==
  /\ hconfig' = c
  /\ UNCHANGED <<waitVars, pingVars, signalVars, peerSide, verdict>>

UpdateHeartbeatConfig ==
  \E c \in HeartbeatConfigs : UpdateConfig([c EXCEPT !.app = hconfig.app, !.nat = hconfig.nat])

SetNatTimeout == \E n \in NatTimeouts : UpdateConfig([hconfig EXCEPT !.nat = n])

(* Back in the foreground, the loop is woken to find out at once whether   *)
(* the connection still works.                                             *)
SetAppState(s) ==
  /\ hconfig' = [hconfig EXCEPT !.app = s]
  /\ wake' = (wake \/ s = "Foreground")
  /\ UNCHANGED <<waitVars, pingVars, stop, peerSide, verdict>>

(* The peer is gone, without a word; some of its answers are on the way.   *)
PeerFallsSilent ==
  /\ silence = Unset
  /\ silence' = 0 /\ due' \in SUBSET due
  /\ UNCHANGED <<hconfig, waitVars, pingVars, signalVars, verdict>>

LoopWaits == hloop \in {"sleep", "window"} /\ timer > 0 /\ ~(hloop = "sleep" /\ (wake \/ stop))

(* How long the longest sleep and the longest timeout are, and how long it *)
(* takes at most to find out that a peer is gone: its last answer, which   *)
(* may vouch for a probe that began after it was gone, the window of that  *)
(* probe, the sleep before the next PING, its timeout, and what the loop   *)
(* is in when that is over, a sleep or the window of a probe dated anew.   *)
LongestSleep == Max({AtLeast(c.max, AtLeast(c.min, AtLeast(c.interval, 1))) : c \in HeartbeatConfigs})
LongestTimeout == Max({c.timeout : c \in HeartbeatConfigs})
Patience ==
  RoundTrip + PROBE_TIMEOUT + LongestSleep + LongestTimeout
    + AtLeast(LongestSleep, PROBE_TIMEOUT)

Older(age, bound) == IF age = Unset THEN Unset ELSE AtMost(age + 1, bound)

Tick ==
  /\ LoopWaits \/ hloop = "off"
  /\ \A a \in due : a < RoundTrip
  /\ timer' = IF timer > 0 THEN timer - 1 ELSE 0
  /\ ping' = Older(ping, LongestTimeout + 1)
  /\ due' = {a + 1 : a \in due}
  /\ silence' = IF hloop = "off" THEN silence ELSE Older(silence, Patience + 1)
  /\ UNCHANGED <<hconfig, hloop, covered, signalVars, verdict>>

HeartbeatNext ==
  \/ StartLoop \/ BeginSleep \/ SleepEnds \/ ProbeWakes
  \/ PingSent \/ PingFails \/ ProbeOver \/ StopSeen
  \/ \E a \in due : RecordPong(a)
  \/ StopHeartbeat \/ UpdateHeartbeatConfig \/ SetNatTimeout
  \/ \E s \in {"Foreground", "Background"} : SetAppState(s)
  \/ PeerFallsSilent \/ Tick

HeartbeatSpec == HeartbeatInit /\ [][HeartbeatNext]_heartbeatVars

-----------------------------------------------------------------------------
(* A peer that is gone is found out in bounded time, however often the     *)
(* application changes the settings or has the connection probed.          *)
DeadFound == silence # Unset /\ hloop # "ended" /\ ~stop => silence <= Patience

(* A peer that answers in time is never taken for dead.                    *)
LiveKept == verdict = "timeout" => silence # Unset \/ stop

(* The heartbeat tells a dead peer from one that is there.                 *)
Keepalive == DeadFound /\ LiveKept
=============================================================================
