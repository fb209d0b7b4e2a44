--------------------- MODULE TransportConnectionProofs ---------------------
(***************************************************************************)
(* Proofs about TransportConnection, for any set of observers, any number  *)
(* of frames and each of the three transports.                             *)
(*                                                                         *)
(* An observer is in one of several lists while it waits to be told of the *)
(* end: the registered ones, the ones a close has taken and the ones the   *)
(* reader has taken.  What makes QuietAfterEnd hold is who is where:       *)
(*                                                                         *)
(*   Listed    the three lists share nobody, name nobody twice, and name   *)
(*             only observers that were added                              *)
(*   Untold    whoever is in one of them, or is being attached, has not    *)
(*             been told of the end, and who was never added nothing       *)
(*   Midway    whoever has still to be told of a frame has not been told   *)
(*             of the end, or just now by a local close                    *)
(*                                                                         *)
(* and FirstHearsAll adds the order of the frames:                         *)
(*                                                                         *)
(*   OnWire    the frames on the wire are the last ones the peer sent, in  *)
(*             order, and the reader has read nothing before an observer   *)
(*             was there                                                   *)
(*   Attaching whoever is being attached has heard Connected only          *)
(*   FirstKnown                                                            *)
(*             nobody is registered before the first observer, and that    *)
(*             one is attached only once                                   *)
(*   Caught    the first observer, while it is registered, has heard all   *)
(*             but those and the one the reader is about to tell it of     *)
(*                                                                         *)
(* OnWire and Caught hold only while the connection is open, and a closed  *)
(* one stays closed.                                                       *)
(***************************************************************************)
EXTENDS TransportConnection, SequenceTheorems, TLAPS

Steps == {"idle", "attach", "send", "write", "close", "close_away",
          "take", "take_away", "tell", "tell_away", "dropped"}

Places == {"gate", "check", "read", "got", "deliver", "mark", "take", "pong_wire",
           "pong_frame", "write_wire", "write_frame", "ended"}

\* The observers a list names, without repetition.
Once(list) == \A i, j \in 1 .. Len(list) : list[i] = list[j] => i = j

Among(list, o) == \E i \in 1 .. Len(list) : list[i] = o

NoEnd(o) == \A i \in 1 .. Len(heard[o]) : ~Terminal(heard[o][i])

\* The last thing o heard is the end, by a local close.
JustClosed(o) ==
  /\ Len(heard[o]) > 0 /\ heard[o][Len(heard[o])] = Closed
  /\ \A i \in 1 .. Len(heard[o]) - 1 : ~Terminal(heard[o][i])

\* The reader is telling of the end of the connection.
EndBatch == reader = "deliver" /\ ~IsMessage

TransportTypes ==
  /\ transport \in Transports
  /\ is_closed \in BOOLEAN /\ gate \in BOOLEAN
  /\ observers \in Seq(Observers) /\ batch \in Seq(Observers) /\ telling \in Seq(Observers)
  /\ asked \subseteq Observers /\ removed \subseteq asked
  /\ method \in [step : Steps, observer : Observers \cup {None}]
  /\ method.step = "attach" <=> method.observer # None
  /\ reader \in Places
  /\ item \in Items \cup {Nothing}
  /\ writer \in {"free", "method", "reader"}
  /\ writer = "method" <=> method.step = "write"
  /\ writer = "reader" <=> reader \in {"write_wire", "write_frame"}
  /\ wire \in Seq(Items) /\ frames \in 0 .. MaxFrames
  /\ heard \in [Observers -> Seq(Events)]
  /\ first \in Observers \cup {None}

\* Where the reader is and what it has in its hands.
Hands ==
  /\ reader # "deliver" => batch = <<>>
  /\ reader \in {"gate", "check", "read", "ended"} => item = Nothing
  /\ reader \in {"mark", "take", "pong_wire", "pong_frame", "write_wire", "write_frame"} =>
       item.n = 0
  /\ reader = "got" => item.n > 0 \/ Final(item) \/ item.what = "ping"
  /\ method.step \in {"close", "close_away", "take", "take_away", "tell", "tell_away",
                      "dropped"} => is_closed
  /\ reader = "take" \/ EndBatch => is_closed

Listed ==
  /\ Once(observers) /\ Once(telling) /\ Once(batch)
  /\ \A o \in Observers :
       /\ Among(observers, o) \/ Among(telling, o) \/ Among(batch, o)
          \/ method.observer = o => o \in asked
       /\ method.observer = o =>
            ~Among(observers, o) /\ ~Among(telling, o) /\ ~Among(batch, o)
       /\ ~(Among(observers, o) /\ Among(telling, o))
       /\ EndBatch /\ Among(batch, o) => ~Among(observers, o) /\ ~Among(telling, o)

Untold ==
  \A o \in Observers :
    /\ o \notin asked => heard[o] = <<>>
    /\ Among(observers, o) \/ Among(telling, o) \/ method.observer = o => NoEnd(o)
    /\ EndBatch /\ Among(batch, o) => NoEnd(o)

Midway == \A o \in Observers : Among(batch, o) => NoEnd(o) \/ JustClosed(o)

QuietInv ==
  TransportTypes /\ Hands /\ Listed /\ Untold /\ Midway /\ QuietAfterEnd

---------------------------------------------------------------------------
\* The frames on a wire w are the ones from n + 1 to m, in order.
Numbered(w, n, m) ==
  /\ \A i \in 1 .. Len(w) : w[i].n = 0 \/ w[i].n \in n + 1 .. m
  /\ \A x \in n + 1 .. m : \E i \in 1 .. Len(w) : w[i].n = x
  /\ \A i, j \in 1 .. Len(w) : i < j /\ w[i].n > 0 /\ w[j].n > 0 => w[i].n < w[j].n

OnWire ==
  ~is_closed =>
    /\ \E n \in 0 .. frames :
         /\ Numbered(wire, n, frames)
         /\ reader = "gate" => n = 0
         /\ item.n > 0 => item.n = n
    /\ first = None => reader = "gate" /\ ~gate

\* The observer heard Connected and then the first n frames.
HeardTo(o, n) ==
  /\ Len(heard[o]) = n + 1
  /\ heard[o][1] = Event("Connected", 0)
  /\ \A k \in 1 .. n : heard[o][k + 1] = Event("Message", k)

\* The observer heard the first n frames, and the next one is in the reader's
\* hands for it, or on the wire, or not sent yet.
UpTo(o, n) ==
  /\ HeardTo(o, n)
  /\ IF (reader = "got" /\ item.n > 0) \/ (reader = "deliver" /\ Among(batch, o))
       THEN item.n = n + 1
       ELSE Numbered(wire, n, frames)

Attaching == method.step = "attach" => HeardTo(method.observer, 0)

FirstKnown ==
  /\ first = None => observers = <<>>
  /\ first # None => first \in asked /\ method.observer # first

Caught == Among(observers, first) /\ ~is_closed => \E n \in 0 .. frames : UpTo(first, n)

FirstInv == QuietInv /\ OnWire /\ Attaching /\ FirstKnown /\ Caught

---------------------------------------------------------------------------
(* Lists of observers                                                       *)

\* The next one of a list is told and leaves it.
LEMMA NextOf ==
  ASSUME NEW list \in Seq(Observers), list # <<>>
  PROVE  /\ Tail(list) \in Seq(Observers) /\ Head(list) \in Observers
         /\ Among(list, Head(list))
         /\ \A o \in Observers : Among(Tail(list), o) => Among(list, o)
         /\ \A o \in Observers : Among(list, o) => o = Head(list) \/ Among(Tail(list), o)
         /\ Once(list) => Once(Tail(list)) /\ ~Among(Tail(list), Head(list))
<1>1. /\ Len(list) \in Nat \ {0} /\ Head(list) = list[1] /\ Tail(list) \in Seq(Observers)
      /\ Len(Tail(list)) = Len(list) - 1
      /\ \A i \in 1 .. Len(list) - 1 : Tail(list)[i] = list[i + 1]
  BY HeadTailProperties, EmptySeq, LenProperties
<1>2. \A i \in 1 .. Len(list) : list[i] \in Observers
  BY ElementOfSeq
<1>3. Head(list) \in Observers /\ Among(list, Head(list))
  BY <1>1, <1>2 DEF Among
<1>4. \A o \in Observers : Among(Tail(list), o) => Among(list, o)
  <2> SUFFICES ASSUME NEW o \in Observers, Among(Tail(list), o) PROVE Among(list, o)
    OBVIOUS
  <2>1. PICK i \in 1 .. Len(Tail(list)) : Tail(list)[i] = o
    BY DEF Among
  <2>2. i + 1 \in 1 .. Len(list) /\ list[i + 1] = o
    BY <1>1, <2>1
  <2> QED
    BY <2>2 DEF Among
<1>5. \A o \in Observers : Among(list, o) => o = Head(list) \/ Among(Tail(list), o)
  <2> SUFFICES ASSUME NEW o \in Observers, Among(list, o), o # Head(list)
               PROVE  Among(Tail(list), o)
    OBVIOUS
  <2>1. PICK i \in 1 .. Len(list) : list[i] = o
    BY DEF Among
  <2>2. i # 1
    BY <1>1, <2>1
  <2>3. i - 1 \in 1 .. Len(Tail(list)) /\ Tail(list)[i - 1] = o
    BY <1>1, <2>1, <2>2
  <2> QED
    BY <2>3 DEF Among
<1>6. Once(list) => Once(Tail(list)) /\ ~Among(Tail(list), Head(list))
  BY <1>1 DEF Once, Among
<1> QED
  BY <1>1, <1>3, <1>4, <1>5, <1>6

\* An observer is added at the end.
LEMMA Added ==
  ASSUME NEW list \in Seq(Observers), NEW o \in Observers
  PROVE  /\ Append(list, o) \in Seq(Observers)
         /\ \A p \in Observers : Among(Append(list, o), p) <=> p = o \/ Among(list, p)
         /\ Once(list) /\ ~Among(list, o) => Once(Append(list, o))
<1>1. /\ Append(list, o) \in Seq(Observers) /\ Len(Append(list, o)) = Len(list) + 1
      /\ \A i \in 1 .. Len(list) : Append(list, o)[i] = list[i]
      /\ Append(list, o)[Len(list) + 1] = o /\ Len(list) \in Nat
  BY AppendProperties, LenProperties
<1>2. \A p \in Observers : Among(Append(list, o), p) <=> p = o \/ Among(list, p)
  <2>1. \A p \in Observers : Among(list, p) => Among(Append(list, o), p)
    BY <1>1 DEF Among
  <2>2. Among(Append(list, o), o)
    BY <1>1 DEF Among
  <2>3. ASSUME NEW p \in Observers, Among(Append(list, o), p), p # o PROVE Among(list, p)
    BY <1>1, <2>3 DEF Among
  <2> QED
    BY <2>1, <2>2, <2>3
<1>3. Once(list) /\ ~Among(list, o) => Once(Append(list, o))
  BY <1>1 DEF Once, Among
<1> QED
  BY <1>1, <1>2, <1>3

\* An observer is removed, and the others stay as they are.
LEMMA Removed ==
  ASSUME NEW list \in Seq(Observers), NEW k \in 1 .. Len(list), Once(list),
         NEW rest \in Seq(Observers), Len(rest) = Len(list) - 1,
         \A i \in 1 .. Len(list) - 1 :
           (i < k => rest[i] = list[i]) /\ (i >= k => rest[i] = list[i + 1])
  PROVE  /\ Once(rest)
         /\ \A o \in Observers : Among(rest, o) => Among(list, o)
         /\ \A o \in Observers : Among(list, o) /\ o # list[k] => Among(rest, o)
         /\ ~Among(rest, list[k])
<1>1. Len(list) \in Nat \ {0} /\ \A i \in 1 .. Len(list) : list[i] \in Observers
  BY LenProperties, ElementOfSeq
<1>2. /\ Len(rest) = Len(list) - 1
      /\ \A i \in 1 .. Len(list) - 1 :
           (i < k => rest[i] = list[i]) /\ (i >= k => rest[i] = list[i + 1])
  OBVIOUS
<1>a. \A i, j \in 1 .. Len(list) : list[i] = list[j] => i = j
  BY DEF Once
<1>b. ASSUME NEW i \in 1 .. Len(rest)
      PROVE  \E j \in 1 .. Len(list) \ {k} : rest[i] = list[j] /\ j = IF i < k THEN i ELSE i + 1
  <2>1. i \in Nat /\ k \in Nat /\ i \in 1 .. Len(list) - 1
    BY <1>1, <1>2
  <2>2. CASE i < k
    BY <1>1, <1>2, <2>1, <2>2
  <2>3. CASE ~(i < k)
    BY <1>1, <1>2, <2>1, <2>3
  <2> QED
    BY <2>2, <2>3
<1>c. Once(rest)
  <2> SUFFICES ASSUME NEW i \in 1 .. Len(rest), NEW j \in 1 .. Len(rest), rest[i] = rest[j]
               PROVE  i = j
    BY DEF Once
  <2>1. PICK x \in 1 .. Len(list) \ {k} : rest[i] = list[x] /\ x = IF i < k THEN i ELSE i + 1
    BY <1>b
  <2>2. PICK y \in 1 .. Len(list) \ {k} : rest[j] = list[y] /\ y = IF j < k THEN j ELSE j + 1
    BY <1>b
  <2>3. x = y
    BY <1>a, <2>1, <2>2
  <2> QED
    BY <1>1, <1>2, <2>1, <2>2, <2>3
<1>d. ~Among(rest, list[k])
  BY <1>a, <1>b DEF Among
<1>3. Once(rest) /\ ~Among(rest, list[k])
  BY <1>c, <1>d
<1>4. \A o \in Observers : Among(rest, o) => Among(list, o)
  BY <1>1, <1>2, SMTT(30) DEF Among
<1>5. ASSUME NEW o \in Observers, Among(list, o), o # list[k] PROVE Among(rest, o)
  <2>1. PICK i \in 1 .. Len(list) : list[i] = o
    BY <1>5 DEF Among
  <2>2. CASE i < k
    <3>1. i \in 1 .. Len(rest) /\ rest[i] = o
      BY <1>1, <1>2, <2>1, <2>2
    <3> QED
      BY <3>1 DEF Among
  <2>3. CASE i > k
    <3>1. i - 1 \in 1 .. Len(rest) /\ rest[i - 1] = o
      BY <1>1, <1>2, <2>1, <2>3
    <3> QED
      BY <3>1 DEF Among
  <2> QED
    BY <1>5, <2>1, <2>2, <2>3
<1> QED
  BY <1>2, <1>3, <1>4, <1>5

\* The empty list.
LEMMA NobodyListed ==
  /\ <<>> \in Seq(Observers) /\ Once(<<>>) /\ \A o \in Observers : ~Among(<<>>, o)
BY EmptySeq DEF Once, Among

---------------------------------------------------------------------------
(* What is heard                                                            *)

Quiet(o) ==
  \A i \in 1 .. Len(heard[o]) :
    Terminal(heard[o][i]) =>
      \/ i = Len(heard[o])
      \/ /\ i + 1 = Len(heard[o])
         /\ heard[o][i] = Closed
         /\ heard[o][i + 1].what = "Message"

\* QuietAfterEnd, observer by observer.
LEMMA QuietAll ==
  ASSUME heard \in [Observers -> Seq(Events)]
  PROVE  QuietAfterEnd <=> \A o \in Observers : Quiet(o)
<1>1. \A o \in Observers : DOMAIN heard[o] = 1 .. Len(heard[o])
  BY LenProperties
<1> QED
  BY <1>1 DEF QuietAfterEnd, Quiet

\* One observer hears one more event, the others nothing.
LEMMA Hears ==
  ASSUME heard \in [Observers -> Seq(Events)], NEW o \in Observers, NEW e \in Events, Tell(o, e)
  PROVE  /\ heard' \in [Observers -> Seq(Events)]
         /\ \A p \in Observers \ {o} : heard'[p] = heard[p]
         /\ heard'[o] = Append(heard[o], e)
         /\ Len(heard[o]) \in Nat /\ Len(heard'[o]) = Len(heard[o]) + 1
         /\ \A i \in 1 .. Len(heard[o]) : heard'[o][i] = heard[o][i]
         /\ heard'[o][Len(heard[o]) + 1] = e
<1>1. heard[o] \in Seq(Events)
  OBVIOUS
<1>2. /\ Append(heard[o], e) \in Seq(Events) /\ Len(Append(heard[o], e)) = Len(heard[o]) + 1
      /\ \A i \in 1 .. Len(heard[o]) : Append(heard[o], e)[i] = heard[o][i]
      /\ Append(heard[o], e)[Len(heard[o]) + 1] = e /\ Len(heard[o]) \in Nat
  BY <1>1, AppendProperties, LenProperties
<1>3. heard'[o] = Append(heard[o], e) /\ \A p \in Observers \ {o} : heard'[p] = heard[p]
  BY DEF Tell
<1>4. heard' \in [Observers -> Seq(Events)]
  BY <1>2 DEF Tell
<1> QED
  BY <1>2, <1>3, <1>4

\* What one more event makes of an observer; the others stay as they were.
LEMMA HearsOn ==
  ASSUME heard \in [Observers -> Seq(Events)], NEW o \in Observers, NEW e \in Events,
         Tell(o, e), \A p \in Observers : Quiet(p)
  PROVE  /\ NoEnd(o) => Quiet(o)'
         /\ NoEnd(o) /\ ~Terminal(e) => NoEnd(o)'
         /\ NoEnd(o) /\ e = Closed => JustClosed(o)'
         /\ JustClosed(o) /\ e.what = "Message" => Quiet(o)'
         /\ \A p \in Observers \ {o} :
              /\ Quiet(p)'
              /\ NoEnd(p) => NoEnd(p)'
              /\ JustClosed(p) => JustClosed(p)'
<1>1. /\ \A p \in Observers \ {o} : heard'[p] = heard[p]
      /\ Len(heard[o]) \in Nat /\ Len(heard'[o]) = Len(heard[o]) + 1
      /\ \A i \in 1 .. Len(heard[o]) : heard'[o][i] = heard[o][i]
      /\ heard'[o][Len(heard[o]) + 1] = e
  BY Hears
<1>2. NoEnd(o) => Quiet(o)'
  BY <1>1 DEF NoEnd, Quiet
<1>3. NoEnd(o) /\ ~Terminal(e) => NoEnd(o)'
  BY <1>1 DEF NoEnd
<1>4. NoEnd(o) /\ e = Closed => JustClosed(o)'
  BY <1>1 DEF NoEnd, JustClosed
<1>5. JustClosed(o) /\ e.what = "Message" => Quiet(o)'
  BY <1>1 DEF JustClosed, Quiet, Terminal
<1>6. ASSUME NEW p \in Observers \ {o}
      PROVE  Quiet(p)' /\ (NoEnd(p) => NoEnd(p)') /\ (JustClosed(p) => JustClosed(p)')
  BY <1>1 DEF Quiet, NoEnd, JustClosed
<1> QED
  BY <1>2, <1>3, <1>4, <1>5, <1>6
---------------------------------------------------------------------------
(* Types                                                                    *)

\* The events an observer can be told.
LEMMA EventTypes ==
  /\ Closed \in Events /\ Terminal(Closed)
  /\ Event("Connected", 0) \in Events /\ ~Terminal(Event("Connected", 0))
  /\ \A n \in 0 .. MaxFrames :
       /\ Event("Message", n) \in Events /\ ~Terminal(Event("Message", n))
       /\ Event("Message", n).what = "Message"
BY DEF Closed, Events, Event, Terminal

\* How an end is told, by transport.
LEMMA EndEventTypes ==
  ASSUME transport \in Transports, NEW what
  PROVE  Event(EndEvent(what), 0) \in Events
<1>1. EndEvent(what) \in {"Disconnected", "Error"}
  BY TransportAssumption DEF EndEvent, TcpEnd, QuicEnd, WebSocketEnd
<1> QED
  BY <1>1 DEF Events, Event

\* What can be read from the wire.
LEMMA ItemTypes ==
  /\ \A it \in Items \cup {Nothing} : it.n \in 0 .. MaxFrames
  /\ \A what \in Ends \cup {"ping"} : Item(what, 0) \in Items /\ Item(what, 0).n = 0
  /\ \A what \in {"frame", "pong", "empty"}, n \in 1 .. MaxFrames :
       Item(what, n) \in Items /\ Item(what, n).n = n
  /\ Nothing.n = 0 /\ Nothing.what = "nothing"
<1>1. Nothing.n = 0 /\ Nothing.what = "nothing"
  BY DEF Nothing, Item
<1>2. \A it \in Items : it.n \in 0 .. MaxFrames
  BY TransportAssumption DEF Items, Item
<1>3. \A what \in Ends \cup {"ping"} : Item(what, 0) \in Items /\ Item(what, 0).n = 0
  BY DEF Items, Item
<1>4. \A what \in {"frame", "pong", "empty"}, n \in 1 .. MaxFrames :
        Item(what, n) \in Items /\ Item(what, n).n = n
  BY DEF Items, Item
<1> QED
  BY <1>1, <1>2, <1>3, <1>4, TransportAssumption

\* What a list of the wire is.
LEMMA WireTypes ==
  ASSUME NEW list \in Seq(Items)
  PROVE  /\ list # <<>> => Head(list) \in Items /\ Tail(list) \in Seq(Items)
         /\ \A it \in Items : Append(list, it) \in Seq(Items) /\ <<it>> \in Seq(Items)
BY HeadTailProperties, AppendProperties

\* Every step keeps the types: one case for each action.
LEMMA TypesNext ==
  ASSUME TransportTypes, Listed, Next
  PROVE  TransportTypes'
<1> USE TransportAssumption DEF TransportTypes
<1>h. ASSUME NEW o \in Observers, NEW e \in Events, Tell(o, e)
      PROVE  heard' \in [Observers -> Seq(Events)]
  BY <1>h, Hears
<1>i. Idle \in [step : Steps, observer : Observers \cup {None}] /\ Idle.step = "idle"
      /\ Idle.observer = None
  BY DEF Idle, Steps
<1>1. ASSUME NEW o \in Observers, AddObserver(o) PROVE TransportTypes'
  BY <1>1, EventTypes, <1>h, <1>i
     DEF AddObserver, Places, Steps,
         sharedVars, readerVars, methodVars, peerVars, historyVars
<1>2. ASSUME NEW o \in Observers, RemoveObserver(o) PROVE TransportTypes'
  <2>1. PICK k \in 1 .. Len(observers) :
          /\ observers[k] = o
          /\ observers' = [i \in 1 .. Len(observers) - 1 |->
                             observers[IF i < k THEN i ELSE i + 1]]
    BY <1>2, LenProperties, ZenonT(60) DEF RemoveObserver
  <2>2. observers' \in Seq(Observers)
    <3>1. Len(observers) \in Nat \ {0} /\ \A i \in 1 .. Len(observers) : observers[i] \in Observers
      BY <2>1, LenProperties, ElementOfSeq
    <3>2. Len(observers) - 1 \in Nat
      BY <3>1
    <3>3. \A i \in 1 .. Len(observers) - 1 :
            observers[IF i < k THEN i ELSE i + 1] \in Observers
      BY <3>1
    <3>4. observers' \in [1 .. Len(observers) - 1 -> Observers]
      BY <2>1, <3>3, Zenon
    <3> DEFINE n == Len(observers) - 1
    <3>5. n \in Nat /\ observers' \in [1 .. n -> Observers]
      BY <3>2, <3>4
    <3> HIDE DEF n
    <3> QED
      BY <3>5, SMTT(30)
  <2>3. o \in asked
    BY <2>1 DEF Listed, Among
  <2> QED
    BY <1>2, <2>2, <2>3 DEF RemoveObserver, readerVars, methodVars, peerVars
<1>3. ASSUME NEW away \in BOOLEAN, Close(away) PROVE TransportTypes'
  BY <1>3, <1>i
     DEF Close, Places, Steps, Idle,
         sharedVars, readerVars, methodVars, peerVars, historyVars
<1>4. ASSUME NEW ok \in BOOLEAN, PongDone(ok) PROVE TransportTypes'
  BY <1>4, ItemTypes
     DEF PongDone, Places, Steps, Ends,
         sharedVars, readerVars, methodVars, peerVars, historyVars
<1>5. ASSUME NEW what \in {"frame", "pong", "empty"}, PeerSends(what) PROVE TransportTypes'
  BY <1>5, ItemTypes, WireTypes
     DEF PeerSends, Places, Steps,
         sharedVars, readerVars, methodVars, peerVars, historyVars
<1>6. ASSUME NEW what \in Ends, PeerEnds(what) PROVE TransportTypes'
  BY <1>6, ItemTypes, WireTypes
     DEF PeerEnds, Places, Steps,
         sharedVars, readerVars, methodVars, peerVars, historyVars
<1>7. CASE RegisterObserver
  <2>1. method.observer \in Observers /\ method' = Idle
    BY <1>7 DEF RegisterObserver
  <2>2. CASE is_closed
    <3>1. Tell(method.observer, Closed) /\ UNCHANGED <<observers, gate, first>>
      BY <1>7, <2>2 DEF RegisterObserver
    <3>2. heard' \in [Observers -> Seq(Events)]
      BY <2>1, <3>1, <1>h, EventTypes
    <3> QED
      BY <1>7, <2>1, <3>1, <3>2, <1>i DEF RegisterObserver, readerVars, peerVars
  <2>3. CASE ~is_closed
    <3>1. /\ observers' = Append(observers, method.observer)
          /\ gate' = TRUE /\ first' \in {first, method.observer} /\ heard' = heard
      BY <1>7, <2>3 DEF RegisterObserver
    <3>2. observers' \in Seq(Observers)
      BY <2>1, <3>1, Added
    <3> QED
      BY <1>7, <2>1, <3>1, <3>2, <1>i DEF RegisterObserver, readerVars, peerVars
  <2> QED
    BY <2>2, <2>3
<1>8. CASE Send
  BY <1>8, <1>i
     DEF Send, Places, Steps, Idle,
         sharedVars, readerVars, methodVars, peerVars, historyVars
<1>9. CASE SendLock
  BY <1>9
     DEF SendLock, Places, Steps,
         sharedVars, readerVars, methodVars, peerVars, historyVars
<1>10. CASE SendDone
  BY <1>10, <1>i
     DEF SendDone, Places, Steps,
         sharedVars, readerVars, methodVars, peerVars, historyVars
<1>11. CASE CloseWriter
  BY <1>11, ZenonT(60)
     DEF CloseWriter, Places, Steps,
         sharedVars, readerVars, methodVars, peerVars, historyVars
<1>12. CASE CloseTake
  BY <1>12, NobodyListed, ZenonT(60)
     DEF CloseTake, Places, Steps,
         sharedVars, readerVars, methodVars, peerVars, historyVars
<1>13. CASE CloseTell
  BY <1>13, EventTypes, <1>h, NextOf
     DEF CloseTell, Places, Steps,
         sharedVars, readerVars, methodVars, peerVars, historyVars
<1>14. CASE CloseDone
  BY <1>14, <1>i, ItemTypes, WireTypes
     DEF CloseDone, Places, Steps, Ends,
         sharedVars, readerVars, methodVars, peerVars, historyVars
<1>15. CASE DropTransport
  BY <1>15, <1>i
     DEF DropTransport, Places, Steps, Idle,
         sharedVars, readerVars, methodVars, peerVars, historyVars
<1>16. CASE ReaderGate
  BY <1>16
     DEF ReaderGate, Places, Steps,
         sharedVars, readerVars, methodVars, peerVars, historyVars
<1>17. CASE ReaderCheck
  BY <1>17
     DEF ReaderCheck, Places, Steps,
         sharedVars, readerVars, methodVars, peerVars, historyVars
<1>18. CASE ReaderReads
  BY <1>18, WireTypes
     DEF ReaderReads, Places, Steps,
         sharedVars, readerVars, methodVars, peerVars, historyVars
<1>19. CASE ReaderClosed
  BY <1>19
     DEF ReaderClosed, Places, Steps,
         sharedVars, readerVars, methodVars, peerVars, historyVars
<1>20. CASE ReaderSnapshot
  BY <1>20
     DEF ReaderSnapshot, Places, Steps,
         sharedVars, readerVars, methodVars, peerVars, historyVars
<1>21. CASE ReaderPing
  BY <1>21
     DEF ReaderPing, Places, Steps,
         sharedVars, readerVars, methodVars, peerVars, historyVars
<1>22. CASE PongLock
  BY <1>22
     DEF PongLock, Places, Steps,
         sharedVars, readerVars, methodVars, peerVars, historyVars
<1>23. CASE ReaderEnd
  BY <1>23
     DEF ReaderEnd, Places, Steps,
         sharedVars, readerVars, methodVars, peerVars, historyVars
<1>24. CASE ReaderMark
  BY <1>24
     DEF ReaderMark, Places, Steps,
         sharedVars, readerVars, methodVars, peerVars, historyVars
<1>25. CASE ReaderTake
  BY <1>25, NobodyListed
     DEF ReaderTake, Places, Steps,
         sharedVars, readerVars, methodVars, peerVars, historyVars
<1>26. CASE ReaderTell
  BY <1>26, EventTypes, EndEventTypes, ItemTypes, <1>h, NextOf, SMTT(30)
     DEF ReaderTell, Places, Steps,
         sharedVars, readerVars, methodVars, peerVars, historyVars
<1>27. CASE ReaderTold
  BY <1>27
     DEF ReaderTold, Places, Steps,
         sharedVars, readerVars, methodVars, peerVars, historyVars
<1>28. CASE PeerPings
  BY <1>28, ItemTypes, WireTypes
     DEF PeerPings, Places, Steps,
         sharedVars, readerVars, methodVars, peerVars, historyVars
<1> QED
  BY <1>1, <1>2, <1>3, <1>4, <1>5, <1>6, <1>7, <1>8, <1>9, <1>10, <1>11, <1>12, <1>13, <1>14, <1>15, <1>16, <1>17, <1>18, <1>19, <1>20, <1>21, <1>22, <1>23, <1>24, <1>25, <1>26, <1>27, <1>28
     DEF Next, ReaderStep, MethodStep, Caller, Peer

---------------------------------------------------------------------------
(* The reader's hands                                                       *)

\* What comes off the wire is a frame, an end or a ping.
LEMMA ItemKinds ==
  /\ \A it \in Items : it.n > 0 \/ Final(it) \/ it.what = "ping"
  /\ \A it \in Items \cup {Nothing} : it.what = "ping" => it.n = 0
BY DEF Items, Item, Final, Ends, Nothing

\* Every step: what the reader has in its hands.
LEMMA HandsNext ==
  ASSUME TransportTypes, Hands, Next
  PROVE  Hands'
<1> USE TransportAssumption, ItemTypes DEF TransportTypes
<1>k. ASSUME UNCHANGED readerVars, is_closed => is_closed',
             method'.step \in {"close", "close_away", "take", "take_away", "tell", "tell_away",
                               "dropped"} => is_closed'
      PROVE  Hands'
  BY <1>k DEF Hands, EndBatch, IsMessage, readerVars
<1>1. ASSUME NEW o \in Observers, AddObserver(o) \/ RemoveObserver(o) PROVE Hands'
  BY <1>1, <1>k DEF AddObserver, RemoveObserver, sharedVars, methodVars, Hands
<1>2. ASSUME NEW away \in BOOLEAN, Close(away) PROVE Hands'
  BY <1>2, <1>k DEF Close
<1>3. CASE RegisterObserver \/ Send \/ SendLock \/ SendDone
  BY <1>3, <1>k DEF RegisterObserver, Send, SendLock, SendDone, Idle, sharedVars
<1>4. CASE CloseWriter \/ CloseTake \/ CloseTell \/ CloseDone \/ DropTransport
  BY <1>4, <1>k DEF CloseWriter, CloseTake, CloseTell, CloseDone, DropTransport, Idle,
       sharedVars, Hands
<1>5. CASE Peer
  BY <1>5, <1>k DEF Peer, PeerSends, PeerPings, PeerEnds, sharedVars, methodVars, Hands
<1>6. CASE ReaderGate \/ ReaderCheck \/ ReaderClosed
  BY <1>6 DEF ReaderGate, ReaderCheck, ReaderClosed, Hands, EndBatch, IsMessage,
       sharedVars, methodVars
<1>13. CASE ReaderPing
  BY <1>13, ItemKinds DEF ReaderPing, Hands, EndBatch, sharedVars, methodVars
<1>14. CASE ReaderEnd
  BY <1>14 DEF ReaderEnd, IsEnd, Final, Hands, EndBatch, sharedVars, methodVars
<1>7. CASE ReaderReads
  <2>1. Head(wire) \in Items
    BY <1>7, WireTypes DEF ReaderReads
  <2> QED
    BY <1>7, <2>1, ItemKinds DEF ReaderReads, Hands, EndBatch, sharedVars, methodVars
<1>8. CASE ReaderSnapshot \/ ReaderMark \/ ReaderTake
  BY <1>8 DEF ReaderSnapshot, ReaderMark, ReaderTake, Hands, EndBatch, IsMessage,
       sharedVars, methodVars
<1>11. CASE ReaderTell
  BY <1>11 DEF ReaderTell, Hands, EndBatch, IsMessage, sharedVars, methodVars
<1>12. CASE ReaderTold
  BY <1>12 DEF ReaderTold, Hands, EndBatch, IsMessage, sharedVars, methodVars
<1>9. CASE PongLock
  BY <1>9 DEF PongLock, Hands, EndBatch, sharedVars, methodVars
<1>10. ASSUME NEW ok \in BOOLEAN, PongDone(ok) PROVE Hands'
  BY <1>10 DEF PongDone, Hands, EndBatch, Ends, sharedVars, methodVars
<1> QED
  BY <1>1, <1>2, <1>3, <1>4, <1>5, <1>6, <1>7, <1>8, <1>9, <1>10, <1>11, <1>12, <1>13, <1>14
     DEF Next, ReaderStep, MethodStep, Caller

---------------------------------------------------------------------------
(* Who is told what                                                         *)

\* The lists and what was heard, together.
Told == Listed /\ Untold /\ Midway /\ \A o \in Observers : Quiet(o)

\* A new observer is told Connected, or at once that the connection is closed.
LEMMA AddTold ==
  ASSUME TransportTypes, Hands, Told, NEW o \in Observers, AddObserver(o)
  PROVE  Told'
<1> USE DEF TransportTypes
<1>1. /\ o \notin asked /\ asked' = asked \cup {o} /\ observers' = observers
      /\ telling' = telling /\ batch' = batch /\ method = Idle
      /\ reader' = reader /\ item' = item
  BY DEF AddObserver, sharedVars, readerVars
<1>2. /\ ~Among(observers, o) /\ ~Among(telling, o) /\ ~Among(batch, o) /\ NoEnd(o)
      /\ method.observer = None /\ o # None
  BY <1>1, TransportAssumption DEF Told, Listed, Untold, NoEnd, Idle
<1>3. EndBatch' = EndBatch
  BY <1>1 DEF EndBatch, IsMessage
<1> HIDE DEF TransportTypes
<1>4. PICK e \in Events : Tell(o, e) /\ (is_closed \/ ~Terminal(e))
  BY EventTypes DEF AddObserver
<1>5. method'.observer = None \/ (method'.observer = o /\ ~is_closed)
  BY <1>1, <1>2 DEF AddObserver
<1>6. Quiet(o)' /\ (is_closed \/ NoEnd(o)')
      /\ \A p \in Observers \ {o} :
           Quiet(p)' /\ (NoEnd(p) => NoEnd(p)') /\ (JustClosed(p) => JustClosed(p)')
  BY <1>2, <1>4, HearsOn DEF Told, TransportTypes
<1>7. \A p \in Observers \ {o} : heard'[p] = heard[p]
  BY <1>4, Hears DEF TransportTypes
<1>8. Listed'
  BY <1>1, <1>2, <1>3, <1>5 DEF Told, Listed
<1>9. Untold'
  BY <1>1, <1>2, <1>3, <1>5, <1>6, <1>7, TransportAssumption DEF Told, Untold
<1>10. Midway' /\ \A p \in Observers : Quiet(p)'
  BY <1>1, <1>2, <1>6 DEF Told, Midway
<1> QED
  BY <1>8, <1>9, <1>10 DEF Told

\* It goes on the list, or hears of a close that came in between.
LEMMA RegisterTold ==
  ASSUME TransportTypes, Hands, Told, RegisterObserver
  PROVE  Told'
<1>0. PICK o \in Observers : o = method.observer
  BY DEF RegisterObserver, TransportTypes
<1>1. /\ o \in asked /\ NoEnd(o)
      /\ ~Among(observers, o) /\ ~Among(telling, o) /\ ~Among(batch, o)
  BY <1>0 DEF Told, Listed, Untold
<1>2. /\ asked' = asked /\ telling' = telling /\ batch' = batch
      /\ method'.observer = None /\ EndBatch' = EndBatch /\ \A p \in Observers : p # None
  BY TransportAssumption DEF RegisterObserver, readerVars, EndBatch, IsMessage, Idle
<1>3. \/ Tell(o, Closed) /\ observers' = observers
      \/ heard' = heard /\ observers' = Append(observers, o)
  BY <1>0 DEF RegisterObserver
<1>4. CASE Tell(o, Closed) /\ observers' = observers
  <2>1. Quiet(o)' /\ \A p \in Observers \ {o} :
             Quiet(p)' /\ (NoEnd(p) => NoEnd(p)') /\ (JustClosed(p) => JustClosed(p)')
    BY <1>1, <1>4, EventTypes, HearsOn DEF Told, TransportTypes
  <2>2. \A p \in Observers \ {o} : heard'[p] = heard[p]
    BY <1>1, <1>4, EventTypes, Hears DEF TransportTypes
  <2>3. Listed'
    BY <1>1, <1>2, <1>4 DEF Told, Listed
  <2>4. Untold'
    BY <1>1, <1>2, <1>4, <2>1, <2>2 DEF Told, Untold
  <2>5. Midway' /\ \A p \in Observers : Quiet(p)'
    BY <1>1, <1>2, <2>1 DEF Told, Midway
  <2> QED
    BY <2>3, <2>4, <2>5 DEF Told
<1>5. CASE heard' = heard /\ observers' = Append(observers, o)
  <2>1. /\ \A p \in Observers : Among(observers', p) <=> p = o \/ Among(observers, p)
        /\ Once(observers')
    BY <1>1, <1>5, Added DEF Told, Listed, TransportTypes
  <2>2. \A p \in Observers : NoEnd(p)' = NoEnd(p) /\ JustClosed(p)' = JustClosed(p)
                             /\ Quiet(p)' = Quiet(p)
    BY <1>5 DEF NoEnd, JustClosed, Quiet
  <2>3. Listed'
    BY <1>1, <1>2, <2>1 DEF Told, Listed
  <2>4. Untold'
    BY <1>1, <1>2, <1>5, <2>1, <2>2 DEF Told, Untold
  <2>5. Midway' /\ \A p \in Observers : Quiet(p)'
    BY <1>2, <2>2 DEF Told, Midway
  <2> QED
    BY <2>3, <2>4, <2>5 DEF Told
<1> QED
  BY <1>3, <1>4, <1>5

\* Steps that leave what was heard alone and move observers between the lists
\* without naming anybody twice.
LEMMA MovedTold ==
  ASSUME Told, heard' = heard, asked' = asked, method'.observer \in {None, method.observer},
         Once(observers') /\ Once(telling') /\ Once(batch'),
         \A o \in Observers :
           /\ Among(observers', o) => Among(observers, o)
           /\ Among(telling', o) => Among(observers, o) \/ Among(telling, o)
           /\ ~(Among(observers', o) /\ Among(telling', o))
           /\ Among(batch', o) => Among(observers, o) \/ Among(batch, o)
           /\ EndBatch' /\ Among(batch', o) =>
                /\ ~Among(observers', o) /\ ~Among(telling', o)
                /\ Among(observers, o) \/ EndBatch
  PROVE  Told'
<1>1. \A p \in Observers : NoEnd(p)' = NoEnd(p) /\ JustClosed(p)' = JustClosed(p)
                           /\ Quiet(p)' = Quiet(p)
  BY DEF NoEnd, JustClosed, Quiet
<1>0. \A p \in Observers : p # None
  BY TransportAssumption
<1>2. Listed'
  BY <1>0 DEF Told, Listed
<1>3. Untold'
  BY <1>0, <1>1 DEF Told, Untold
<1>4. Midway' /\ \A p \in Observers : Quiet(p)'
  BY <1>1 DEF Told, Midway, Untold
<1> QED
  BY <1>2, <1>3, <1>4 DEF Told

\* A close tells the next one of its list.
LEMMA CloseTold ==
  ASSUME TransportTypes, Hands, Told, CloseTell
  PROVE  Told'
<1>0. PICK h \in Observers : h = Head(telling)
  BY NextOf DEF CloseTell, TransportTypes
<1>1. /\ telling # <<>> /\ telling' = Tail(telling) /\ Tell(h, Closed)
      /\ observers' = observers /\ batch' = batch /\ asked' = asked /\ method' = method
      /\ EndBatch' = EndBatch
  BY <1>0 DEF CloseTell, sharedVars, readerVars, historyVars, EndBatch, IsMessage
<1>2. /\ Among(telling, h) /\ Once(telling') /\ ~Among(telling', h)
      /\ \A o \in Observers : Among(telling', o) => Among(telling, o)
  BY <1>0, <1>1, NextOf DEF TransportTypes, Told, Listed
<1>3. /\ NoEnd(h) /\ h \in asked /\ ~Among(observers, h) /\ method.observer # h
      /\ ~(EndBatch /\ Among(batch, h))
  BY <1>2 DEF Told, Listed, Untold
<1>4. Quiet(h)' /\ JustClosed(h)' /\ \A p \in Observers \ {h} :
           Quiet(p)' /\ (NoEnd(p) => NoEnd(p)') /\ (JustClosed(p) => JustClosed(p)')
  BY <1>1, <1>2, <1>3, EventTypes, HearsOn DEF Told, TransportTypes
<1>5. \A p \in Observers \ {h} : heard'[p] = heard[p]
  BY <1>1, <1>2, EventTypes, Hears DEF TransportTypes
<1>6. Listed'
  BY <1>1, <1>2 DEF Told, Listed
<1>7. Untold'
  BY <1>1, <1>2, <1>3, <1>4, <1>5 DEF Told, Untold
<1>8. Midway' /\ \A p \in Observers : Quiet(p)'
  BY <1>1, <1>2, <1>4 DEF Told, Midway
<1> QED
  BY <1>6, <1>7, <1>8 DEF Told

\* The reader tells the next one of its list: of a frame, also after a close
\* has told it of the end meanwhile, or of the end.
LEMMA ReaderTells ==
  ASSUME TransportTypes, Hands, Told, ReaderTell
  PROVE  Told'
<1>0. PICK h \in Observers : h = Head(batch)
  BY NextOf DEF ReaderTell, TransportTypes
<1>e. PICK e \in Events :
        /\ e = IF IsMessage THEN Event("Message", item.n) ELSE Event(EndEvent(item.what), 0)
        /\ IsMessage => ~Terminal(e) /\ e.what = "Message"
  BY EventTypes, EndEventTypes, ItemTypes DEF TransportTypes
<1>1. /\ batch # <<>> /\ batch' = Tail(batch) /\ Tell(h, e)
      /\ observers' = observers /\ telling' = telling /\ asked' = asked /\ method' = method
      /\ EndBatch' = EndBatch /\ EndBatch = ~IsMessage
  BY <1>0, <1>e DEF ReaderTell, sharedVars, methodVars, historyVars, EndBatch, IsMessage
<1>2. /\ Among(batch, h) /\ Once(batch') /\ ~Among(batch', h)
      /\ \A o \in Observers : Among(batch', o) => Among(batch, o)
  BY <1>0, <1>1, NextOf DEF TransportTypes, Told, Listed
<1>4. /\ h \in asked /\ method.observer # h
      /\ EndBatch => NoEnd(h) /\ ~Among(observers, h) /\ ~Among(telling, h)
      /\ NoEnd(h) \/ JustClosed(h)
      /\ Among(observers, h) \/ Among(telling, h) => NoEnd(h)
  BY <1>2 DEF Told, Listed, Untold, Midway
<1>5. /\ Quiet(h)' /\ (NoEnd(h) /\ IsMessage => NoEnd(h)')
      /\ \A p \in Observers \ {h} :
           Quiet(p)' /\ (NoEnd(p) => NoEnd(p)') /\ (JustClosed(p) => JustClosed(p)')
  BY <1>1, <1>2, <1>e, <1>4, HearsOn DEF Told, TransportTypes
<1>6. \A p \in Observers \ {h} : heard'[p] = heard[p]
  BY <1>1, <1>2, <1>e, Hears DEF TransportTypes
<1>7. Listed'
  BY <1>1, <1>2 DEF Told, Listed
<1>8. Untold'
  BY <1>1, <1>2, <1>4, <1>5, <1>6 DEF Told, Untold
<1>9. Midway' /\ \A p \in Observers : Quiet(p)'
  BY <1>1, <1>2, <1>5 DEF Told, Midway
<1> QED
  BY <1>7, <1>8, <1>9 DEF Told

\* Nobody is added by a removal.
LEMMA RemovedFrom ==
  ASSUME TransportTypes, Once(observers), NEW o \in Observers, RemoveObserver(o)
  PROVE  Once(observers') /\ \A p \in Observers : Among(observers', p) => Among(observers, p)
<1>1. PICK k \in 1 .. Len(observers) :
        /\ observers[k] = o
        /\ observers' = [i \in 1 .. Len(observers) - 1 |->
                           observers[IF i < k THEN i ELSE i + 1]]
  BY LenProperties DEF RemoveObserver, TransportTypes
<1>2. PICK list \in Seq(Observers) : list = observers
  BY DEF TransportTypes
<1>3. PICK rest : rest = observers'
  OBVIOUS
<1>4. k \in 1 .. Len(list) /\ Once(list)
  BY <1>1, <1>2
<1>5. rest = [i \in 1 .. Len(list) - 1 |-> list[IF i < k THEN i ELSE i + 1]]
  BY <1>1, <1>2, <1>3
<1>6. /\ rest \in Seq(Observers) /\ Len(rest) = Len(list) - 1
      /\ \A i \in 1 .. Len(list) - 1 :
       (i < k => rest[i] = list[i]) /\ (i >= k => rest[i] = list[i + 1])
  <2>1. Len(list) \in Nat \ {0} /\ \A i \in 1 .. Len(list) : list[i] \in Observers
    BY <1>4, LenProperties, ElementOfSeq
  <2> QED
    BY <1>4, <1>5, <2>1
<1>7. Once(rest) /\ \A p \in Observers : Among(rest, p) => Among(list, p)
  BY <1>4, <1>6, Removed
<1> QED
  BY <1>2, <1>3, <1>7

\* Every step: nobody hears of the end twice.
LEMMA ToldNext ==
  ASSUME TransportTypes, Hands, Told, Next
  PROVE  Told'
<1>0. Once(observers) /\ Once(telling) /\ Once(batch)
  BY DEF Told, Listed
<1>k. ASSUME observers' = observers, telling' = telling, batch' = batch, heard' = heard,
             asked' = asked, method'.observer \in {None, method.observer},
             EndBatch' => EndBatch
      PROVE  Told'
  BY <1>0, <1>k, MovedTold DEF Told, Listed
<1>1. ASSUME NEW o \in Observers, RemoveObserver(o) PROVE Told'
  <2>2. Once(observers') /\ \A p \in Observers : Among(observers', p) => Among(observers, p)
    BY <1>0, <1>1, RemovedFrom
  <2>3. /\ heard' = heard /\ asked' = asked /\ telling' = telling /\ batch' = batch
        /\ method' = method /\ EndBatch' = EndBatch
    BY <1>1 DEF RemoveObserver, readerVars, methodVars, EndBatch, IsMessage
  <2> QED
    BY <2>2, <2>3, <1>0, MovedTold DEF Told, Listed
<1>2. CASE CloseTake
  <2>1. /\ telling' = observers /\ observers' = <<>> /\ heard' = heard /\ asked' = asked
        /\ batch' = batch /\ method'.observer = method.observer /\ EndBatch' = EndBatch
    BY <1>2 DEF CloseTake, readerVars, historyVars, EndBatch, IsMessage, TransportTypes
  <2> QED
    BY <2>1, <1>0, NobodyListed, MovedTold DEF Told, Listed
<1>3. CASE ReaderSnapshot
  <2>1. /\ batch' = observers /\ observers' = observers /\ telling' = telling
        /\ heard' = heard /\ asked' = asked /\ method' = method /\ ~EndBatch'
    BY <1>3 DEF ReaderSnapshot, sharedVars, methodVars, historyVars, EndBatch, IsMessage
  <2> QED
    BY <2>1, <1>0, MovedTold DEF Told, Listed
<1>4. CASE ReaderTake
  <2>1. /\ batch' = observers /\ observers' = <<>> /\ telling' = telling
        /\ heard' = heard /\ asked' = asked /\ method' = method
    BY <1>4 DEF ReaderTake, methodVars, historyVars
  <2> QED
    BY <2>1, <1>0, NobodyListed, MovedTold DEF Told, Listed
<1>5. CASE Send \/ SendLock \/ SendDone \/ CloseWriter \/ CloseDone \/ DropTransport
  BY <1>5, <1>k DEF Send, SendLock, SendDone, CloseWriter, CloseDone, DropTransport, Idle,
       sharedVars, readerVars, historyVars, EndBatch, IsMessage, TransportTypes
<1>6. ASSUME NEW away \in BOOLEAN, Close(away) PROVE Told'
  BY <1>6, <1>k DEF Close, Idle, readerVars, historyVars, EndBatch, IsMessage
<1>7. CASE Peer
  BY <1>7, <1>k DEF Peer, PeerSends, PeerPings, PeerEnds, sharedVars, readerVars,
       methodVars, historyVars, EndBatch, IsMessage
<1>8. CASE ReaderGate \/ ReaderCheck \/ ReaderReads \/ ReaderClosed \/ ReaderPing
           \/ ReaderEnd \/ ReaderMark \/ ReaderTold \/ PongLock
  BY <1>8, <1>k DEF ReaderGate, ReaderCheck, ReaderReads, ReaderClosed, ReaderPing,
       ReaderEnd, ReaderMark, ReaderTold, PongLock, sharedVars, methodVars, historyVars,
       EndBatch
<1>9. ASSUME NEW ok \in BOOLEAN, PongDone(ok) PROVE Told'
  BY <1>9, <1>k DEF PongDone, sharedVars, methodVars, historyVars, EndBatch
<1> QED
  BY <1>1, <1>2, <1>3, <1>4, <1>5, <1>6, <1>7, <1>8, <1>9, AddTold, RegisterTold, CloseTold,
     ReaderTells DEF Next, ReaderStep, MethodStep, Caller

---------------------------------------------------------------------------
(* The order of the frames                                                  *)

\* The peer puts an item at the end of the wire.
LEMMA WireGrows ==
  ASSUME NEW w \in Seq(Items), NEW it \in Items, NEW v, v = Append(w, it),
         NEW n \in Nat, NEW m \in Nat, n <= m, Numbered(w, n, m), it.n \in {0, m + 1}
  PROVE  /\ it.n = 0 => Numbered(v, n, m)
         /\ it.n = m + 1 => Numbered(v, n, m + 1)
<1>1. /\ Len(v) = Len(w) + 1 /\ \A i \in 1 .. Len(w) : v[i] = w[i]
      /\ v[Len(w) + 1] = it /\ Len(w) \in Nat
  BY AppendProperties, LenProperties
<1>2. /\ \A i \in 1 .. Len(w) : w[i].n = 0 \/ w[i].n \in n + 1 .. m
      /\ \A x \in n + 1 .. m : \E i \in 1 .. Len(w) : w[i].n = x
      /\ \A i, j \in 1 .. Len(w) : i < j /\ w[i].n > 0 /\ w[j].n > 0 => w[i].n < w[j].n
  BY DEF Numbered
<1>3. \A i, j \in 1 .. Len(v) : i < j /\ v[i].n > 0 /\ v[j].n > 0 => v[i].n < v[j].n
  BY <1>1, <1>2, SMTT(30)
<1>4. \A x \in n + 1 .. m : \E i \in 1 .. Len(v) : v[i].n = x
  BY <1>1, <1>2
<1>5. ASSUME it.n = 0 PROVE Numbered(v, n, m)
  <2>1. \A i \in 1 .. Len(v) : v[i].n = 0 \/ v[i].n \in n + 1 .. m
    BY <1>1, <1>2, <1>5
  <2> QED
    BY <1>3, <1>4, <2>1 DEF Numbered
<1>6. ASSUME it.n = m + 1 PROVE Numbered(v, n, m + 1)
  <2>1. \A i \in 1 .. Len(v) : v[i].n = 0 \/ v[i].n \in n + 1 .. m + 1
    BY <1>1, <1>2, <1>6
  <2>2. Len(v) \in 1 .. Len(v) /\ v[Len(v)].n = m + 1
    BY <1>1, <1>6
  <2>3. \A x \in n + 1 .. m + 1 : x = m + 1 \/ x \in n + 1 .. m
    OBVIOUS
  <2>4. \A x \in n + 1 .. m + 1 : \E i \in 1 .. Len(v) : v[i].n = x
    BY <1>4, <2>2, <2>3
  <2> QED
    BY <1>3, <2>1, <2>4 DEF Numbered
<1> QED
  BY <1>5, <1>6

\* The reader takes the first item: if that is a frame, it is the next one.
LEMMA WireShrinks ==
  ASSUME NEW w \in Seq(Items), w # <<>>, NEW v, v = Tail(w), NEW it, it = Head(w),
         NEW n \in Nat, NEW m \in Nat, n <= m, Numbered(w, n, m)
  PROVE  \/ it.n = 0 /\ Numbered(v, n, m)
         \/ it.n = n + 1 /\ n + 1 <= m /\ Numbered(v, n + 1, m)
<1>1. /\ Len(w) \in Nat \ {0} /\ Len(v) = Len(w) - 1 /\ it = w[1]
      /\ \A i \in 1 .. Len(w) - 1 : v[i] = w[i + 1]
  BY HeadTailProperties, EmptySeq, LenProperties
<1>2. /\ \A i \in 1 .. Len(w) : w[i].n = 0 \/ w[i].n \in n + 1 .. m
      /\ \A x \in n + 1 .. m : \E i \in 1 .. Len(w) : w[i].n = x
      /\ \A i, j \in 1 .. Len(w) : i < j /\ w[i].n > 0 /\ w[j].n > 0 => w[i].n < w[j].n
  BY DEF Numbered
<1>3. \A i, j \in 1 .. Len(v) : i < j /\ v[i].n > 0 /\ v[j].n > 0 => v[i].n < v[j].n
  BY <1>1, <1>2
<1>4. \A i \in 1 .. Len(v) : i + 1 \in 1 .. Len(w) /\ v[i] = w[i + 1]
  BY <1>1
<1>5. \A i \in 1 .. Len(w) : i = 1 \/ (i - 1 \in 1 .. Len(v) /\ v[i - 1] = w[i])
  BY <1>1
<1>6. CASE it.n = 0
  <2>1. \A i \in 1 .. Len(v) : v[i].n = 0 \/ v[i].n \in n + 1 .. m
    BY <1>2, <1>4
  <2>2. \A x \in n + 1 .. m : \E i \in 1 .. Len(v) : v[i].n = x
    <3> SUFFICES ASSUME NEW x \in n + 1 .. m PROVE \E i \in 1 .. Len(v) : v[i].n = x
      OBVIOUS
    <3>1. PICK i \in 1 .. Len(w) : w[i].n = x
      BY <1>2
    <3>2. i # 1
      BY <1>1, <1>6, <3>1
    <3> QED
      BY <1>5, <3>1, <3>2
  <2> QED
    BY <1>3, <1>6, <2>1, <2>2 DEF Numbered
<1>7. CASE it.n # 0
  <2>1. 1 \in 1 .. Len(w) /\ it.n \in n + 1 .. m
    BY <1>1, <1>2, <1>7
  <2>2. PICK i \in 1 .. Len(w) : w[i].n = n + 1
    BY <1>2, <2>1
  <2>3. it.n = n + 1 /\ n + 1 <= m
    BY <1>1, <1>2, <2>1, <2>2, SMTT(30)
  <2>4. \A k \in 1 .. Len(v) : v[k].n = 0 \/ v[k].n \in n + 1 + 1 .. m
    <3> SUFFICES ASSUME NEW k \in 1 .. Len(v), v[k].n # 0 PROVE v[k].n \in n + 1 + 1 .. m
      OBVIOUS
    <3>1. v[k].n \in n + 1 .. m /\ v[k].n = w[k + 1].n /\ k + 1 \in 1 .. Len(w) /\ 1 < k + 1
      BY <1>2, <1>4
    <3>2. w[1].n < w[k + 1].n
      BY <1>1, <1>2, <2>1, <3>1
    <3> QED
      BY <1>1, <2>3, <3>1, <3>2
  <2>5. \A x \in n + 1 + 1 .. m : \E k \in 1 .. Len(v) : v[k].n = x
    <3> SUFFICES ASSUME NEW x \in n + 1 + 1 .. m PROVE \E k \in 1 .. Len(v) : v[k].n = x
      OBVIOUS
    <3>1. PICK k \in 1 .. Len(w) : w[k].n = x
      BY <1>2
    <3>2. k # 1
      BY <1>1, <2>3, <3>1
    <3> QED
      BY <1>5, <3>1, <3>2
  <2> QED
    BY <1>3, <2>3, <2>4, <2>5 DEF Numbered
<1> QED
  BY <1>6, <1>7

\* What a numbered wire says of the frames on it.
LEMMA WireNumbers ==
  ASSUME NEW w \in Seq(Items), NEW n \in Nat, NEW m \in Nat, Numbered(w, n, m)
  PROVE  {w[i].n : i \in DOMAIN w} \ {0} = n + 1 .. m
<1>1. DOMAIN w = 1 .. Len(w)
  BY LenProperties
<1>2. ASSUME NEW x \in {w[i].n : i \in DOMAIN w} \ {0} PROVE x \in n + 1 .. m
  BY <1>1, <1>2 DEF Numbered
<1>3. ASSUME NEW x \in n + 1 .. m PROVE x \in {w[i].n : i \in DOMAIN w} \ {0}
  <2>1. PICK i \in 1 .. Len(w) : w[i].n = x
    BY <1>3 DEF Numbered
  <2> QED
    BY <1>1, <1>3, <2>1
<1> QED
  BY <1>2, <1>3

\* A closed connection is never opened again.
LEMMA StaysClosed ==
  ASSUME Next, is_closed
  PROVE  is_closed'
BY DEF Next, ReaderStep, MethodStep, Caller, Peer, ReaderGate, ReaderCheck, ReaderReads,
       ReaderClosed, ReaderSnapshot, ReaderPing, ReaderEnd, ReaderMark, ReaderTake, ReaderTell,
       ReaderTold, RegisterObserver, SendDone, CloseTake, CloseTell, CloseDone, AddObserver,
       RemoveObserver, Send, Close, DropTransport, PeerSends, PeerPings, PeerEnds, PongLock,
       PongDone, SendLock, CloseWriter, sharedVars

\* The frames leave the wire in the order they were sent, and none before an
\* observer is there.
LEMMA OnWireNext ==
  ASSUME TransportTypes, Hands, OnWire, Next
  PROVE  OnWire'
<1>0. SUFFICES ASSUME ~is_closed' PROVE OnWire'
  BY DEF OnWire
<1>1. ~is_closed
  BY <1>0, StaysClosed
<1>2. PICK n \in 0 .. frames :
        /\ Numbered(wire, n, frames)
        /\ reader = "gate" => n = 0
        /\ item.n > 0 => item.n = n
  BY <1>1 DEF OnWire
<1>3. first = None => reader = "gate" /\ ~gate
  BY <1>1 DEF OnWire
<1>4. frames \in Nat /\ n \in Nat /\ n <= frames /\ wire \in Seq(Items)
  BY TransportAssumption DEF TransportTypes
<1>k. ASSUME wire' = wire, frames' = frames, reader' = "gate" => reader = "gate",
             item'.n > 0 => item' = item, first' = None => first = None /\ reader' = reader,
             gate' => gate \/ first' # None
      PROVE  OnWire'
  <2>1. /\ n \in 0 .. frames' /\ Numbered(wire', n, frames') /\ (reader' = "gate" => n = 0)
        /\ item'.n > 0 => item'.n = n
    BY <1>2, <1>k
  <2> QED
    BY <1>3, <1>k, <2>1 DEF OnWire
<1>a. ASSUME NEW m \in Nat, m <= frames', frames' \in Nat, Numbered(wire', m, frames'),
             reader' = "gate" => m = 0, item'.n > 0 => item'.n = m,
             first' = None => reader' = "gate" /\ ~gate'
      PROVE  OnWire'
  BY <1>a DEF OnWire
<1>5. CASE Send \/ SendLock \/ SendDone \/ CloseWriter \/ RegisterObserver
           \/ \E o \in Observers : AddObserver(o) \/ RemoveObserver(o)
  BY <1>5, <1>k, <1>1, TransportAssumption
     DEF Send, SendLock, SendDone, CloseWriter, RegisterObserver, AddObserver, RemoveObserver,
         sharedVars, readerVars, peerVars, historyVars, TransportTypes
<1>6. CASE CloseTake \/ CloseTell \/ CloseDone
  BY <1>6, <1>1 DEF CloseTake, CloseTell, CloseDone, Hands
<1>7. CASE DropTransport \/ ReaderMark \/ \E away \in BOOLEAN : Close(away)
  BY <1>7, <1>0 DEF DropTransport, ReaderMark, Close
<1>8. CASE ReaderGate
  BY <1>8, <1>3, <1>k DEF ReaderGate, peerVars, historyVars
<1>9. CASE ReaderCheck \/ ReaderClosed \/ ReaderSnapshot \/ ReaderPing \/ ReaderEnd
           \/ ReaderTake \/ ReaderTell \/ ReaderTold \/ PongLock
  BY <1>9, <1>3, <1>k, ItemTypes
     DEF ReaderCheck, ReaderClosed, ReaderSnapshot, ReaderPing, ReaderEnd, ReaderTake,
         ReaderTell, ReaderTold, PongLock, sharedVars, peerVars, historyVars
<1>10. ASSUME NEW ok \in BOOLEAN, PongDone(ok) PROVE OnWire'
  <2>1. item'.n > 0 => item' = item
    BY <1>10, ItemTypes DEF PongDone, Ends
  <2> QED
    BY <1>10, <1>3, <1>k, <2>1 DEF PongDone, sharedVars, peerVars, historyVars
<1>11. CASE ReaderReads
  <2>1. PICK v, it : v = Tail(wire) /\ it = Head(wire)
    OBVIOUS
  <2>2. /\ wire # <<>> /\ wire' = v /\ item' = it /\ frames' = frames /\ first # None
        /\ first' = first /\ reader' = "got"
    BY <1>11, <1>3, <2>1 DEF ReaderReads, historyVars
  <2>3. \/ it.n = 0 /\ Numbered(v, n, frames)
        \/ it.n = n + 1 /\ n + 1 <= frames /\ Numbered(v, n + 1, frames)
    BY <1>2, <1>4, <2>1, <2>2, WireShrinks
  <2>4. CASE it.n = 0 /\ Numbered(v, n, frames)
    BY <1>4, <2>2, <2>4, <1>a
  <2>5. CASE it.n = n + 1 /\ n + 1 <= frames /\ Numbered(v, n + 1, frames)
    <3>1. n + 1 \in Nat
      BY <1>4
    <3> QED
      BY <1>4, <2>2, <2>5, <3>1, <1>a
  <2> QED
    BY <2>3, <2>4, <2>5
<1>12. ASSUME NEW what \in {"frame", "pong", "empty"}, PeerSends(what) PROVE OnWire'
  <2>1. PICK it \in Items : it = Item(what, frames + 1) /\ it.n = frames + 1
    BY <1>4, <1>12, ItemTypes, TransportAssumption DEF PeerSends
  <2>2. /\ wire' = Append(wire, it) /\ frames' = frames + 1 /\ reader' = reader /\ item' = item
        /\ first' = first /\ gate' = gate
    BY <1>12, <2>1 DEF PeerSends, sharedVars, readerVars, historyVars
  <2>3. Numbered(wire', n, frames + 1)
    BY <1>2, <1>4, <2>1, <2>2, WireGrows
  <2> QED
    BY <1>2, <1>3, <1>4, <2>2, <2>3, <1>a
<1>13. ASSUME NEW what \in Ends, PeerEnds(what) PROVE OnWire'
  <2>1. PICK it \in Items : it = Item(what, 0) /\ it.n = 0
    BY ItemTypes
  <2>2. /\ wire' = Append(wire, it) /\ frames' = frames /\ reader' = reader /\ item' = item
        /\ first' = first /\ gate' = gate
    BY <1>13, <2>1 DEF PeerEnds, sharedVars, readerVars, historyVars
  <2>3. Numbered(wire', n, frames)
    BY <1>2, <1>4, <2>1, <2>2, WireGrows
  <2> QED
    BY <1>2, <1>3, <1>4, <2>2, <2>3, <1>a
<1>14. CASE PeerPings
  <2>1. /\ wire = <<>> /\ wire' = <<Item("ping", 0)>> /\ frames' = frames /\ reader' = reader
        /\ item' = item /\ first' = first /\ gate' = gate
    BY <1>14 DEF PeerPings, sharedVars, readerVars, historyVars
  <2>2. n = frames
    BY <1>2, <1>4, <2>1 DEF Numbered
  <2>3. Numbered(wire', n, frames)
    BY <1>4, <2>1, <2>2 DEF Numbered, Item
  <2> QED
    BY <1>2, <1>3, <1>4, <2>1, <2>3, <1>a
<1> QED
  BY <1>5, <1>6, <1>7, <1>8, <1>9, <1>10, <1>11, <1>12, <1>13, <1>14
     DEF Next, ReaderStep, MethodStep, Caller, Peer

---------------------------------------------------------------------------
(* What the first observer has heard                                        *)

\* Nobody but o hears anything.
LEMMA HeardSame ==
  ASSUME NEW o, heard'[o] = heard[o], NEW n
  PROVE  HeardTo(o, n)' <=> HeardTo(o, n)
BY DEF HeardTo

\* Whoever is being attached has heard Connected and nothing else.
LEMMA AttachingNext ==
  ASSUME TransportTypes, Listed, Untold, Attaching, Next
  PROVE  Attaching'
<1>1. CASE method'.step = "attach" /\ method.step # "attach"
  <2>1. PICK o \in Observers : AddObserver(o)
    BY <1>1 DEF Next, ReaderStep, MethodStep, Caller, Peer, ReaderGate, ReaderCheck, ReaderReads,
       ReaderClosed, ReaderSnapshot, ReaderPing, ReaderEnd, ReaderMark, ReaderTake, ReaderTell,
       ReaderTold, RegisterObserver, SendDone, CloseTake, CloseTell, CloseDone, RemoveObserver,
       Send, Close, DropTransport, PeerSends, PeerPings, PeerEnds, PongLock, PongDone, SendLock,
       CloseWriter, methodVars, Idle, TransportTypes
  <2>2. Tell(o, Event("Connected", 0)) /\ method'.observer = o /\ heard[o] = <<>>
    BY <1>1, <2>1 DEF AddObserver, Untold
  <2>3. Len(heard'[o]) = 1 /\ heard'[o][1] = Event("Connected", 0)
    <3>1. Len(heard[o]) = 0
      BY <2>2, EmptySeq
    <3>2. /\ Len(heard'[o]) = Len(heard[o]) + 1
          /\ heard'[o][Len(heard[o]) + 1] = Event("Connected", 0)
      BY <2>2, EventTypes, Hears DEF TransportTypes
    <3> QED
      BY <3>1, <3>2
  <2> QED
    BY <2>2, <2>3 DEF Attaching, HeardTo
<1>2. CASE method'.step = "attach" /\ method.step = "attach"
  <2>1. PICK o \in Observers : o = method.observer
    BY <1>2 DEF TransportTypes
  <2>2. HeardTo(o, 0)
    BY <1>2, <2>1 DEF Attaching
  <2>3. method' = method /\ (heard' = heard \/ ReaderTell)
    BY <1>2 DEF Next, ReaderStep, MethodStep, Caller, Peer, ReaderGate, ReaderCheck, ReaderReads,
       ReaderClosed, ReaderSnapshot, ReaderPing, ReaderEnd, ReaderMark, ReaderTake, ReaderTell,
       ReaderTold, RegisterObserver, SendDone, CloseTake, CloseTell, CloseDone, AddObserver,
       RemoveObserver, Send, Close, DropTransport, PeerSends, PeerPings, PeerEnds, PongLock,
       PongDone, SendLock, CloseWriter, methodVars, Idle, TransportTypes
  <2>4. ASSUME ReaderTell PROVE heard'[o] = heard[o]
    <3>1. PICK h \in Observers : h = Head(batch)
      BY <2>4, NextOf DEF ReaderTell, TransportTypes
    <3>2. Among(batch, h)
      BY <2>4, <3>1, NextOf DEF ReaderTell, TransportTypes
    <3>3. h # o
      BY <2>1, <3>2 DEF Listed
    <3> QED
      BY <2>4, <3>1, <3>3 DEF ReaderTell, Tell, TransportTypes
  <2>5. heard'[o] = heard[o]
    BY <2>3, <2>4
  <2>6. HeardTo(o, 0)'
    BY <2>2, <2>5, HeardSame
  <2> QED
    BY <2>1, <2>3, <2>6 DEF Attaching
<1> QED
  BY <1>1, <1>2 DEF Attaching

\* Until the first observer is registered nobody is, and it is not attached again.
LEMMA FirstKnownNext ==
  ASSUME TransportTypes, Listed, FirstKnown, Next
  PROVE  FirstKnown'
<1> USE DEF TransportTypes, FirstKnown
<1>k. ASSUME first' = first, asked' = asked, observers = <<>> => observers' = <<>>,
             method'.observer \in {None, method.observer}
      PROVE  FirstKnown'
  BY <1>k, TransportAssumption
<1>1. ASSUME NEW o \in Observers, AddObserver(o) PROVE FirstKnown'
  BY <1>1, TransportAssumption DEF AddObserver, sharedVars
<1>2. CASE RegisterObserver
  <2>1. method.observer \in Observers /\ method.observer \in asked
    BY <1>2 DEF RegisterObserver, Listed
  <2> QED
    BY <1>2, <2>1, TransportAssumption DEF RegisterObserver, Idle
<1>3. ASSUME NEW o \in Observers, RemoveObserver(o) PROVE FirstKnown'
  <2>1. observers # <<>>
    BY <1>3 DEF RemoveObserver
  <2> QED
    BY <1>3, <2>1, <1>k DEF RemoveObserver, methodVars
<1>4. CASE Send \/ SendLock \/ SendDone \/ CloseWriter \/ CloseTake \/ CloseTell \/ CloseDone
           \/ DropTransport \/ \E away \in BOOLEAN : Close(away)
  BY <1>4, <1>k
     DEF Send, SendLock, SendDone, CloseWriter, CloseTake, CloseTell, CloseDone, DropTransport,
         Close, Idle, sharedVars, historyVars
<1>5. CASE Peer
  BY <1>5, <1>k DEF Peer, PeerSends, PeerPings, PeerEnds, sharedVars, methodVars, historyVars
<1>6. CASE ReaderStep \/ PongLock \/ \E ok \in BOOLEAN : PongDone(ok)
  BY <1>6, <1>k
     DEF ReaderStep, ReaderGate, ReaderCheck, ReaderReads, ReaderClosed, ReaderSnapshot,
         ReaderPing, ReaderEnd, ReaderMark, ReaderTake, ReaderTell, ReaderTold, PongLock,
         PongDone, sharedVars, methodVars, historyVars
<1> QED
  BY <1>1, <1>2, <1>3, <1>4, <1>5, <1>6 DEF Next, MethodStep, Caller

\* The frame the reader takes off the wire is the next one for the first observer,
\* and it is told of it before the reader reads on.
LEMMA CaughtNext ==
  ASSUME TransportTypes, Hands, Listed, OnWire, Attaching, FirstKnown, Caught, Next
  PROVE  Caught'
<1>0. SUFFICES ASSUME ~is_closed', Among(observers, first)'
               PROVE  \E n \in 0 .. frames' : UpTo(first, n)'
  BY DEF Caught
<1>1. ~is_closed
  BY <1>0, StaysClosed
<1>2. frames \in Nat /\ wire \in Seq(Items) /\ item.n \in Nat
  BY TransportAssumption, ItemTypes DEF TransportTypes
<1>3. CASE RegisterObserver /\ first = None
  <2>1. PICK o \in Observers : o = method.observer
    BY <1>3 DEF RegisterObserver, TransportTypes
  <2>2. HeardTo(o, 0) /\ reader = "gate" /\ Numbered(wire, 0, frames)
    BY <1>1, <1>3, <2>1 DEF Attaching, RegisterObserver, OnWire
  <2>3. /\ first' = o /\ heard' = heard /\ reader' = "gate" /\ wire' = wire /\ frames' = frames
    BY <1>1, <1>3, <2>1, <2>2 DEF RegisterObserver, readerVars, peerVars
  <2>4. HeardTo(o, 0)'
    BY <2>2, <2>3, HeardSame
  <2> QED
    BY <1>2, <2>2, <2>3, <2>4 DEF UpTo
<1>f. SUFFICES ASSUME NEW f \in Observers, f = first, first' = f, Among(observers, f)
               PROVE  \E n \in 0 .. frames' : UpTo(f, n)'
  <2> SUFFICES ASSUME ~(RegisterObserver /\ first = None)
               PROVE  first \in Observers /\ first' = first /\ Among(observers, first)
    BY <1>0, <1>3
  <2>1. first' = first
    BY DEF Next, ReaderStep, MethodStep, Caller, Peer, ReaderGate, ReaderCheck, ReaderReads,
       ReaderClosed, ReaderSnapshot, ReaderPing, ReaderEnd, ReaderMark, ReaderTake, ReaderTell,
       ReaderTold, RegisterObserver, SendDone, CloseTake, CloseTell, CloseDone, AddObserver,
       RemoveObserver, Send, Close, DropTransport, PeerSends, PeerPings, PeerEnds, PongLock,
       PongDone, SendLock, CloseWriter, historyVars
  <2>2. first' # None
    <3>1. FirstKnown'
      BY FirstKnownNext
    <3>2. ASSUME observers' = <<>> PROVE FALSE
      BY <1>0, <3>2, EmptySeq DEF Among
    <3> QED
      BY <3>1, <3>2 DEF FirstKnown
  <2>3. first \in Observers
    BY <2>1, <2>2 DEF TransportTypes
  <2>4. Among(observers', first)
    BY <1>0, <2>1
  <2>5. \/ observers' = observers \/ observers' = <<>>
        \/ method.observer \in Observers /\ observers' = Append(observers, method.observer)
        \/ \E o \in Observers : RemoveObserver(o)
    BY DEF Next, ReaderStep, MethodStep, Caller, Peer, ReaderGate, ReaderCheck, ReaderReads,
       ReaderClosed, ReaderSnapshot, ReaderPing, ReaderEnd, ReaderMark, ReaderTake, ReaderTell,
       ReaderTold, RegisterObserver, SendDone, CloseTake, CloseTell, CloseDone, AddObserver,
       Send, Close, DropTransport, PeerSends, PeerPings, PeerEnds, PongLock,
       PongDone, SendLock, CloseWriter, sharedVars, TransportTypes
  <2>6. ASSUME method.observer \in Observers, observers' = Append(observers, method.observer)
        PROVE  Among(observers, first)
    <3>1. method.observer # first
      BY <2>1, <2>2 DEF FirstKnown
    <3> QED
      BY <2>3, <2>4, <2>6, <3>1, Added DEF TransportTypes
  <2>7. ASSUME NEW o \in Observers, RemoveObserver(o) PROVE Among(observers, first)
    BY <2>3, <2>4, <2>7, RemovedFrom DEF Listed
  <2> QED
    BY <2>1, <2>3, <2>4, <2>5, <2>6, <2>7, NobodyListed
<1>4. PICK n \in 0 .. frames : UpTo(f, n)
  BY <1>1, <1>f DEF Caught
<1>n. n \in Nat /\ n <= frames
  BY <1>2
\* Nothing changes for f.
<1>k. ASSUME heard'[f] = heard[f], wire' = wire, frames' = frames,
             (reader' = "got" /\ item'.n > 0) \/ (reader' = "deliver" /\ Among(batch', f)) <=>
             (reader = "got" /\ item.n > 0) \/ (reader = "deliver" /\ Among(batch, f)),
             (reader' = "got" /\ item'.n > 0) \/ reader' = "deliver" => item'.n = item.n
      PROVE  UpTo(f, n)'
  <2>1. HeardTo(f, n)'
    BY <1>4, <1>k, HeardSame DEF UpTo
  <2> QED
    BY <1>4, <1>k, <2>1 DEF UpTo
<1>w. ASSUME UpTo(f, n)', frames' = frames PROVE \E m \in 0 .. frames' : UpTo(f, m)'
  BY <1>w
<1>5. CASE RegisterObserver \/ Send \/ SendLock \/ SendDone \/ CloseWriter
           \/ \E o \in Observers : RemoveObserver(o)
  <2>1. heard' = heard /\ wire' = wire /\ frames' = frames /\ UNCHANGED readerVars
    BY <1>1, <1>5 DEF RegisterObserver, Send, SendLock, SendDone, CloseWriter, RemoveObserver, peerVars
  <2> QED
    BY <2>1, <1>k, <1>w DEF readerVars
<1>6. ASSUME NEW o \in Observers, AddObserver(o) PROVE \E m \in 0 .. frames' : UpTo(f, m)'
  <2>1. f # o
    BY <1>6, <1>f, TransportAssumption DEF AddObserver, FirstKnown
  <2>2. heard'[f] = heard[f]
    BY <1>6, <2>1 DEF AddObserver, Tell, TransportTypes
  <2> QED
    BY <1>6, <2>2, <1>k, <1>w DEF AddObserver, readerVars, peerVars
<1>7. CASE CloseTake \/ CloseTell \/ CloseDone \/ ReaderTake
  BY <1>7, <1>1 DEF CloseTake, CloseTell, CloseDone, ReaderTake, Hands
<1>8. CASE DropTransport \/ ReaderMark \/ \E away \in BOOLEAN : Close(away)
  BY <1>8, <1>0 DEF DropTransport, ReaderMark, Close
<1>9. CASE ReaderGate \/ ReaderCheck \/ ReaderPing \/ ReaderEnd \/ PongLock
  <2>1. /\ heard' = heard /\ wire' = wire /\ frames' = frames /\ item' = item
        /\ reader' \notin {"got", "deliver"} /\ reader # "deliver"
        /\ reader = "got" => item.n = 0
    BY <1>9, ItemKinds DEF ReaderGate, ReaderCheck, ReaderPing, ReaderEnd, PongLock, peerVars,
         IsEnd, Final, TransportTypes
  <2> QED
    BY <2>1, <1>k, <1>w
<1>10. CASE ReaderClosed
  BY <1>10, <1>1 DEF ReaderClosed
<1>11. ASSUME NEW ok \in BOOLEAN, PongDone(ok) PROVE \E m \in 0 .. frames' : UpTo(f, m)'
  <2>1. /\ reader \notin {"got", "deliver"} /\ reader' \notin {"got", "deliver"}
        /\ heard' = heard /\ wire' = wire /\ frames' = frames
    BY <1>11 DEF PongDone, peerVars
  <2> QED
    BY <2>1, <1>k, <1>w
<1>12. CASE ReaderSnapshot
  <2>1. /\ reader = "got" /\ item.n > 0 /\ item' = item /\ batch' = observers /\ reader' = "deliver"
        /\ heard' = heard /\ wire' = wire /\ frames' = frames
    BY <1>12 DEF ReaderSnapshot, IsMessage, peerVars
  <2> QED
    BY <2>1, <1>f, <1>k, <1>w
<1>13. CASE ReaderTold
  <2>1. /\ reader = "deliver" /\ batch = <<>> /\ reader' \in {"check", "ended"}
        /\ heard' = heard /\ wire' = wire /\ frames' = frames
    BY <1>13 DEF ReaderTold, peerVars
  <2> QED
    BY <2>1, NobodyListed, <1>k, <1>w
<1>14. CASE ReaderReads
  <2>1. PICK v, it : v = Tail(wire) /\ it = Head(wire)
    OBVIOUS
  <2>2. /\ reader = "read" /\ wire # <<>> /\ wire' = v /\ item' = it /\ frames' = frames
        /\ reader' = "got" /\ heard' = heard
    BY <1>14, <2>1 DEF ReaderReads
  <2>3. HeardTo(f, n) /\ Numbered(wire, n, frames)
    BY <1>4, <2>2 DEF UpTo
  <2>4. HeardTo(f, n)'
    BY <2>2, <2>3, HeardSame
  <2>5. \/ it.n = 0 /\ Numbered(v, n, frames)
        \/ it.n = n + 1 /\ n + 1 <= frames /\ Numbered(v, n + 1, frames)
    BY <1>2, <1>n, <2>1, <2>2, <2>3, WireShrinks
  <2>6. UpTo(f, n)'
    BY <1>n, <2>2, <2>4, <2>5 DEF UpTo
  <2> QED
    BY <2>2, <2>6, <1>w
<1>15. CASE ReaderTell
  <2>1. PICK h \in Observers : h = Head(batch)
    BY <1>15, NextOf DEF ReaderTell, TransportTypes
  <2>2. /\ reader = "deliver" /\ batch # <<>> /\ batch' = Tail(batch) /\ reader' = reader
        /\ item' = item /\ wire' = wire /\ frames' = frames
    BY <1>15 DEF ReaderTell, peerVars
  <2>3. /\ Among(batch, h) /\ ~Among(batch', h)
        /\ \A o \in Observers \ {h} : Among(batch', o) <=> Among(batch, o)
    BY <2>1, <2>2, NextOf DEF TransportTypes, Listed
  <2>4. CASE h # f
    <3>1. heard'[f] = heard[f]
      BY <1>15, <2>1, <2>4 DEF ReaderTell, Tell, TransportTypes
    <3> QED
      BY <2>2, <2>3, <2>4, <3>1, <1>k, <1>w
  <2>5. CASE h = f
    <3>1. HeardTo(f, n) /\ item.n = n + 1
      BY <1>4, <2>2, <2>3, <2>5 DEF UpTo
    <3>2. PICK e \in Events : e = Event("Message", n + 1)
      BY <3>1, ItemTypes, EventTypes DEF TransportTypes
    <3>3. Tell(f, e)
      BY <1>n, <1>15, <2>1, <2>5, <3>1, <3>2 DEF ReaderTell, IsMessage
    <3>4. /\ Len(heard'[f]) = Len(heard[f]) + 1
          /\ \A i \in 1 .. Len(heard[f]) : heard'[f][i] = heard[f][i]
          /\ heard'[f][Len(heard[f]) + 1] = e
      BY <3>3, Hears DEF TransportTypes
    <3>5. HeardTo(f, n + 1)'
      <4>1. /\ Len(heard[f]) = n + 1 /\ heard[f][1] = Event("Connected", 0)
            /\ \A k \in 1 .. n : heard[f][k + 1] = Event("Message", k)
        BY <3>1 DEF HeardTo
      <4>2. Len(heard'[f]) = n + 1 + 1 /\ heard'[f][1] = Event("Connected", 0)
        BY <1>n, <3>4, <4>1
      <4>3. ASSUME NEW k \in 1 .. n + 1 PROVE heard'[f][k + 1] = Event("Message", k)
        <5>1. CASE k = n + 1
          BY <3>2, <3>4, <4>1, <5>1
        <5>2. CASE k \in 1 .. n
          <6>1. k + 1 \in 1 .. Len(heard[f])
            BY <1>n, <4>1, <5>2
          <6> QED
            BY <3>4, <4>1, <5>2, <6>1
        <5> QED
          BY <1>n, <4>3, <5>1, <5>2
      <4> QED
        BY <4>2, <4>3 DEF HeardTo
    <3>6. n + 1 \in 0 .. frames /\ Numbered(wire, n + 1, frames)
      BY <1>1, <1>n, <3>1 DEF OnWire
    <3>7. UpTo(f, n + 1)'
      BY <2>2, <2>3, <2>5, <3>5, <3>6 DEF UpTo
    <3> QED
      BY <2>2, <3>6, <3>7
  <2> QED
    BY <2>4, <2>5
<1>16. CASE Peer
  <2>1. /\ heard' = heard /\ reader' = reader /\ item' = item /\ batch' = batch
        /\ frames' \in {frames, frames + 1}
    BY <1>16 DEF Peer, PeerSends, PeerPings, PeerEnds, readerVars
  <2>2. ASSUME Numbered(wire, n, frames) PROVE Numbered(wire', n, frames')
    <3>1. ASSUME NEW what \in {"frame", "pong", "empty"}, PeerSends(what)
          PROVE  Numbered(wire', n, frames')
      <4>1. PICK it \in Items : it = Item(what, frames + 1) /\ it.n = frames + 1
        BY <1>2, <3>1, ItemTypes, TransportAssumption DEF PeerSends
      <4>2. wire' = Append(wire, it) /\ frames' = frames + 1
        BY <3>1, <4>1 DEF PeerSends
      <4>3. Numbered(wire', n, frames + 1)
        BY <1>2, <1>n, <2>2, <4>1, <4>2, WireGrows
      <4> QED
        BY <4>2, <4>3
    <3>2. ASSUME NEW what \in Ends, PeerEnds(what) PROVE Numbered(wire', n, frames')
      <4>1. PICK it \in Items : it = Item(what, 0) /\ it.n = 0
        BY ItemTypes
      <4>2. wire' = Append(wire, it) /\ frames' = frames
        BY <3>2, <4>1 DEF PeerEnds
      <4> QED
        BY <1>2, <1>n, <2>2, <4>1, <4>2, WireGrows
    <3>3. CASE PeerPings
      <4>1. wire = <<>> /\ wire' = <<Item("ping", 0)>> /\ frames' = frames
        BY <3>3 DEF PeerPings
      <4>2. n = frames
        BY <1>2, <1>n, <2>2, <4>1 DEF Numbered
      <4> QED
        BY <1>2, <4>1, <4>2 DEF Numbered, Item
    <3> QED
      BY <1>16, <3>1, <3>2, <3>3 DEF Peer
  <2>3. HeardTo(f, n)'
    BY <1>4, <2>1, HeardSame DEF UpTo
  <2>4. UpTo(f, n)'
    BY <1>4, <2>1, <2>2, <2>3 DEF UpTo
  <2> QED
    BY <1>2, <1>n, <2>1, <2>4
<1> QED
  BY <1>5, <1>6, <1>7, <1>8, <1>9, <1>10, <1>11, <1>12, <1>13, <1>14, <1>15, <1>16
     DEF Next, ReaderStep, MethodStep, Caller

---------------------------------------------------------------------------
(* The theorems                                                             *)

\* What the observers are told: types, lists, and who was told of the end.
LEMMA QuietStart ==
  ASSUME Init
  PROVE  TransportTypes /\ Hands /\ Told
<1>1. TransportTypes
  <2>1. <<>> \in Seq(Observers) /\ <<>> \in Seq(Events) /\ <<>> \in Seq(Items) /\ 0 \in 0 .. MaxFrames
    BY TransportAssumption, EmptySeq
  <2>2. heard \in [Observers -> Seq(Events)]
    BY <2>1 DEF Init
  <2>3. method \in [step : Steps, observer : Observers \cup {None}] /\ method.step = "idle"
        /\ method.observer = None
    BY DEF Init, Idle, Steps
  <2> QED
    BY <2>1, <2>2, <2>3 DEF Init, TransportTypes, Places
<1>2. Hands
  BY ItemTypes DEF Init, Hands, Idle, EndBatch, IsMessage
<1>3. observers = <<>> /\ telling = <<>> /\ batch = <<>> /\ method.observer = None /\ asked = {}
      /\ \A o \in Observers : heard[o] = <<>> /\ Len(heard[o]) = 0 /\ o # None
  BY TransportAssumption, EmptySeq DEF Init, Idle
<1>4. Listed /\ Midway
  BY <1>3, NobodyListed DEF Listed, Midway
<1>5. Untold /\ \A o \in Observers : Quiet(o)
  BY <1>3, NobodyListed DEF Untold, Quiet, NoEnd
<1> QED
  BY <1>1, <1>2, <1>4, <1>5 DEF Told

\* Before the first observer.
LEMMA FirstStart ==
  ASSUME Init
  PROVE  OnWire /\ Attaching /\ FirstKnown /\ Caught
<1>1. wire = <<>> /\ frames = 0 /\ item.n = 0 /\ observers = <<>> /\ first = None
      /\ method.step = "idle" /\ reader = "gate" /\ ~gate
  BY ItemTypes DEF Init, Idle
<1>2. Numbered(wire, 0, frames)
  BY <1>1, EmptySeq DEF Numbered
<1>3. OnWire
  BY <1>1, <1>2 DEF OnWire
<1>4. Attaching /\ FirstKnown
  BY <1>1 DEF Attaching, FirstKnown
<1>5. ~Among(observers, first)
  BY <1>1, EmptySeq DEF Among
<1> QED
  BY <1>3, <1>4, <1>5 DEF Caught

FirstTold ==
  TransportTypes /\ Hands /\ Told /\ OnWire /\ Attaching /\ FirstKnown /\ Caught

\* Every step: the first observer misses nothing.
LEMMA FirstToldNext ==
  FirstTold /\ [Next]_vars => FirstTold'
<1> SUFFICES ASSUME FirstTold, [Next]_vars PROVE FirstTold'
  OBVIOUS
<1>1. CASE Next
  BY <1>1, TypesNext, HandsNext, ToldNext, OnWireNext, AttachingNext, FirstKnownNext, CaughtNext
     DEF FirstTold, Told
<1>2. CASE UNCHANGED vars
  <2> USE <1>2 DEF vars, sharedVars, readerVars, methodVars, peerVars, historyVars
  <2>1. TransportTypes' /\ Hands'
    BY DEF FirstTold, TransportTypes, Hands, EndBatch, IsMessage
  <2>2. Told'
    BY DEF FirstTold, Told, Listed, Untold, Midway, EndBatch, IsMessage, Quiet, NoEnd, JustClosed
  <2>3. OnWire' /\ Attaching' /\ FirstKnown' /\ Caught'
    BY DEF FirstTold, OnWire, Attaching, FirstKnown, Caught, UpTo, HeardTo
  <2> QED
    BY <2>1, <2>2, <2>3 DEF FirstTold
<1> QED
  BY <1>1, <1>2

\* The inductive invariant: every reachable state of a connection is one in
\* which the lists name nobody who was told of the end, and the first observer
\* is where the wire and the reader's hands say.
THEOREM TransportInvariance == Spec => []FirstInv
<1>1. Init => FirstTold
  BY QuietStart, FirstStart DEF FirstTold
<1>2. FirstTold => FirstInv
  BY QuietAll DEF FirstTold, Told, FirstInv, QuietInv, TransportTypes
<1> QED
  BY <1>1, <1>2, FirstToldNext, PTL DEF Spec

\* Type correctness of one connection: its reader, its method and the lock of
\* the writing half, which is held exactly by whoever is between its lock and
\* the end of its write.
THEOREM TransportTypeCorrect == Spec => []TypeOK
<1>1. FirstInv => TypeOK
  BY DEF FirstInv, QuietInv, TransportTypes, TypeOK, Steps, Places
<1> QED
  BY <1>1, TransportInvariance, PTL

\* However the end read by receiver_task, a local close and attach_observer
\* overlap, no observer is told of the end twice, and after it hears at most the
\* frame whose delivery had begun when this side closed.
THEOREM QuietAfterEndCorrect == Spec => []QuietAfterEnd
<1>1. FirstInv => QuietAfterEnd
  BY DEF FirstInv, QuietInv
<1> QED
  BY <1>1, TransportInvariance, PTL

\* The reader keeps everything for the first observer: what it has heard and what
\* is on the wire are together every frame sent, each once and in order.
THEOREM FirstHearsAllCorrect == Spec => []FirstHearsAll
<1>1. ASSUME FirstInv PROVE FirstHearsAll
  <2> SUFFICES ASSUME first \in Range(observers), ~is_closed, reader \in {"gate", "check", "read"}
               PROVE  \E n \in 0 .. frames :
                        /\ heard[first] = <<Event("Connected", 0)>> \o
                                            [k \in 1 .. n |-> Event("Message", k)]
                        /\ {wire[i].n : i \in DOMAIN wire} \ {0} = n + 1 .. frames
    BY DEF FirstHearsAll
  <2> USE DEF FirstInv, QuietInv
  <2>1. Among(observers, first) /\ first \in Observers
    BY <1>1, LenProperties, ElementOfSeq DEF Range, Among, TransportTypes
  <2>2. PICK n \in 0 .. frames : UpTo(first, n)
    BY <1>1, <2>1 DEF Caught
  <2>3. HeardTo(first, n) /\ Numbered(wire, n, frames)
    BY <2>2 DEF UpTo
  <2>4. n \in Nat /\ frames \in Nat /\ wire \in Seq(Items) /\ heard[first] \in Seq(Events)
    BY <1>1, <2>1, TransportAssumption DEF TransportTypes
  <2>5. {wire[i].n : i \in DOMAIN wire} \ {0} = n + 1 .. frames
    BY <2>3, <2>4, WireNumbers
  <2>6. heard[first] = <<Event("Connected", 0)>> \o [k \in 1 .. n |-> Event("Message", k)]
    <3>1. Event("Connected", 0) \in Events /\ \A k \in 1 .. n : Event("Message", k) \in Events
      BY <1>1, <2>4, EventTypes, TransportAssumption DEF TransportTypes
    <3>2. PICK s, t : s = <<Event("Connected", 0)>> /\ t = [k \in 1 .. n |-> Event("Message", k)]
      OBVIOUS
    <3>3. /\ s \in Seq(Events) /\ Len(s) = 1 /\ s[1] = Event("Connected", 0)
          /\ t \in Seq(Events) /\ Len(t) = n /\ \A k \in 1 .. n : t[k] = Event("Message", k)
      BY <2>4, <3>1, <3>2
    <3>4. /\ s \o t \in Seq(Events) /\ Len(s \o t) = n + 1 /\ (s \o t)[1] = s[1]
          /\ \A k \in 1 .. n : (s \o t)[k + 1] = t[k]
      <4>1. /\ s \o t \in Seq(Events) /\ Len(s \o t) = Len(s) + Len(t)
            /\ \A i \in 1 .. Len(s) + Len(t) : (s \o t)[i] =
                 IF i <= Len(s) THEN s[i] ELSE t[i - Len(s)]
        BY <3>3, ConcatProperties
      <4>2. Len(s) + Len(t) = n + 1
        BY <2>4, <3>3
      <4>3. ASSUME NEW k \in 1 .. n PROVE (s \o t)[k + 1] = t[k]
        <5>1. k + 1 \in 1 .. n + 1 /\ ~(k + 1 <= 1) /\ k + 1 - 1 = k
          BY <2>4
        <5>2. (s \o t)[k + 1] = t[k + 1 - 1]
          BY <3>3, <4>1, <4>2, <5>1
        <5> QED
          BY <5>1, <5>2
      <4> QED
        BY <2>4, <3>3, <4>1, <4>2, <4>3
    <3>5. Len(heard[first]) = n + 1 /\ \A i \in 1 .. n + 1 : heard[first][i] = (s \o t)[i]
      <4>1. /\ Len(heard[first]) = n + 1 /\ heard[first][1] = Event("Connected", 0)
            /\ \A k \in 1 .. n : heard[first][k + 1] = Event("Message", k)
        BY <2>3 DEF HeardTo
      <4>2. ASSUME NEW i \in 1 .. n + 1 PROVE heard[first][i] = (s \o t)[i]
        <5>1. CASE i = 1
          BY <2>4, <3>3, <3>4, <4>1, <5>1
        <5>2. CASE i > 1
          <6>1. i - 1 \in 1 .. n /\ i - 1 + 1 = i
            BY <2>4, <5>2
          <6>2. PICK k \in 1 .. n : i = k + 1
            BY <6>1
          <6>3. heard[first][k + 1] = Event("Message", k)
            BY <4>1
          <6>4. (s \o t)[k + 1] = Event("Message", k)
            BY <3>3, <3>4
          <6> QED
            BY <6>2, <6>3, <6>4
        <5>3. i = 1 \/ i > 1
          BY <2>4, <4>2
        <5> QED
          BY <5>1, <5>2, <5>3
      <4> QED
        BY <4>1, <4>2
    <3>6. heard[first] = s \o t
      BY <2>4, <3>4, <3>5, SeqEqual
    <3> QED
      BY <3>2, <3>6
  <2> QED
    BY <2>5, <2>6
<1> QED
  BY <1>1, TransportInvariance, PTL
=============================================================================
