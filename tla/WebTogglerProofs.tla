-------------------------- MODULE WebTogglerProofs --------------------------
(***************************************************************************)
(* Theorems about WebToggler: for any number of outputs, connections and   *)
(* segments in flight, any requests, and buttons pressed at any time.      *)
(***************************************************************************)
EXTENDS WebToggler, FiniteSetTheorems, TLAPS

-----------------------------------------------------------------------------
(* The buttons *)

\* The two counters of a button are the samples that the property counts
ButtonInv ==
    \A n \in Channel :
        /\ steady[n].low = IgnoreCount - ignore_count[n]
        /\ IF ignore_count[n] = 0 THEN steady[n].high = trigger_count[n]
                                  ELSE trigger_count[n] = 0

ButtonTypes ==
    /\ pin \in [Channel -> BOOLEAN]
    /\ trigger_count \in [Channel -> 0 .. DebounceCount]
    /\ ignore_count \in [Channel -> 0 .. IgnoreCount]
    /\ steady \in [Channel -> [high : 0 .. DebounceCount, low : 0 .. IgnoreCount]]

\* Outputs are on or off
LEMMA PinsKept ==
    ASSUME pin \in [Channel -> BOOLEAN], [Next]_vars
    PROVE  pin' \in [Channel -> BOOLEAN]
<1>1. CASE CheckButtons
  <2>1. PICK S : pin' = [n \in Channel |-> pin[n] # (n \in S)]
    BY <1>1 DEF CheckButtons
  <2> QED
    BY <2>1
<1>2. ASSUME NEW n, NEW level \in BOOLEAN, Write(n, level) PROVE pin' \in [Channel -> BOOLEAN]
  BY <1>2 DEF Write
<1>3. CASE Toggle
  BY <1>2, <1>3 DEF Toggle
<1>4. CASE HandleSet
  <2>1. pin' = pin \/ Write(request.num, body = "on")
    BY <1>4 DEF HandleSet
  <2> QED
    BY <1>2, <2>1
<1>5. CASE Next /\ ~(CheckButtons \/ Toggle \/ HandleSet)
  BY <1>5 DEF Next, Loop, Receive, HandleIndex, SendIndex, HandleGet, HandleToggle,
     Redirect, HandleNotFound, Open, ClientSends, ClientReceives, Lose, Undefined, vars
<1> QED
  BY <1>1, <1>3, <1>4, <1>5 DEF vars

LEMMA ButtonsInit == Init => ButtonTypes /\ ButtonInv
BY WebAssumption DEF Init, ButtonTypes, ButtonInv

LEMMA ButtonsKept ==
    ASSUME ButtonTypes, ButtonInv, [Next]_vars
    PROVE  ButtonTypes' /\ ButtonInv'
<1>0. pin' \in [Channel -> BOOLEAN]
  BY PinsKept DEF ButtonTypes
<1>1. CASE UNCHANGED buttonVars
  BY <1>0, <1>1 DEF buttonVars, ButtonTypes, ButtonInv
<1>2. CASE CheckButtons
  <2> DEFINE live == {n \in Channel : ignore_count[n] = 0}
  <2>1. PICK pressed \in SUBSET Channel :
      LET toggled == {n \in pressed \cap live : Debounced(n)}
      IN  /\ trigger_count' = [n \in Channel |->
                  IF n \notin live THEN trigger_count[n]
                  ELSE IF n \in pressed \ toggled THEN trigger_count[n] + 1 ELSE 0]
          /\ ignore_count' = [n \in Channel |->
                  IF n \in toggled THEN IgnoreCount
                  ELSE IF n \in pressed THEN ignore_count[n]
                  ELSE Countdown(ignore_count[n])]
          /\ steady' = [n \in Channel |->
                  IF n \in toggled THEN [high |-> 0, low |-> 0]
                  ELSE IF n \in pressed
                    THEN [steady[n] EXCEPT !.high = IF @ = DebounceCount THEN @ ELSE @ + 1]
                  ELSE [high |-> 0,
                        low |-> IF steady[n].low = IgnoreCount THEN IgnoreCount
                                ELSE steady[n].low + 1]]
    BY <1>2 DEF CheckButtons
  <2> DEFINE toggled == {n \in pressed \cap live : Debounced(n)}
  <2>2. ASSUME NEW n \in Channel
        PROVE  /\ trigger_count'[n] \in 0 .. DebounceCount
               /\ ignore_count'[n] \in 0 .. IgnoreCount
               /\ steady'[n] \in [high : 0 .. DebounceCount, low : 0 .. IgnoreCount]
               /\ steady'[n].low = IgnoreCount - ignore_count'[n]
               /\ IF ignore_count'[n] = 0 THEN steady'[n].high = trigger_count'[n]
                                          ELSE trigger_count'[n] = 0
    <3>1. /\ DebounceCount \in Nat /\ IgnoreCount \in Nat
          /\ trigger_count[n] \in 0 .. DebounceCount /\ ignore_count[n] \in 0 .. IgnoreCount
          /\ steady[n] \in [high : 0 .. DebounceCount, low : 0 .. IgnoreCount]
          /\ steady[n].low = IgnoreCount - ignore_count[n]
          /\ IF ignore_count[n] = 0 THEN steady[n].high = trigger_count[n]
                                    ELSE trigger_count[n] = 0
      BY WebAssumption DEF ButtonTypes, ButtonInv
    <3>2. CASE n \in toggled
      <4>1. trigger_count'[n] = 0 /\ ignore_count'[n] = IgnoreCount
            /\ steady'[n] = [high |-> 0, low |-> 0]
        BY <2>1, <3>2
      <4>2. steady'[n].high = 0 /\ steady'[n].low = 0
        BY <4>1
      <4>3. 0 \in 0 .. DebounceCount /\ 0 \in 0 .. IgnoreCount /\ IgnoreCount \in 0 .. IgnoreCount
            /\ IgnoreCount - IgnoreCount = 0
        BY <3>1
      <4>4. steady'[n] \in [high : 0 .. DebounceCount, low : 0 .. IgnoreCount]
        BY <4>1, <4>3
      <4> QED
        BY <4>1, <4>2, <4>3, <4>4
    <3>3. CASE n \in pressed \ toggled
      <4>1. n \in live => trigger_count[n] # DebounceCount
        BY <3>3 DEF Debounced
      <4>2. /\ trigger_count'[n] = IF n \in live THEN trigger_count[n] + 1 ELSE trigger_count[n]
            /\ ignore_count'[n] = ignore_count[n]
            /\ steady'[n] = [steady[n] EXCEPT !.high = IF @ = DebounceCount THEN @ ELSE @ + 1]
        BY <2>1, <3>3
      <4>3. /\ steady'[n].low = steady[n].low
            /\ steady'[n].high = IF steady[n].high = DebounceCount THEN DebounceCount
                                                                  ELSE steady[n].high + 1
        BY <3>1, <4>2
      <4>4. /\ steady[n].high \in 0 .. DebounceCount
            /\ (IF steady[n].high = DebounceCount THEN DebounceCount ELSE steady[n].high + 1)
                  \in 0 .. DebounceCount
        BY <3>1
      <4>5. steady'[n] \in [high : 0 .. DebounceCount, low : 0 .. IgnoreCount]
        BY <3>1, <4>2, <4>4
      <4>6. trigger_count'[n] \in 0 .. DebounceCount
        BY <3>1, <4>1, <4>2
      <4> QED
        BY <3>1, <4>1, <4>2, <4>3, <4>5, <4>6
    <3>4. CASE n \notin pressed
      <4>1. /\ trigger_count'[n] = IF n \in live THEN 0 ELSE trigger_count[n]
            /\ ignore_count'[n] = Countdown(ignore_count[n])
            /\ steady'[n] = [high |-> 0, low |-> IF steady[n].low = IgnoreCount THEN IgnoreCount
                                                 ELSE steady[n].low + 1]
        BY <2>1, <3>4
      <4>2. /\ Countdown(ignore_count[n]) \in 0 .. IgnoreCount
            /\ (IF steady[n].low = IgnoreCount THEN IgnoreCount ELSE steady[n].low + 1)
                  = IgnoreCount - Countdown(ignore_count[n])
            /\ IgnoreCount - Countdown(ignore_count[n]) \in 0 .. IgnoreCount
        BY <3>1 DEF Countdown
      <4>3. steady'[n] = [high |-> 0, low |-> IgnoreCount - Countdown(ignore_count[n])]
        BY <4>1, <4>2
      <4>4. /\ steady'[n].high = 0 /\ steady'[n].low = IgnoreCount - ignore_count'[n]
            /\ 0 \in 0 .. DebounceCount
        BY <3>1, <4>1, <4>3
      <4>5. steady'[n] \in [high : 0 .. DebounceCount, low : 0 .. IgnoreCount]
        BY <4>2, <4>3, <4>4
      <4>6. trigger_count'[n] = 0
        BY <3>1, <4>1
      <4> QED
        BY <4>1, <4>2, <4>4, <4>5, <4>6
    <3> QED
      BY <3>2, <3>3, <3>4
  <2>3. ButtonTypes'
    BY <1>0, <2>1, <2>2 DEF ButtonTypes
  <2> QED
    BY <2>2, <2>3 DEF ButtonInv
<1>3. Next => CheckButtons \/ UNCHANGED buttonVars
  BY DEF Next, Loop, Receive, HandleIndex, SendIndex, HandleGet, HandleToggle, Toggle, HandleSet,
     Redirect, HandleNotFound, Open, ClientSends, ClientReceives, Lose, Undefined, vars
<1> QED
  BY <1>1, <1>2, <1>3 DEF vars

\* Contacts that bounce, and buttons that are held down, do not toggle: checkButtons() keeps its
\* count in two bytes per button (WebToggler.ino:121).
THEOREM Debounce == Spec => TogglesAreDebounced
<1>1. ASSUME ButtonTypes, ButtonInv, [Next]_vars
      PROVE  [\A n \in Channel : (pin'[n] # pin[n] /\ pc' = pc)
                => steady[n].high = DebounceCount /\ steady[n].low = IgnoreCount]_vars
  <2>1. CASE CheckButtons
    <3>1. PICK pressed \in SUBSET Channel :
            pin' = [n \in Channel |->
              pin[n] # (n \in {k \in pressed \cap {j \in Channel : ignore_count[j] = 0} :
                                  Debounced(k)})]
      BY <2>1 DEF CheckButtons
    <3>2. ASSUME NEW n \in Channel, pin'[n] # pin[n]
          PROVE  ignore_count[n] = 0 /\ Debounced(n)
      <4> DEFINE S == {k \in pressed \cap {j \in Channel : ignore_count[j] = 0} : Debounced(k)}
      <4>1. pin'[n] = (pin[n] # (n \in S)) /\ pin[n] \in BOOLEAN
        BY <1>1, <3>1 DEF ButtonTypes
      <4>2. n \in S
        BY <3>2, <4>1
      <4> QED
        BY <4>2
    <3>3. ASSUME NEW n \in Channel, ignore_count[n] = 0, Debounced(n)
          PROVE  steady[n].high = DebounceCount /\ steady[n].low = IgnoreCount
      BY <1>1, <3>3, WebAssumption DEF ButtonInv, Debounced
    <3> QED
      BY <3>2, <3>3
  <2>2. CASE Next /\ ~CheckButtons
    <3>1. pc' # pc \/ pin' = pin
      BY <2>2 DEF Next, Loop, Receive, HandleIndex, SendIndex, HandleGet, HandleToggle, Toggle,
         HandleSet, Redirect, HandleNotFound, Open, ClientSends, ClientReceives, Lose,
         Undefined, vars
    <3> QED
      BY <3>1
  <2> QED
    BY <1>1, <2>1, <2>2
<1>2. Init => ButtonTypes /\ ButtonInv
  BY ButtonsInit
<1>3. ButtonTypes /\ ButtonInv /\ [Next]_vars => ButtonTypes' /\ ButtonInv'
  BY ButtonsKept
<1> QED
  BY <1>1, <1>2, <1>3, PTL DEF Spec, TogglesAreDebounced

-----------------------------------------------------------------------------
(* The sketch, the network and the clients *)

AnswerType == [status : {"none", "200", "302", "404"}, shown : SUBSET (Channel \X BOOLEAN)]

ClientType ==
    [st : {"CLOSED", "SYN_SENT", "ESTABLISHED", "CLOSE_WAIT", "DONE", "RESET"},
     request : Request, whole : BOOLEAN, una : 0 .. 4, rcv : Sequence, answer : AnswerType]

Types ==
    /\ pin \in [Channel -> BOOLEAN]
    /\ levels \in [Connections -> [Channel -> SUBSET BOOLEAN]]
    /\ client \in [Connections -> ClientType]
    /\ pc \in {"loop", "handle", "index", "toggle", "reply", "overrun"}
    /\ page \subseteq Channel \X BOOLEAN /\ IsFiniteSet(page)
    /\ IsFiniteSet(net) /\ Cardinality(net) <= Capacity

Begun(c) == c \in Connections /\ client[c].st # "CLOSED"

\* What a client sends of its request, which is in one segment or in two
IsPart(c, part) ==
    \/ part = "none"
    \/ part = "all" /\ client[c].whole
    \/ part \in {"headers", "body"} /\ ~client[c].whole

SegmentOK(m) ==
    /\ Begun(m.conn) /\ m.seq \in Sequence /\ m.ack \in Sequence
    /\ m.to = "server" => IsPart(m.conn, m.part)
    /\ m.to = "client" =>
         /\ m.answer \in AnswerType
         /\ m.answer # NoAnswer => Answers(m.conn, m.answer)
         /\ "RST" \in m.flags => m.seq = 0

NetOK == \A m \in net : SegmentOK(m)

\* Since a client asked, each output has had the level it has
LevelsOK == \A c \in Connections : Begun(c) => \A n \in Channel : pin[n] \in levels[c][n]

ClientsOK ==
    \A c \in Connections :
        /\ client[c].st \in {"CLOSED", "SYN_SENT", "RESET"} => client[c].rcv = 0
        /\ client[c].whole \/ client[c].request.body # "none"
        /\ client[c].answer # NoAnswer => Begun(c) /\ Answers(c, client[c].answer)

\* The levels that have been read for an answer are levels since the client asked
PageOK == \A x \in page : Had(segment.conn, x[1], x[2])

LoopOK ==
    pc # "loop" =>
        /\ segment.to = "server" /\ segment.part # "none" /\ SegmentOK(segment)
        /\ pc = "handle" => page = {}
        /\ pc = "index" =>
             /\ Is("GET", "/") /\ PageOK /\ Cardinality(page) <= CHANNEL_COUNT
             /\ {x[1] : x \in page} = 0 .. Cardinality(page) - 1
        /\ pc = "toggle" =>
             /\ Is("POST", "/outputs/?") /\ IsChannel /\ body = "none" /\ PageOK
             /\ \E level \in BOOLEAN : page = {<<request.num, level>>}
        /\ pc = "reply" => Answers(segment.conn, Answer("302", {}))

SessionInv == Types /\ NetOK /\ LevelsOK /\ ClientsOK /\ LoopOK

-----------------------------------------------------------------------------
(* What stays true *)

\* Nothing is taken back from a client that has begun
Grows ==
    \A c \in Connections :
        Begun(c) => /\ Begun(c)'
                    /\ client'[c].request = client[c].request
                    /\ client'[c].whole = client[c].whole
                    /\ \A n \in Channel : \A level : Had(c, n, level) => Had(c, n, level)'

LEMMA AnswersKept ==
    ASSUME Types, Grows, NEW c \in Connections, Begun(c), NEW a, Answers(c, a)
    PROVE  Answers(c, a)'
<1>1. /\ client'[c].request = client[c].request /\ client'[c].whole = client[c].whole
      /\ \A n \in Channel : \A level : Had(c, n, level) => Had(c, n, level)'
  BY DEF Grows
<1>2. client[c].request.num \in 0 .. CHANNEL_COUNT /\ CHANNEL_COUNT \in Nat
  BY WebAssumption DEF Types, ClientType, Request
<1>3. client[c].request.num < CHANNEL_COUNT => client[c].request.num \in Channel
  BY <1>2 DEF Channel
<1>4. CASE a.status = "404"
  BY <1>1, <1>4 DEF Answers
<1>5. CASE a.status = "200"
  <2>1. \A x \in a.shown : x[1] \in Channel
    BY <1>3, <1>5 DEF Answers
  <2> QED
    BY <1>1, <1>5, <2>1 DEF Answers
<1>6. CASE a.status = "302"
  BY <1>1, <1>3, <1>6 DEF Answers
<1> QED
  BY <1>4, <1>5, <1>6 DEF Answers

LEMMA SegmentKept ==
    ASSUME Types, Grows, NEW m, SegmentOK(m)
    PROVE  SegmentOK(m)'
<1>1. Begun(m.conn) /\ m.conn \in Connections
  BY DEF SegmentOK, Begun
<1>2. Begun(m.conn)' /\ client'[m.conn].whole = client[m.conn].whole
  BY <1>1 DEF Grows
<1>3. IsPart(m.conn, m.part) => IsPart(m.conn, m.part)'
  BY <1>2 DEF IsPart
<1>4. Answers(m.conn, m.answer) => Answers(m.conn, m.answer)'
  BY <1>1, AnswersKept
<1> QED
  BY <1>2, <1>3, <1>4 DEF SegmentOK, Sequence

\* The network holds what it held and what has been put into it
LEMMA CarryFacts ==
    ASSUME NEW inFlight, NEW new, IsFiniteSet(inFlight), IsFiniteSet(new),
           Cardinality(inFlight) <= Capacity
    PROVE  /\ IsFiniteSet(Carry(inFlight, new)) /\ Cardinality(Carry(inFlight, new)) <= Capacity
           /\ Carry(inFlight, new) \subseteq inFlight \cup new
BY FS_Union DEF Carry

LEMMA TakenFacts ==
    ASSUME IsFiniteSet(net), Cardinality(net) <= Capacity, NEW m, NEW rest \in Taken(m)
    PROVE  IsFiniteSet(rest) /\ Cardinality(rest) <= Capacity /\ rest \subseteq net
<1>1. rest \subseteq net
  BY DEF Taken
<1>2. IsFiniteSet(rest) /\ Cardinality(rest) <= Cardinality(net)
  BY <1>1, FS_Subset
<1>3. Cardinality(net) \in Nat /\ Cardinality(rest) \in Nat /\ Capacity \in Nat
  BY <1>2, FS_CardinalityType, WebAssumption
<1> QED
  BY <1>1, <1>2, <1>3

LEMMA NetKept ==
    ASSUME Types, Grows, NetOK, NEW new, net' \subseteq net \cup new, \A m \in new : SegmentOK(m)'
    PROVE  NetOK'
BY SegmentKept DEF NetOK

\* A step of the network, the buttons or a client leaves the loop where it is
LEMMA LoopKept ==
    ASSUME Types, Grows, LoopOK, UNCHANGED loopVars
    PROVE  LoopOK'
<1> SUFFICES ASSUME pc # "loop" PROVE LoopOK'
  BY DEF LoopOK, loopVars
<1>1. pc' = pc /\ segment' = segment /\ page' = page
  BY DEF loopVars
<1>2. SegmentOK(segment) /\ segment.conn \in Connections /\ Begun(segment.conn)
  BY DEF LoopOK, SegmentOK, Begun
<1>3. SegmentOK(segment)'
  <2>1. PICK m : m = segment
    OBVIOUS
  <2>2. SegmentOK(m)'
    BY <1>2, <2>1, SegmentKept
  <2> QED
    BY <1>1, <2>1, <2>2 DEF SegmentOK, IsPart, Begun, Answers, Had
<1>4. request' = request
  BY <1>1, <1>2 DEF Grows, request
<1>5. PageOK => PageOK'
  <2>1. \A x \in page : x[1] \in Channel
    BY DEF Types
  <2> QED
    BY <1>1, <1>2, <2>1 DEF Grows, PageOK, Had
<1>6. Answers(segment.conn, Answer("302", {})) => Answers(segment.conn, Answer("302", {}))'
  <2>1. PICK c, a : c = segment.conn /\ a = Answer("302", {})
    OBVIOUS
  <2>2. Answers(c, a) => Answers(c, a)'
    BY <1>2, <2>1, AnswersKept
  <2>3. Answer("302", {})' = Answer("302", {})
    BY DEF Answer
  <2> QED
    BY <1>1, <2>1, <2>2, <2>3 DEF Answers, Had
<1>7. /\ Is("GET", "/") => Is("GET", "/")'
      /\ Is("POST", "/outputs/?") => Is("POST", "/outputs/?")'
      /\ (IsChannel => IsChannel') /\ (body = "none" => body' = "none")
  BY <1>1, <1>4 DEF Is, IsChannel, body
<1> QED
  BY <1>1, <1>3, <1>4, <1>5, <1>6, <1>7 DEF LoopOK

-----------------------------------------------------------------------------
(* Steps of the buttons, the network and the clients *)

LEMMA ButtonsStep ==
    ASSUME SessionInv, CheckButtons
    PROVE  SessionInv'
<1>1. /\ UNCHANGED <<loopVars, net, client>>
      /\ levels' = [c \in Connections |-> [n \in Channel |-> levels[c][n] \cup {pin'[n]}]]
  BY DEF CheckButtons
<1>2. pin' \in [Channel -> BOOLEAN]
  BY PinsKept DEF SessionInv, Types, Next
<1>3. levels' \in [Connections -> [Channel -> SUBSET BOOLEAN]]
  <2>1. ASSUME NEW c \in Connections, NEW n \in Channel
        PROVE  levels[c][n] \cup {pin'[n]} \in SUBSET BOOLEAN
    BY <1>2 DEF SessionInv, Types
  <2> QED
    BY <1>1, <2>1
<1>4. Types'
  BY <1>1, <1>2, <1>3 DEF SessionInv, Types, loopVars, ClientType, Sequence
<1>5. Grows
  BY <1>1 DEF Grows, Begun, Had
<1>6. LevelsOK'
  BY <1>1 DEF LevelsOK, Begun
<1>7. NetOK'
  <2>1. PICK new : new = {}
    OBVIOUS
  <2>2. net' \subseteq net \cup new /\ \A m \in new : SegmentOK(m)'
    BY <1>1, <2>1
  <2> QED
    BY <1>5, <2>2, NetKept DEF SessionInv
<1>8. ClientsOK'
  BY <1>1, <1>5, AnswersKept DEF SessionInv, ClientsOK, Begun
<1>9. LoopOK'
  BY <1>1, <1>5, LoopKept DEF SessionInv
<1> QED
  BY <1>4, <1>6, <1>7, <1>8, <1>9 DEF SessionInv

\* Nothing but the network changes
LEMMA NetStep ==
    ASSUME SessionInv, UNCHANGED <<pin, loopVars, client, levels>>, NEW new,
           net' \subseteq net \cup new, \A m \in new : SegmentOK(m),
           IsFiniteSet(net'), Cardinality(net') <= Capacity
    PROVE  SessionInv'
<1>1. Grows
  BY DEF Grows, Begun, Had
<1>2. Types'
  BY DEF SessionInv, Types, loopVars
<1>3. \A m \in new : SegmentOK(m)'
  BY <1>1, SegmentKept DEF SessionInv
<1>4. NetOK'
  BY <1>1, <1>3, NetKept DEF SessionInv
<1>5. LevelsOK'
  BY DEF SessionInv, LevelsOK, Begun
<1>6. ClientsOK'
  BY <1>1, AnswersKept DEF SessionInv, ClientsOK, Begun
<1>7. LoopOK'
  BY <1>1, LoopKept DEF SessionInv
<1> QED
  BY <1>2, <1>4, <1>5, <1>6, <1>7 DEF SessionInv

LEMMA LoseStep ==
    ASSUME SessionInv, Lose
    PROVE  SessionInv'
<1>1. PICK m \in net : net' = net \ {m}
  BY DEF Lose
<1>2. net' \in Taken(m) /\ net' \subseteq net \cup {}
  BY <1>1 DEF Taken
<1>3. IsFiniteSet(net') /\ Cardinality(net') <= Capacity
  BY <1>2, TakenFacts DEF SessionInv, Types
<1>4. PICK new : new = {}
  OBVIOUS
<1>5. /\ UNCHANGED <<pin, loopVars, client, levels>> /\ \A r \in new : SegmentOK(r)
      /\ net' \subseteq net \cup new
  BY <1>2, <1>4 DEF Lose
<1> QED
  BY <1>3, <1>5, NetStep

\* The numbers of a client
LEMMA ClientNumbers ==
    ASSUME NEW cl \in ClientType
    PROVE  /\ Length(cl.request, "all") \in 1 .. 2 /\ FinSeq(cl) \in 2 .. 3
           /\ cl.una \in Sequence /\ cl.rcv \in Sequence /\ 0 .. 4 \subseteq Sequence
<1>1. Length(cl.request, "all") \in {1, 2}
  BY DEF Length
<1> QED
  BY <1>1, WebAssumption DEF FinSeq, ClientType, Sequence

LEMMA SendsStep ==
    ASSUME SessionInv, ClientSends
    PROVE  SessionInv'
<1>1. PICK c \in Connections : \E m \in Outstanding(c, client[c]) : net' = Carry(net, {m})
  BY DEF ClientSends
<1>2. PICK m \in Outstanding(c, client[c]) : net' = Carry(net, {m})
  BY <1>1
<1>3. client[c] \in ClientType
  BY DEF SessionInv, Types
<1>4. /\ m.conn = c /\ m.to = "server" /\ m.seq \in Sequence /\ m.ack \in Sequence
      /\ client[c].st # "CLOSED"
      /\ m.part \in IF client[c].whole THEN {"none", "all"} ELSE {"none", "headers", "body"}
  BY <1>3, ClientNumbers DEF Outstanding, ToServer
<1>5. SegmentOK(m)
  BY <1>4 DEF SegmentOK, Begun, IsPart
<1>6. IsFiniteSet({m})
  BY FS_Singleton
<1>7. /\ IsFiniteSet(net') /\ Cardinality(net') <= Capacity /\ net' \subseteq net \cup {m}
  BY <1>2, <1>6, CarryFacts DEF SessionInv, Types
<1>8. PICK new : new = {m}
  OBVIOUS
<1>9. /\ UNCHANGED <<pin, loopVars, client, levels>> /\ \A r \in new : SegmentOK(r)
      /\ net' \subseteq net \cup new
  BY <1>5, <1>7, <1>8 DEF ClientSends
<1> QED
  BY <1>7, <1>9, NetStep

LEMMA OpenStep ==
    ASSUME SessionInv, Open
    PROVE  SessionInv'
<1>1. PICK c \in Connections, r \in Requests, whole \in BOOLEAN :
        /\ client[c].st = "CLOSED"
        /\ ~whole => r.body # "none"
        /\ client' = [client EXCEPT ![c] = [@ EXCEPT !.st = "SYN_SENT",
                                                     !.request = r, !.whole = whole]]
        /\ levels' = [levels EXCEPT ![c] = [n \in Channel |-> {pin[n]}]]
        /\ UNCHANGED <<pin, buttonVars, loopVars, net>>
  BY DEF Open
<1>2. client[c] \in ClientType /\ r \in Request
  BY WebAssumption DEF SessionInv, Types
<1>3. /\ client'[c] = [client[c] EXCEPT !.st = "SYN_SENT", !.request = r, !.whole = whole]
      /\ levels'[c] = [n \in Channel |-> {pin[n]}]
      /\ \A d \in Connections \ {c} : client'[d] = client[d] /\ levels'[d] = levels[d]
  BY <1>1 DEF SessionInv, Types
<1>4. client'[c] \in ClientType
  BY <1>2, <1>3 DEF ClientType
<1>5. client' \in [Connections -> ClientType]
  BY <1>1, <1>4 DEF SessionInv, Types
<1>6. levels' \in [Connections -> [Channel -> SUBSET BOOLEAN]]
  <2>1. [n \in Channel |-> {pin[n]}] \in [Channel -> SUBSET BOOLEAN]
    BY DEF SessionInv, Types
  <2> QED
    BY <1>1, <2>1 DEF SessionInv, Types
<1>7. Types'
  BY <1>1, <1>5, <1>6 DEF SessionInv, Types, loopVars, ClientType, Sequence
<1>8. Grows
  BY <1>1, <1>3 DEF Grows, Begun, Had
<1>9. NetOK'
  <2>1. PICK new : new = {}
    OBVIOUS
  <2>2. net' \subseteq net \cup new /\ \A m \in new : SegmentOK(m)'
    BY <1>1, <2>1
  <2> QED
    BY <1>8, <2>2, NetKept DEF SessionInv
<1>10. LevelsOK'
  BY <1>1, <1>3 DEF SessionInv, LevelsOK, Begun
<1>11. ClientsOK'
  <2>1. /\ client'[c].rcv = 0 /\ client'[c].answer = NoAnswer
        /\ client'[c].whole \/ client'[c].request.body # "none"
    <3>1. client[c].rcv = 0 /\ client[c].answer = NoAnswer
      BY <1>1 DEF SessionInv, ClientsOK, Begun
    <3>2. /\ client'[c].rcv = client[c].rcv /\ client'[c].answer = client[c].answer
          /\ client'[c].whole = whole /\ client'[c].request = r
      BY <1>2, <1>3 DEF ClientType
    <3>3. whole \/ r.body # "none"
      BY <1>1
    <3> QED
      BY <3>1, <3>2, <3>3
  <2>2. ASSUME NEW d \in Connections \ {c}
        PROVE  /\ client'[d].st \in {"CLOSED", "SYN_SENT", "RESET"} => client'[d].rcv = 0
               /\ client'[d].whole \/ client'[d].request.body # "none"
               /\ client'[d].answer # NoAnswer => Begun(d)' /\ Answers(d, client[d].answer)'
    <3>1. client'[d] = client[d] /\ d \in Connections
      BY <1>3
    <3>2. PICK a : a = client[d].answer
      OBVIOUS
    <3>3. a # NoAnswer => Begun(d) /\ Answers(d, a)
      BY <3>2 DEF SessionInv, ClientsOK
    <3>4. a # NoAnswer => Begun(d)' /\ Answers(d, a)'
      BY <1>8, <3>1, <3>3, AnswersKept DEF SessionInv, Grows
    <3>5. client'[d].answer # NoAnswer => Begun(d)' /\ Answers(d, client[d].answer)'
      BY <3>1, <3>2, <3>4 DEF Answers, Had
    <3>6. /\ client[d].st \in {"CLOSED", "SYN_SENT", "RESET"} => client[d].rcv = 0
          /\ client[d].whole \/ client[d].request.body # "none"
      BY DEF SessionInv, ClientsOK
    <3>7. client'[d].st \in {"CLOSED", "SYN_SENT", "RESET"} => client'[d].rcv = 0
      BY <3>1, <3>6
    <3>8. client'[d].whole \/ client'[d].request.body # "none"
      BY <3>1, <3>6
    <3> QED
      BY <3>1, <3>5, <3>7, <3>8
  <2>3. NoAnswer' = NoAnswer
    BY DEF NoAnswer
  <2> QED
    BY <2>1, <2>2, <2>3 DEF ClientsOK
<1>12. LoopOK'
  BY <1>1, <1>8, LoopKept DEF SessionInv
<1> QED
  BY <1>7, <1>9, <1>10, <1>11, <1>12 DEF SessionInv

\* What a client may make of a segment with the answer a
Proper(c, cl, a, r) ==
    /\ r.cl \in ClientType
    /\ r.cl.request = cl.request /\ r.cl.whole = cl.whole
    /\ r.cl.st # "CLOSED" /\ (r.cl.st \in {"SYN_SENT", "RESET"} => r.cl.rcv = 0)
    /\ r.cl.answer \in {cl.answer, a}
    /\ IsFiniteSet(r.sends)
    /\ \A s \in r.sends : /\ s.conn = c /\ s.to = "server" /\ s.part = "none"
                          /\ s.seq \in Sequence /\ s.ack \in Sequence

LEMMA ReceivedProper ==
    ASSUME NEW c, NEW cl \in ClientType, NEW m, m.seq \in Sequence, m.ack \in Sequence,
           m.answer \in AnswerType, "RST" \in m.flags => m.seq = 0,
           cl.st # "CLOSED", cl.st \in {"SYN_SENT", "RESET"} => cl.rcv = 0
    PROVE  Proper(c, cl, m.answer, Received(c, cl, m))
<1>1. IsFiniteSet({}) /\ \A x : IsFiniteSet({x})
  BY FS_EmptySet, FS_Singleton
<1>2. Proper(c, cl, m.answer, Result(cl, {}))
  BY <1>1 DEF Proper, Result
<1>3. ASSUME NEW d \in ClientType, d.request = cl.request, d.whole = cl.whole, d.st # "CLOSED",
             d.st \in {"SYN_SENT", "RESET"} => d.rcv = 0, d.answer \in {cl.answer, m.answer}
      PROVE  /\ Proper(c, cl, m.answer, Result(d, {}))
             /\ Proper(c, cl, m.answer, Result(d, {BareAck(c, d)}))
  <2>1. PICK ack : ack = BareAck(c, d)
    OBVIOUS
  <2>2. /\ ack.conn = c /\ ack.to = "server" /\ ack.part = "none"
        /\ ack.seq = d.una /\ ack.ack = d.rcv
    BY <2>1 DEF BareAck, ToServer
  <2>3. ack.seq \in Sequence /\ ack.ack \in Sequence
    BY <1>3, <2>2, ClientNumbers
  <2>4. Proper(c, cl, m.answer, Result(d, {}))
    BY <1>1, <1>3 DEF Proper, Result
  <2>5. Proper(c, cl, m.answer, Result(d, {ack}))
    BY <1>1, <1>3, <2>2, <2>3 DEF Proper, Result
  <2> QED
    BY <2>1, <2>4, <2>5
<1>4. \A k \in Int : Plus(m.seq, k) \in Sequence /\ Plus(cl.rcv, k) \in Sequence
  BY WebAssumption DEF Plus, Sequence, ClientType
<1>5. CASE cl.st = "SYN_SENT"
  <2>1. PICK opened : opened = [cl EXCEPT !.st = "ESTABLISHED", !.una = 1,
                                          !.rcv = Plus(m.seq, 1)]
    OBVIOUS
  <2>2. PICK reset : reset = [cl EXCEPT !.st = "RESET"]
    OBVIOUS
  <2>3. Proper(c, cl, m.answer, Result(opened, {BareAck(c, opened)}))
    <3>1. PICK rcv \in Sequence : rcv = Plus(m.seq, 1)
      BY <1>4
    <3>2. opened = [cl EXCEPT !.st = "ESTABLISHED", !.una = 1, !.rcv = rcv]
      BY <2>1, <3>1
    <3>3. opened.st = "ESTABLISHED" /\ opened.request = cl.request
          /\ opened.whole = cl.whole /\ opened.answer = cl.answer
      BY <3>2 DEF ClientType
    <3>4. 1 \in 0 .. 4
      OBVIOUS
    <3>5. opened \in ClientType
      BY <3>2, <3>4 DEF ClientType
    <3> QED
      BY <1>3, <3>3, <3>5
  <2>4. Proper(c, cl, m.answer, Result(reset, {}))
    BY <1>3, <1>5, <2>2 DEF ClientType
  <2> QED
    BY <1>2, <1>5, <2>1, <2>2, <2>3, <2>4 DEF Received, ReceivedInSynSent
<1>6. CASE cl.st \in {"DONE", "RESET"}
  <2>1. PICK s : s = ToServer(c, [cl EXCEPT !.rcv = 0], {"RST"}, 0, "none")
    OBVIOUS
  <2>2. /\ s.conn = c /\ s.to = "server" /\ s.part = "none" /\ s.seq = 0
        /\ s.ack = [cl EXCEPT !.rcv = 0].rcv
    BY <2>1 DEF ToServer
  <2>3. s.ack = 0 /\ 0 \in Sequence
    BY <2>2, ClientNumbers DEF ClientType
  <2>4. Proper(c, cl, m.answer, Result(cl, {s}))
    BY <1>1, <2>2, <2>3 DEF Proper, Result
  <2> QED
    BY <1>2, <1>6, <2>1, <2>4 DEF Received, ReceivedLate
<1>7. CASE cl.st \in {"ESTABLISHED", "CLOSE_WAIT"} /\ "RST" \in m.flags
  <2>1. PICK reset : reset = [cl EXCEPT !.st = "RESET"]
    OBVIOUS
  <2>2. m.seq = cl.rcv => Proper(c, cl, m.answer, Result(reset, {}))
    BY <1>3, <1>7, <2>1 DEF ClientType
  <2>3. Proper(c, cl, m.answer, Result(cl, {BareAck(c, cl)}))
    BY <1>3
  <2> QED
    BY <1>2, <1>7, <2>1, <2>2, <2>3 DEF Received, ReceivedRst
<1>8. CASE cl.st \in {"ESTABLISHED", "CLOSE_WAIT"} /\ "RST" \notin m.flags
  <2>1. CASE m.seq # cl.rcv \/ "SYN" \in m.flags
    BY <1>3, <1>8, <2>1 DEF Received
  <2>2. CASE ~(m.seq # cl.rcv \/ "SYN" \in m.flags)
    <3>1. PICK una : una = IF m.ack \in cl.una .. FinSeq(cl) + 1 THEN m.ack ELSE cl.una
      OBVIOUS
    <3>2. una \in 0 .. 4
      BY <3>1, ClientNumbers DEF ClientType
    <3>3. PICK now : now = [cl EXCEPT !.una = una]
      OBVIOUS
    <3>4. PICK read : read = [now EXCEPT !.answer = m.answer, !.rcv = Plus(cl.rcv, 2),
                                         !.st = "CLOSE_WAIT"]
      OBVIOUS
    <3>5. PICK done : done = [now EXCEPT !.st = "DONE"]
      OBVIOUS
    <3>6. now \in ClientType
      BY <3>2, <3>3 DEF ClientType
    <3>7. Proper(c, cl, m.answer, Result(now, {}))
      BY <1>3, <1>8, <3>3, <3>6 DEF ClientType
    <3>8. Proper(c, cl, m.answer, Result(read, {BareAck(c, read)}))
      <4>1. PICK rcv \in Sequence : rcv = Plus(cl.rcv, 2)
        BY <1>4
      <4>2. PICK a \in AnswerType : a = m.answer
        OBVIOUS
      <4>3. read = [now EXCEPT !.answer = a, !.rcv = rcv, !.st = "CLOSE_WAIT"]
        BY <3>4, <4>1, <4>2
      <4>4. now.request = cl.request /\ now.whole = cl.whole
        BY <3>3 DEF ClientType
      <4>5. read \in ClientType /\ read.st = "CLOSE_WAIT" /\ read.request = now.request
            /\ read.whole = now.whole /\ read.answer = a
        BY <3>6, <4>3 DEF ClientType
      <4> QED
        BY <1>3, <4>2, <4>4, <4>5
    <3>9. Proper(c, cl, m.answer, Result(done, {}))
      BY <1>3, <3>3, <3>5, <3>6 DEF ClientType
    <3> QED
      BY <1>8, <2>2, <3>1, <3>3, <3>4, <3>5, <3>7, <3>8, <3>9 DEF Received, ReceivedInOrder
  <2> QED
    BY <2>1, <2>2
<1> QED
  BY <1>5, <1>6, <1>7, <1>8 DEF ClientType

LEMMA ReceivesStep ==
    ASSUME SessionInv, ClientReceives
    PROVE  SessionInv'
<1>1. PICK m \in net :
        /\ m.to = "client"
        /\ LET result == Received(m.conn, client[m.conn], m)
           IN  /\ client' = [client EXCEPT ![m.conn] = result.cl]
               /\ \E rest \in Taken(m) : net' = Carry(rest, result.sends)
        /\ UNCHANGED <<pin, buttonVars, loopVars, levels>>
  BY DEF ClientReceives
<1>2. PICK c, cl, result : /\ c = m.conn /\ cl = client[c] /\ result = Received(c, cl, m)
  OBVIOUS
<1>3. PICK rest \in Taken(m) : net' = Carry(rest, result.sends)
  BY <1>1, <1>2
<1>4. /\ c \in Connections /\ cl \in ClientType /\ cl.st # "CLOSED"
      /\ m.seq \in Sequence /\ m.ack \in Sequence /\ m.answer \in AnswerType
      /\ "RST" \in m.flags => m.seq = 0
      /\ m.answer # NoAnswer => Answers(c, m.answer)
      /\ cl.st \in {"SYN_SENT", "RESET"} => cl.rcv = 0
  BY <1>1, <1>2 DEF SessionInv, Types, NetOK, SegmentOK, Begun, ClientsOK
<1>5. Proper(c, cl, m.answer, result)
  BY <1>2, <1>4, ReceivedProper
<1>6. client' \in [Connections -> ClientType] /\ client'[c] = result.cl
      /\ \A d \in Connections \ {c} : client'[d] = client[d]
  BY <1>1, <1>2, <1>4, <1>5 DEF Proper, SessionInv, Types
<1>7. /\ IsFiniteSet(net') /\ Cardinality(net') <= Capacity /\ net' \subseteq net \cup result.sends
  <2>1. IsFiniteSet(rest) /\ Cardinality(rest) <= Capacity /\ rest \subseteq net
    BY TakenFacts DEF SessionInv, Types
  <2>2. IsFiniteSet(result.sends)
    BY <1>5 DEF Proper
  <2> QED
    BY <1>3, <2>1, <2>2, CarryFacts
<1>8. Types'
  BY <1>1, <1>6, <1>7 DEF SessionInv, Types, loopVars, ClientType, Sequence
<1>9. Grows
  BY <1>1, <1>2, <1>4, <1>5, <1>6 DEF Grows, Begun, Had, Proper
<1>10. \A s \in result.sends : SegmentOK(s)'
  BY <1>4, <1>5, <1>6 DEF Proper, SegmentOK, Begun, IsPart, Sequence
<1>11. NetOK'
  BY <1>7, <1>9, <1>10, NetKept DEF SessionInv
<1>12. LevelsOK'
  BY <1>1, <1>4, <1>6, <1>2 DEF SessionInv, LevelsOK, Begun
<1>13. ClientsOK'
  <2>1. /\ client'[c].st \in {"CLOSED", "SYN_SENT", "RESET"} => client'[c].rcv = 0
        /\ client'[c].whole \/ client'[c].request.body # "none"
    BY <1>2, <1>4, <1>5, <1>6 DEF Proper, SessionInv, ClientsOK
  <2>2. \A d \in Connections \ {c} :
        /\ client'[d].st \in {"CLOSED", "SYN_SENT", "RESET"} => client'[d].rcv = 0
        /\ client'[d].whole \/ client'[d].request.body # "none"
    BY <1>6 DEF SessionInv, ClientsOK
  <2>3. ASSUME NEW d \in Connections, NEW a, a # NoAnswer, a = client'[d].answer
        PROVE  Begun(d)' /\ Answers(d, a)'
    <3>1. Begun(d) /\ Answers(d, a)
      BY <1>2, <1>4, <1>5, <1>6, <2>3 DEF Proper, SessionInv, ClientsOK, Begun
    <3> QED
      BY <1>9, <3>1, AnswersKept DEF SessionInv, Grows
  <2>4. ASSUME NEW d \in Connections, client'[d].answer # NoAnswer
        PROVE  Begun(d)' /\ Answers(d, client[d].answer)'
    <3>1. PICK a : a = client'[d].answer
      OBVIOUS
    <3> QED
      BY <2>3, <2>4, <3>1 DEF Answers, Had
  <2> QED
    BY <2>1, <2>2, <2>4 DEF ClientsOK, NoAnswer
<1>14. LoopOK'
  BY <1>1, <1>9, LoopKept DEF SessionInv
<1> QED
  BY <1>8, <1>11, <1>12, <1>13, <1>14 DEF SessionInv

-----------------------------------------------------------------------------
(* Steps of the loop *)

LEMMA SentIsOK ==
    ASSUME Types, NEW m, SegmentOK(m), NEW flags, "RST" \notin flags, NEW seq \in Sequence,
           NEW a \in AnswerType, a # NoAnswer => Answers(m.conn, a)
    PROVE  SegmentOK(SendInternal(m, flags, seq, a))
<1>1. PICK r : r = SendInternal(m, flags, seq, a)
  OBVIOUS
<1>2. m.conn \in Connections /\ Begun(m.conn) /\ m.seq \in Sequence
  BY DEF SegmentOK, Begun
<1>3. ReceivedLen(m) \in 0 .. 2
  BY DEF ReceivedLen, Length
<1>4. /\ r.conn = m.conn /\ r.to = "client" /\ r.seq = seq /\ r.answer = a /\ r.flags = flags
      /\ r.ack = Plus(m.seq, IF ReceivedLen(m) = 0 THEN 1 ELSE ReceivedLen(m))
  BY <1>1 DEF SendInternal, ToClient
<1>5. r.ack \in Sequence
  BY <1>2, <1>3, <1>4, WebAssumption DEF Plus, Sequence
<1>6. SegmentOK(r)
  BY <1>2, <1>4, <1>5 DEF SegmentOK
<1> QED
  BY <1>1, <1>6

LEMMA NoAnswerFacts == NoAnswer \in AnswerType /\ NoAnswer' = NoAnswer
BY DEF NoAnswer, AnswerType

LEMMA AtOnceIsOK ==
    ASSUME Types, NEW m, SegmentOK(m), NEW r \in AnsweredAtOnce(m)
    PROVE  SegmentOK(r)
<1>1. m.ack \in Sequence /\ m.seq \in Sequence /\ RandomSeq \subseteq Sequence
  BY WebAssumption DEF SegmentOK, Sequence
<1>2. CASE r \in HandshakeAnswers(m)
  <2>1. PICK flags \in {{"FIN", "ACK"}, {"SYN", "ACK"}}, seq \in Sequence :
          r = SendInternal(m, flags, seq, NoAnswer)
    BY <1>1, <1>2 DEF HandshakeAnswers
  <2>2. "RST" \notin flags
    OBVIOUS
  <2> QED
    BY <2>1, <2>2, SentIsOK, NoAnswerFacts
<1>3. CASE r = Rejection(m)
  <2>1. /\ r.conn = m.conn /\ r.to = "client" /\ r.seq = 0 /\ r.ack = Plus(m.seq, 1)
        /\ r.answer = NoAnswer
    BY <1>3 DEF Rejection, ToClient, ResetSeq
  <2>2. r.seq \in Sequence /\ r.ack \in Sequence
    BY <1>1, <2>1, WebAssumption DEF Plus, Sequence
  <2> QED
    BY <2>1, <2>2, NoAnswerFacts DEF SegmentOK
<1> QED
  BY <1>2, <1>3 DEF AnsweredAtOnce

LEMMA ReceiveStep ==
    ASSUME SessionInv, Receive
    PROVE  SessionInv'
<1>1. PICK m \in net :
        /\ m.to = "server"
        /\ IF HasData(m)
             THEN /\ pc' = "handle" /\ segment' = m /\ page' = {}
                  /\ net' \in Taken(m)
             ELSE /\ UNCHANGED loopVars
                  /\ \E answer \in AnsweredAtOnce(m), rest \in Taken(m) :
                        net' = Carry(rest, {answer})
  BY DEF Receive
<1>2. UNCHANGED <<pin, buttonVars, client, levels>> /\ SegmentOK(m)
  BY DEF Receive, SessionInv, NetOK
<1>3. CASE HasData(m)
  <2>1. /\ pc' = "handle" /\ segment' = m /\ page' = {}
        /\ IsFiniteSet(net') /\ Cardinality(net') <= Capacity /\ net' \subseteq net
    BY <1>1, <1>3, TakenFacts DEF SessionInv, Types
  <2>2. Grows
    BY <1>2 DEF Grows, Begun, Had
  <2>3. Types'
    BY <1>2, <2>1, FS_EmptySet DEF SessionInv, Types
  <2>4. NetOK'
    <3>1. PICK new : new = {}
      OBVIOUS
    <3>2. net' \subseteq net \cup new /\ \A r \in new : SegmentOK(r)'
      BY <2>1, <3>1
    <3> QED
      BY <2>2, <3>2, NetKept DEF SessionInv
  <2>5. LevelsOK'
    BY <1>2 DEF SessionInv, LevelsOK, Begun
  <2>6. ClientsOK'
    BY <1>2, <2>2, AnswersKept DEF SessionInv, ClientsOK, Begun
  <2>7. LoopOK'
    <3>1. m.part # "none"
      BY <1>3 DEF HasData, ReceivedLen, Length
    <3>2. SegmentOK(m)'
      BY <1>2, <2>2, SegmentKept DEF SessionInv
    <3>3. SegmentOK(segment)'
      BY <2>1, <3>2 DEF SegmentOK, IsPart, Begun, Answers, Had
    <3> QED
      BY <1>1, <2>1, <3>1, <3>3 DEF LoopOK
  <2> QED
    BY <2>3, <2>4, <2>5, <2>6, <2>7 DEF SessionInv
<1>4. CASE ~HasData(m)
  <2>1. PICK answer \in AnsweredAtOnce(m), rest \in Taken(m) : net' = Carry(rest, {answer})
    BY <1>1, <1>4
  <2>2. SegmentOK(answer)
    BY <1>2, AtOnceIsOK DEF SessionInv
  <2>3. IsFiniteSet(rest) /\ Cardinality(rest) <= Capacity /\ rest \subseteq net
    BY TakenFacts DEF SessionInv, Types
  <2>4. PICK new : new = {answer}
    OBVIOUS
  <2>5. IsFiniteSet(new) /\ net' = Carry(rest, new)
    BY <2>1, <2>4, FS_Singleton
  <2>6. IsFiniteSet(net') /\ Cardinality(net') <= Capacity /\ net' \subseteq net \cup new
    BY <2>3, <2>5, CarryFacts
  <2>7. UNCHANGED <<pin, loopVars, client, levels>> /\ \A r \in new : SegmentOK(r)
    BY <1>1, <1>2, <1>4, <2>2, <2>4
  <2> QED
    BY <2>6, <2>7, NetStep
<1> QED
  BY <1>3, <1>4

\* While a request is handled, it is one of a client that has begun
LEMMA HandledFacts ==
    ASSUME SessionInv, pc # "loop"
    PROVE  /\ segment.conn \in Connections /\ Begun(segment.conn) /\ SegmentOK(segment)
           /\ request \in Request /\ client[segment.conn].request = request
           /\ \A n \in Channel : Had(segment.conn, n, pin[n]) /\ pin[n] \in BOOLEAN
           /\ IsChannel => request.num \in Channel
           /\ segment.part \in {"all", "headers", "body"}
           /\ (segment.part = "all") = client[segment.conn].whole
<1>1. segment.conn \in Connections /\ Begun(segment.conn) /\ SegmentOK(segment)
  BY DEF SessionInv, LoopOK, SegmentOK, Begun
<1>2. client[segment.conn] \in ClientType
  BY <1>1 DEF SessionInv, Types
<1>3. request \in Request /\ client[segment.conn].request = request
  BY <1>2 DEF request, ClientType
<1>4. \A n \in Channel : Had(segment.conn, n, pin[n]) /\ pin[n] \in BOOLEAN
  BY <1>1 DEF SessionInv, LevelsOK, Had, Types
<1>5. IsChannel => request.num \in Channel
  BY <1>3, WebAssumption DEF IsChannel, Request, Channel
<1>6. IsPart(segment.conn, segment.part) /\ segment.part # "none"
  BY DEF SessionInv, LoopOK, SegmentOK
<1>7. client[segment.conn].whole \in BOOLEAN
  BY <1>2 DEF ClientType
<1>8. segment.part \in {"all", "headers", "body"}
      /\ (segment.part = "all") = client[segment.conn].whole
  BY <1>6, <1>7 DEF IsPart
<1> QED
  BY <1>1, <1>3, <1>4, <1>5, <1>8

\* An answer that is true may be sent
LEMMA ReplyStep ==
    ASSUME SessionInv, pc # "loop", NEW a \in AnswerType, Answers(segment.conn, a),
           SendReply(a), UNCHANGED <<pin, buttonVars, client, levels>>
    PROVE  SessionInv'
<1>1. /\ net' = Carry(net, {SendInternal(segment, {"ACK", "FIN", "PSH"}, segment.ack, a)})
      /\ pc' = "loop" /\ page' = {}
  BY DEF SendReply
<1>2. PICK s : s = SendInternal(segment, {"ACK", "FIN", "PSH"}, segment.ack, a)
  OBVIOUS
<1>3. SegmentOK(s)
  <2>1. PICK m, flags : m = segment /\ flags = {"ACK", "FIN", "PSH"}
    OBVIOUS
  <2>2. SegmentOK(m) /\ m.ack \in Sequence /\ "RST" \notin flags
    BY <2>1, HandledFacts DEF SegmentOK
  <2>3. Answers(m.conn, a) /\ Types
    BY <2>1 DEF SessionInv
  <2>4. SegmentOK(SendInternal(m, flags, m.ack, a))
    BY <2>2, <2>3, SentIsOK
  <2> QED
    BY <1>2, <2>1, <2>4
<1>4. PICK new : new = {s}
  OBVIOUS
<1>5. net' = Carry(net, new) /\ IsFiniteSet(new)
  BY <1>1, <1>2, <1>4, FS_Singleton
<1>6. IsFiniteSet(net') /\ Cardinality(net') <= Capacity /\ net' \subseteq net \cup new
  BY <1>5, CarryFacts DEF SessionInv, Types
<1>7. Grows
  BY DEF Grows, Begun, Had
<1>8. Types'
  BY <1>1, <1>6, FS_EmptySet DEF SessionInv, Types
<1>9. \A r \in new : SegmentOK(r)'
  BY <1>3, <1>4, <1>7, SegmentKept DEF SessionInv
<1>10. NetOK'
  BY <1>6, <1>7, <1>9, NetKept DEF SessionInv
<1>11. LevelsOK'
  BY DEF SessionInv, LevelsOK, Begun
<1>12. ClientsOK'
  BY <1>7, AnswersKept DEF SessionInv, ClientsOK, Begun
<1>13. LoopOK'
  BY <1>1 DEF LoopOK
<1> QED
  BY <1>8, <1>10, <1>11, <1>12, <1>13 DEF SessionInv

\* The other steps of the loop leave the network and the clients alone
LEMMA HandlerStep ==
    ASSUME SessionInv, UNCHANGED <<net, client>>, Grows, Types', LevelsOK', LoopOK'
    PROVE  SessionInv'
<1>1. NetOK'
  <2>1. PICK new : new = {}
    OBVIOUS
  <2>2. net' \subseteq net \cup new /\ \A r \in new : SegmentOK(r)'
    BY <2>1
  <2> QED
    BY <2>2, NetKept DEF SessionInv
<1>2. ClientsOK'
  <2>1. ASSUME NEW c \in Connections, NEW a, a = client[c].answer, a # NoAnswer
        PROVE  Begun(c)' /\ Answers(c, a)'
    BY <2>1, AnswersKept DEF SessionInv, ClientsOK, Grows
  <2>2. ASSUME NEW c \in Connections, client[c].answer # NoAnswer
        PROVE  Begun(c)' /\ Answers(c, client[c].answer)'
    <3>1. PICK a : a = client[c].answer
      OBVIOUS
    <3> QED
      BY <2>1, <2>2, <3>1 DEF Answers, Had
  <2> QED
    BY <2>2, NoAnswerFacts DEF SessionInv, ClientsOK
<1> QED
  BY <1>1, <1>2 DEF SessionInv

\* The output n gets a level
LEMMA WriteFacts ==
    ASSUME SessionInv, NEW n \in Channel, NEW level \in BOOLEAN, Write(n, level),
           UNCHANGED client
    PROVE  /\ Grows /\ LevelsOK' /\ pin' \in [Channel -> BOOLEAN]
           /\ levels' \in [Connections -> [Channel -> SUBSET BOOLEAN]]
           /\ \A c \in Connections : Had(c, n, level)'
<1>1. /\ pin' = [pin EXCEPT ![n] = level]
      /\ \A c \in Connections : levels'[c] = [levels[c] EXCEPT ![n] = @ \cup {level}]
      /\ levels' = [c \in Connections |-> levels'[c]]
  BY DEF Write
<1>2. /\ pin \in [Channel -> BOOLEAN] /\ levels \in [Connections -> [Channel -> SUBSET BOOLEAN]]
  BY DEF SessionInv, Types
<1>3. /\ pin' \in [Channel -> BOOLEAN] /\ pin'[n] = level
      /\ \A k \in Channel \ {n} : pin'[k] = pin[k]
  BY <1>1, <1>2
<1>4. ASSUME NEW c \in Connections
      PROVE  /\ levels'[c] \in [Channel -> SUBSET BOOLEAN]
             /\ levels'[c][n] = levels[c][n] \cup {level}
             /\ \A k \in Channel \ {n} : levels'[c][k] = levels[c][k]
  <2>1. levels[c] \in [Channel -> SUBSET BOOLEAN]
    BY <1>2
  <2>2. levels[c][n] \cup {level} \in SUBSET BOOLEAN
    BY <2>1
  <2> QED
    BY <1>1, <2>1, <2>2
<1>5. levels' \in [Connections -> [Channel -> SUBSET BOOLEAN]]
  BY <1>1, <1>4
<1>6. Grows
  <2>1. ASSUME NEW c \in Connections, NEW k \in Channel, NEW l, Had(c, k, l)
        PROVE  Had(c, k, l)'
    BY <1>4, <2>1 DEF Had
  <2> QED
    BY <2>1 DEF Grows, Begun
<1>7. LevelsOK'
  <2>1. ASSUME NEW c \in Connections, Begun(c), NEW k \in Channel
        PROVE  pin'[k] \in levels'[c][k]
    <3>1. pin[k] \in levels[c][k]
      BY <2>1 DEF SessionInv, LevelsOK
    <3> QED
      BY <1>3, <1>4, <3>1
  <2> QED
    BY <2>1 DEF LevelsOK, Begun
<1>8. \A c \in Connections : Had(c, n, level)'
  BY <1>4 DEF Had
<1> QED
  BY <1>3, <1>5, <1>6, <1>7, <1>8

\* A step that changes neither outputs nor levels
LEMMA StillFacts ==
    ASSUME SessionInv, UNCHANGED <<pin, client, levels>>
    PROVE  Grows /\ LevelsOK'
BY DEF SessionInv, Grows, LevelsOK, Begun, Had

LEMMA SegmentStays ==
    ASSUME SessionInv, Grows, pc # "loop", UNCHANGED segment
    PROVE  /\ segment'.to = "server" /\ segment'.part # "none" /\ SegmentOK(segment)'
           /\ request' = request
<1>1. PICK m : m = segment
  OBVIOUS
<1>2. SegmentOK(m)'
  BY <1>1, HandledFacts, SegmentKept DEF SessionInv
<1>3. SegmentOK(segment)'
  BY <1>1, <1>2 DEF SegmentOK, IsPart, Begun, Answers, Had
<1>4. request' = request
  BY HandledFacts DEF Grows, request
<1> QED
  BY <1>3, <1>4 DEF SessionInv, LoopOK

LEMMA HandleIndexStep ==
    ASSUME SessionInv, HandleIndex
    PROVE  SessionInv'
<1>1. /\ pc = "handle" /\ Is("GET", "/") /\ pc' = "index" /\ page = {}
      /\ UNCHANGED <<pin, buttonVars, segment, page, net, client, levels>>
  BY DEF HandleIndex, SessionInv, LoopOK
<1>2. Grows /\ LevelsOK'
  BY <1>1, StillFacts
<1>3. Types'
  BY <1>1, FS_EmptySet DEF SessionInv, Types
<1>4. SegmentOK(segment)' /\ segment'.to = "server" /\ segment'.part # "none"
      /\ request' = request
  BY <1>1, <1>2, SegmentStays
<1>5. Is("GET", "/")'
  BY <1>1, <1>4 DEF Is
<1>6. Cardinality(page') = 0 /\ 0 .. -1 = {} /\ {x[1] : x \in page'} = {}
  BY <1>1, FS_EmptySet
<1>7. PageOK'
  BY <1>1 DEF PageOK
<1>8. {x[1] : x \in page'} = 0 .. Cardinality(page') - 1 /\ Cardinality(page') <= CHANNEL_COUNT
  BY <1>6, WebAssumption
<1>9. LoopOK'
  BY <1>1, <1>4, <1>5, <1>7, <1>8 DEF LoopOK
<1> QED
  BY <1>1, <1>2, <1>3, <1>9, HandlerStep

LEMMA SendIndexStep ==
    ASSUME SessionInv, SendIndex
    PROVE  SessionInv'
<1> DEFINE n == Cardinality(page)
<1>1. /\ pc = "index" /\ UNCHANGED <<pin, buttonVars, client, levels>>
      /\ \/ n < CHANNEL_COUNT /\ Read(n) /\ pc' \in {"index", "overrun"}
            /\ UNCHANGED <<segment, net>>
         \/ n >= CHANNEL_COUNT /\ SendReply(Answer("200", page))
         \/ pc' = "overrun" /\ UNCHANGED <<segment, page, net>>
  BY DEF SendIndex
<1>2. /\ Is("GET", "/") /\ PageOK /\ n <= CHANNEL_COUNT /\ {x[1] : x \in page} = 0 .. n - 1
      /\ page \subseteq Channel \X BOOLEAN /\ IsFiniteSet(page)
  BY <1>1 DEF SessionInv, LoopOK, Types
<1>3. n \in Nat
  BY <1>2, FS_CardinalityType
<1>4. CASE n < CHANNEL_COUNT /\ Read(n) /\ pc' \in {"index", "overrun"}
           /\ UNCHANGED <<segment, net>>
  <2>1. PICK k \in Channel : k = n
    BY <1>3, <1>4, WebAssumption DEF Channel
  <2>2. PICK l \in BOOLEAN : l = pin[k] /\ Had(segment.conn, k, l)
    BY <1>1, HandledFacts
  <2>3. PICK x : x = <<k, l>>
    OBVIOUS
  <2>4. page' = page \cup {x}
    BY <1>1, <1>4, <2>1, <2>2, <2>3 DEF Read
  <2>5. x \notin page
    BY <1>2, <1>3, <2>1, <2>3
  <2>6. IsFiniteSet(page') /\ Cardinality(page') = n + 1
    BY <1>2, <2>4, <2>5, FS_AddElement
  <2>7. Grows /\ LevelsOK'
    BY <1>1, StillFacts
  <2>8. Types'
    BY <1>1, <1>2, <1>4, <2>3, <2>4, <2>6 DEF SessionInv, Types
  <2>9. SegmentOK(segment)' /\ segment'.to = "server" /\ segment'.part # "none"
        /\ request' = request
    BY <1>1, <1>4, <2>7, SegmentStays
  <2>10. Is("GET", "/")'
    BY <1>1, <1>2, <1>4, <2>9 DEF Is
  <2>11. PageOK'
    <3>1. \A y \in page : Had(segment.conn, y[1], y[2])
      BY <1>2 DEF PageOK
    <3>2. Had(segment.conn, x[1], x[2])
      BY <2>2, <2>3
    <3> QED
      BY <1>1, <1>4, <2>4, <3>1, <3>2 DEF PageOK, Had
  <2>12. {y[1] : y \in page'} = 0 .. Cardinality(page') - 1
    <3>1. {y[1] : y \in page'} = {y[1] : y \in page} \cup {n}
      BY <2>1, <2>3, <2>4
    <3>2. (0 .. n - 1) \cup {n} = 0 .. (n + 1) - 1
      BY <1>3
    <3> QED
      BY <1>2, <2>6, <3>1, <3>2
  <2>13. Cardinality(page') <= CHANNEL_COUNT
    BY <1>3, <1>4, <2>6, WebAssumption
  <2>14. LoopOK'
    BY <1>1, <1>4, <2>9, <2>10, <2>11, <2>12, <2>13 DEF LoopOK
  <2> QED
    BY <1>1, <1>4, <2>7, <2>8, <2>14, HandlerStep
<1>5. CASE n >= CHANNEL_COUNT /\ SendReply(Answer("200", page))
  <2>1. PICK a : a = Answer("200", page)
    OBVIOUS
  <2>2. a.status = "200" /\ a.shown = page /\ a \in AnswerType
    BY <1>2, <2>1 DEF Answer, AnswerType
  <2>3. request.method = "GET" /\ request.path = "/"
    BY <1>2 DEF Is
  <2>4. {x[1] : x \in a.shown} = Channel
    BY <1>2, <1>3, <1>5, <2>2, WebAssumption DEF Channel
  <2>5. \A x \in a.shown : Had(segment.conn, x[1], x[2])
    BY <1>2, <2>2 DEF PageOK
  <2>6. Answers(segment.conn, a)
    BY <1>1, <2>2, <2>3, <2>4, <2>5, HandledFacts DEF Answers
  <2>7. SendReply(a)
    BY <1>1, <1>5, <2>1
  <2> QED
    BY <1>1, <2>2, <2>6, <2>7, ReplyStep
<1>6. CASE pc' = "overrun" /\ UNCHANGED <<segment, page, net>>
  <2>1. Grows /\ LevelsOK'
    BY <1>1, StillFacts
  <2>2. Types'
    BY <1>1, <1>6 DEF SessionInv, Types
  <2>3. LoopOK'
    BY <1>1, <1>6, <2>1, SegmentStays DEF LoopOK
  <2> QED
    BY <1>1, <1>6, <2>1, <2>2, <2>3, HandlerStep
<1> QED
  BY <1>1, <1>4, <1>5, <1>6

LEMMA HandleGetStep ==
    ASSUME SessionInv, HandleGet
    PROVE  SessionInv'
<1>1. /\ pc = "handle" /\ Is("GET", "/outputs/?") /\ IsChannel
      /\ SendReply(Answer("200", {<<request.num, pin[request.num]>>}))
      /\ UNCHANGED <<pin, buttonVars, client, levels>>
  BY DEF HandleGet
<1>2. PICK k \in Channel : k = request.num
  BY <1>1, HandledFacts
<1>3. PICK l \in BOOLEAN : l = pin[k] /\ Had(segment.conn, k, l)
  BY <1>1, HandledFacts
<1>4. PICK a : a = Answer("200", {<<k, l>>})
  OBVIOUS
<1>5. a.status = "200" /\ a.shown = {<<k, l>>} /\ a \in AnswerType
  BY <1>4 DEF Answer, AnswerType
<1>6. {x[1] : x \in a.shown} = {k}
  BY <1>5
<1>7. \A x \in a.shown : Had(segment.conn, x[1], x[2])
  BY <1>3, <1>5
<1>8. request.method = "GET" /\ request.path = "/outputs/?" /\ k < CHANNEL_COUNT
  BY <1>1, <1>2 DEF Is, IsChannel
<1>9. Answers(segment.conn, a)
  BY <1>1, <1>2, <1>5, <1>6, <1>7, <1>8, HandledFacts DEF Answers
<1>10. SendReply(a)
  BY <1>1, <1>2, <1>3, <1>4
<1> QED
  BY <1>1, <1>5, <1>9, <1>10, ReplyStep

LEMMA HandleToggleStep ==
    ASSUME SessionInv, HandleToggle
    PROVE  SessionInv'
<1>1. /\ pc = "handle" /\ Is("POST", "/outputs/?") /\ IsChannel /\ body = "none"
      /\ Read(request.num) /\ pc' = "toggle" /\ page = {}
      /\ UNCHANGED <<pin, buttonVars, segment, net, client, levels>>
  BY DEF HandleToggle, SessionInv, LoopOK
<1>2. PICK k \in Channel : k = request.num
  BY <1>1, HandledFacts
<1>3. PICK l \in BOOLEAN : l = pin[k] /\ Had(segment.conn, k, l)
  BY <1>1, HandledFacts
<1>4. page' = {<<k, l>>}
  BY <1>1, <1>2, <1>3 DEF Read
<1>5. Grows /\ LevelsOK'
  BY <1>1, StillFacts
<1>6. Types'
  <2>1. PICK x \in Channel \X BOOLEAN : page' = {x}
    BY <1>4
  <2>2. IsFiniteSet(page')
    BY <2>1, FS_Singleton
  <2> QED
    BY <1>1, <2>1, <2>2 DEF SessionInv, Types
<1>7. SegmentOK(segment)' /\ segment'.to = "server" /\ segment'.part # "none"
      /\ request' = request
  BY <1>1, <1>5, SegmentStays
<1>8. Is("POST", "/outputs/?")' /\ IsChannel' /\ body' = "none"
  BY <1>1, <1>7 DEF Is, IsChannel, body
<1>9. PageOK'
  BY <1>1, <1>3, <1>4 DEF PageOK, Had
<1>10. LoopOK'
  BY <1>1, <1>2, <1>4, <1>7, <1>8, <1>9 DEF LoopOK
<1> QED
  BY <1>1, <1>5, <1>6, <1>10, HandlerStep

LEMMA ToggleStep ==
    ASSUME SessionInv, Toggle
    PROVE  SessionInv'
<1>1. /\ pc = "toggle" /\ pc' = "reply"
      /\ UNCHANGED <<buttonVars, segment, page, net, client>>
      /\ Is("POST", "/outputs/?") /\ IsChannel /\ PageOK
  BY DEF Toggle, SessionInv, LoopOK
<1>2. PICK k \in Channel : k = request.num
  BY <1>1, HandledFacts
<1>3. PICK level \in BOOLEAN : page = {<<k, level>>} /\ Write(k, ~level)
  BY <1>2 DEF Toggle
<1>4. PICK new \in BOOLEAN : new = ~level
  OBVIOUS
<1>5. Write(k, new)
  BY <1>3, <1>4
<1>6. /\ Grows /\ LevelsOK' /\ pin' \in [Channel -> BOOLEAN]
      /\ levels' \in [Connections -> [Channel -> SUBSET BOOLEAN]]
      /\ \A c \in Connections : Had(c, k, new)'
  BY <1>1, <1>5, WriteFacts
<1>7. Types'
  BY <1>1, <1>6 DEF SessionInv, Types
<1>8. SegmentOK(segment)' /\ segment'.to = "server" /\ segment'.part # "none"
      /\ request' = request
  BY <1>1, <1>6, SegmentStays
<1>9. PICK c \in Connections : c = segment.conn
  BY <1>1, HandledFacts
<1>10. Had(c, k, level)
  BY <1>1, <1>3, <1>9 DEF PageOK
<1>11. Had(c, k, level)' /\ Had(c, k, new)'
  BY <1>1, <1>6, <1>9, <1>10, HandledFacts DEF Grows
<1>12. Had(c, k, TRUE)' /\ Had(c, k, FALSE)'
  BY <1>4, <1>11
<1>13. Answers(segment.conn, Answer("302", {}))'
  <2>1. /\ request.method = "POST" /\ request.path = "/outputs/?" /\ k < CHANNEL_COUNT
    BY <1>1, <1>2 DEF Is, IsChannel
  <2>2. client'[c].request = request
    BY <1>1, <1>9, HandledFacts
  <2>3. Answer("302", {}).status = "302"
    BY DEF Answer
  <2>4. PICK a : a = Answer("302", {})
    OBVIOUS
  <2>5. Had(c, k, request.body = "on")'
    BY <1>12 DEF Had
  <2>6. Answers(c, a)'
    BY <1>2, <1>12, <2>1, <2>2, <2>3, <2>4, <2>5 DEF Answers, Had
  <2> QED
    BY <1>1, <1>9, <2>4, <2>6 DEF Answers, Had, Answer
<1>14. LoopOK'
  BY <1>1, <1>8, <1>13 DEF LoopOK
<1> QED
  BY <1>1, <1>6, <1>7, <1>14, HandlerStep

LEMMA HandleSetStep ==
    ASSUME SessionInv, HandleSet
    PROVE  SessionInv'
<1>1. /\ pc = "handle" /\ Is("POST", "/outputs/?") /\ IsChannel /\ body # "none"
      /\ IF body = "other" THEN UNCHANGED <<pin, levels>> ELSE Write(request.num, body = "on")
      /\ pc' = "reply" /\ UNCHANGED <<buttonVars, segment, page, net, client>>
  BY DEF HandleSet
<1>2. PICK k \in Channel : k = request.num
  BY <1>1, HandledFacts
<1>3. PICK c \in Connections : c = segment.conn
  BY <1>1, HandledFacts
<1>4. /\ segment.part = "all" /\ client[c].whole /\ body = request.body
      /\ request.method = "POST" /\ request.path = "/outputs/?" /\ k < CHANNEL_COUNT
  BY <1>1, <1>2, <1>3, HandledFacts DEF body, Is, IsChannel
<1>5. PICK a : a = Answer("302", {})
  OBVIOUS
<1>6. a.status = "302"
  BY <1>5 DEF Answer
<1>7. client[c].request = request /\ request \in Request
  BY <1>1, <1>3, HandledFacts
<1>8. /\ Grows /\ LevelsOK' /\ pin' \in [Channel -> BOOLEAN]
      /\ levels' \in [Connections -> [Channel -> SUBSET BOOLEAN]]
      /\ request.body \in {"on", "off"} => Had(c, k, request.body = "on")'
  <2>1. CASE body = "other"
    <3>1. UNCHANGED <<pin, levels>>
      BY <1>1, <2>1
    <3>2. Grows /\ LevelsOK'
      BY <1>1, <3>1, StillFacts
    <3>3. request.body \notin {"on", "off"}
      BY <1>4, <2>1
    <3> QED
      BY <3>1, <3>2, <3>3 DEF SessionInv, Types
  <2>2. CASE body # "other"
    <3>1. PICK level \in BOOLEAN : level = (request.body = "on")
      OBVIOUS
    <3>2. Write(k, level)
      BY <1>1, <1>2, <1>4, <2>2, <3>1
    <3>3. /\ Grows /\ LevelsOK' /\ pin' \in [Channel -> BOOLEAN]
          /\ levels' \in [Connections -> [Channel -> SUBSET BOOLEAN]]
          /\ Had(c, k, level)'
      BY <1>1, <3>2, WriteFacts
    <3>4. SegmentOK(segment)' /\ request' = request
      BY <1>1, <3>3, SegmentStays
    <3>5. Had(c, k, request.body = "on")'
      BY <3>1, <3>3, <3>4 DEF Had
    <3> QED
      BY <3>3, <3>5
  <2> QED
    BY <2>1, <2>2
<1>9. Types'
  BY <1>1, <1>8 DEF SessionInv, Types
<1>10. SegmentOK(segment)' /\ segment'.to = "server" /\ segment'.part # "none"
       /\ request' = request
  BY <1>1, <1>8, SegmentStays
<1>11. Answers(segment.conn, Answer("302", {}))'
  <2>1. client'[c].request = request /\ client'[c].whole = client[c].whole
    BY <1>1, <1>7
  <2>2. ~(request.body = "none" \/ ~client[c].whole)
    BY <1>1, <1>4
  <2>3. Answers(c, a)'
    BY <1>2, <1>4, <1>6, <1>8, <1>10, <2>1, <2>2 DEF Answers, Had
  <2> QED
    BY <1>1, <1>3, <1>5, <2>3 DEF Answers, Had, Answer
<1>12. LoopOK'
  BY <1>1, <1>10, <1>11 DEF LoopOK
<1> QED
  BY <1>1, <1>8, <1>9, <1>12, HandlerStep

LEMMA RedirectStep ==
    ASSUME SessionInv, Redirect
    PROVE  SessionInv'
<1>1. /\ pc = "reply" /\ SendReply(Answer("302", {}))
      /\ UNCHANGED <<pin, buttonVars, client, levels>>
      /\ Answers(segment.conn, Answer("302", {}))
  BY DEF Redirect, SessionInv, LoopOK
<1>2. PICK a : a = Answer("302", {})
  OBVIOUS
<1>3. a \in AnswerType
  BY <1>2 DEF Answer, AnswerType
<1> QED
  BY <1>1, <1>2, <1>3, ReplyStep

LEMMA HandleNotFoundStep ==
    ASSUME SessionInv, HandleNotFound
    PROVE  SessionInv'
<1>1. /\ pc = "handle" /\ ~Is("GET", "/")
      /\ (Is("GET", "/outputs/?") \/ Is("POST", "/outputs/?")) => ~IsChannel
      /\ SendReply(Answer("404", {})) /\ UNCHANGED <<pin, buttonVars, client, levels>>
  BY DEF HandleNotFound
<1>2. PICK a : a = Answer("404", {})
  OBVIOUS
<1>3. a \in AnswerType /\ a.status = "404"
  BY <1>2 DEF Answer, AnswerType
<1>4. PICK c \in Connections : c = segment.conn
  BY <1>1, HandledFacts
<1>5. client[c].request = request /\ (segment.part = "all") = client[c].whole
  BY <1>1, <1>4, HandledFacts
<1>6. ASSUME client[c].whole
      PROVE  /\ ~(request.method = "GET" /\ request.path = "/")
             /\ ~(request.method \in {"GET", "POST"} /\ request.path = "/outputs/?"
                    /\ request.num < CHANNEL_COUNT)
  <2>1. segment.part # "body"
    BY <1>5, <1>6
  <2> QED
    BY <1>1, <2>1 DEF Is, IsChannel
<1>7. Answers(c, a)
  BY <1>3, <1>5, <1>6 DEF Answers
<1>8. SendReply(a)
  BY <1>1, <1>2
<1> QED
  BY <1>1, <1>3, <1>4, <1>7, <1>8, ReplyStep

-----------------------------------------------------------------------------
(* The invariant, and what follows *)

LEMMA SessionInit == Init => SessionInv
<1> SUFFICES ASSUME Init PROVE SessionInv
  OBVIOUS
<1>1. PICK r \in Requests : r = CHOOSE q \in Requests : TRUE
  BY WebAssumption
<1>2. PICK cl : cl = [st |-> "CLOSED", request |-> r, whole |-> TRUE, una |-> 0, rcv |-> 0,
                      answer |-> NoAnswer]
  OBVIOUS
<1>3. client = [c \in Connections |-> cl]
  BY <1>1, <1>2 DEF Init
<1>4. cl \in ClientType
  <2>1. 0 \in 0 .. 4 /\ 0 \in Sequence /\ r \in Request
    BY WebAssumption DEF Sequence
  <2> QED
    BY <1>2, <2>1, NoAnswerFacts DEF ClientType
<1>5. /\ cl.st = "CLOSED" /\ cl.rcv = 0 /\ cl.whole = TRUE /\ cl.answer = NoAnswer
  BY <1>2
<1>6. /\ pin = [n \in Channel |-> FALSE] /\ pc = "loop" /\ page = {} /\ net = {}
      /\ levels = [c \in Connections |-> [n \in Channel |-> {}]]
  BY DEF Init
<1>7. Types
  <2>1. levels \in [Connections -> [Channel -> SUBSET BOOLEAN]]
    BY <1>6
  <2>2. IsFiniteSet(net) /\ Cardinality(net) <= Capacity /\ IsFiniteSet(page)
    BY <1>6, FS_EmptySet, WebAssumption
  <2> QED
    BY <1>3, <1>4, <1>6, <2>1, <2>2 DEF Types
<1>8. NetOK /\ LevelsOK /\ LoopOK
  BY <1>3, <1>5, <1>6 DEF NetOK, LevelsOK, LoopOK, Begun
<1>9. ClientsOK
  BY <1>3, <1>5 DEF ClientsOK
<1> QED
  BY <1>7, <1>8, <1>9 DEF SessionInv

LEMMA SessionNext ==
    ASSUME SessionInv, [Next]_vars
    PROVE  SessionInv'
<1>1. CASE UNCHANGED vars
  <2>1. UNCHANGED <<pin, loopVars, client, levels, net>>
    BY <1>1 DEF vars
  <2>2. PICK new : new = {}
    OBVIOUS
  <2>3. /\ net' \subseteq net \cup new /\ \A m \in new : SegmentOK(m)
        /\ IsFiniteSet(net') /\ Cardinality(net') <= Capacity
    BY <2>1, <2>2 DEF SessionInv, Types
  <2> QED
    BY <2>1, <2>3, NetStep
<1>2. CASE Next /\ ~UNCHANGED vars
  BY <1>2, ReceiveStep, HandleIndexStep, SendIndexStep, HandleGetStep, HandleToggleStep,
     ToggleStep, HandleSetStep, RedirectStep, HandleNotFoundStep, ButtonsStep, OpenStep,
     SendsStep, ReceivesStep, LoseStep DEF Next, Loop, Undefined
<1> QED
  BY <1>1, <1>2

LEMMA Session == Spec => []SessionInv
<1>1. SessionInv /\ [Next]_vars => SessionInv'
  BY SessionNext
<1> QED
  BY <1>1, SessionInit, PTL DEF Spec

\* The counters of the buttons are two bytes of limited values (WebToggler.ino:121), and numbers of
\* segments are made modulo 2^32 (TCPServer.cpp:79).
THEOREM TypeCorrect == Spec => []TypeOK
<1>1. ButtonTypes /\ ButtonInv /\ [Next]_vars => ButtonTypes' /\ ButtonInv'
  BY ButtonsKept
<1>2. Spec => []ButtonTypes
  BY <1>1, ButtonsInit, PTL DEF Spec
<1>3. ButtonTypes /\ SessionInv => TypeOK
  BY DEF ButtonTypes, SessionInv, Types, NetOK, SegmentOK, TypeOK
<1> QED
  BY <1>2, <1>3, Session, PTL

\* A client that has an answer has a true one to its own request, though the server keeps no
\* connection and takes all that it sends back from the segment it answers (TCPServer.cpp:66).
\* Nothing is said of pages that overrun the buffer: they are sent by no step.
THEOREM AnswersTrue == Spec => []AnswersAreTrue
<1>1. SessionInv => AnswersAreTrue
  BY DEF SessionInv, ClientsOK, AnswersAreTrue
<1> QED
  BY <1>1, Session, PTL

\* The RSTs with which rejectPacket() answers the ACKs of a client (EtherSia.cpp:153) do not end
\* its connection, unless it expects number 0.
THEOREM ResetsMissTheWindow == Spec => []ResetOnlyAtWrap
<1>1. SessionInv => ResetOnlyAtWrap
  BY DEF SessionInv, ClientsOK, ResetOnlyAtWrap
<1> QED
  BY <1>1, Session, PTL

=============================================================================
