---------------------------- MODULE StreamProofs ----------------------------
(***************************************************************************)
(* Theorems about the browsers of the hub and their sockets to the local   *)
(* server, for any number of instances, connections, browsers and messages:*)
(* a browser that is connected has its local socket, and what either hears *)
(* of the other is what the other has said, whole and in order.            *)
(***************************************************************************)
EXTENDS RelayProofs

-----------------------------------------------------------------------------
(* The browsers and their local sockets *)

\* Something of this type about browser b is on its way.
Asks(s, type, b) == \E k \in 1..Len(s) : s[k].type = type /\ s[k].b = b
Usable(r) == r.hub = "open" /\ r.app # "closed" /\ ~r.cut

\* The instance that has a local socket for a browser is connected.
Hosts ==
  \A b \in Browsers : local[b].mapped =>
    instance[local[b].host].relay # NoConn /\ conn[instance[local[b].host].relay].app = "open"

\* Only the agent is asked to open a socket for a browser that is connected, and
\* none before it is or, to close it, before it has closed.
Asked ==
  \A b \in Browsers :
    /\ browser[b].socket = "none" => ~browser[b].entered /\ \A c \in Conns : ~Asks(conn[c].down, "open", b)
    /\ \A c \in Conns : Asks(conn[c].down, "close", b) => ~browser[b].entered /\ browser[b].socket = "closed"
    /\ browser[b].entered /\ ~unpurged =>
         agent # NoConn /\ \A c \in Conns : Asks(conn[c].down, "open", b) => c = agent

\* A browser that is connected has its local socket, or the agent will be asked
\* to open one or has said that there is none.
HasLocal(b) ==
  \/ Asks(conn[agent].down, "open", b)
  \/ local[b].mapped /\ local[b].host = conn[agent].of
  \/ Asks(conn[agent].up, "close", b)
Reached ==
  \A b \in Browsers :
    browser[b].entered /\ ~unpurged /\ browser[b].socket = "open" /\ Usable(conn[agent]) => HasLocal(b)

LEMMA AsksEffect ==
  ASSUME NEW s \in Seq(Messages), NEW type, NEW b
  PROVE  /\ \A m \in Messages : Asks(Append(s, m), type, b) <=> Asks(s, type, b) \/ (m.type = type /\ m.b = b)
         /\ \A ms \in Seq(Messages) : Asks(s, type, b) => Asks(s \o ms, type, b)
         /\ \A m \in Messages : m.type = type /\ m.b = b => Asks(s \o <<m>>, type, b)
         /\ s # <<>> => /\ Asks(Tail(s), type, b) => Asks(s, type, b)
                        /\ Asks(s, type, b) => Asks(Tail(s), type, b) \/ (Head(s).type = type /\ Head(s).b = b)
                        /\ Head(s).type = type /\ Head(s).b = b => Asks(s, type, b)
         /\ \A n \in 0..Len(s), m \in Messages :
              Asks(Append(SubSeq(s, 1, n), m), type, b) => Asks(s, type, b) \/ (m.type = type /\ m.b = b)
         /\ ~Asks(<<>>, type, b)
<1>1. ASSUME NEW x \in Seq(Messages), NEW m \in Messages
      PROVE  Asks(Append(x, m), type, b) <=> Asks(x, type, b) \/ (m.type = type /\ m.b = b)
  <2>1. Len(x) \in Nat /\ Len(Append(x, m)) = Len(x) + 1 /\ Append(x, m)[Len(x) + 1] = m /\ \A j \in 1..Len(x) : Append(x, m)[j] = x[j]
    BY AppendProperties
  <2>2. \A j \in 1..(Len(x) + 1) : j = Len(x) + 1 \/ j \in 1..Len(x)
    BY <2>1
  <2>3. Len(x) + 1 \in 1..(Len(x) + 1) /\ \A j \in 1..Len(x) : j \in 1..(Len(x) + 1)
    BY <2>1
  <2> QED
    BY <2>1, <2>2, <2>3 DEF Asks
<1>2. ASSUME NEW ms \in Seq(Messages), Asks(s, type, b) PROVE Asks(s \o ms, type, b)
  <2>1. PICK k \in 1..Len(s) : s[k].type = type /\ s[k].b = b
    BY <1>2 DEF Asks
  <2>2. /\ Len(s) \in Nat /\ Len(ms) \in Nat /\ Len(s \o ms) = Len(s) + Len(ms)
        /\ \A j \in 1..Len(s) : (s \o ms)[j] = s[j]
    BY ConcatProperties
  <2>3. k \in 1..Len(s \o ms) /\ (s \o ms)[k] = s[k]
    BY <2>2
  <2> QED
    BY <2>1, <2>3 DEF Asks
<1>3. ASSUME NEW m \in Messages, m.type = type, m.b = b PROVE Asks(s \o <<m>>, type, b)
  <2>1. <<m>> \in Seq(Messages) /\ Len(<<m>>) = 1 /\ <<m>>[1] = m
    OBVIOUS
  <2> DEFINE t == s \o <<m>>
             z == Len(s) + 1
  <2>2. Len(t) = z /\ z \in Nat \ {0} /\ t[z] = m
    BY <2>1, ConcatProperties
  <2>q. t = s \o <<m>>
    OBVIOUS
  <2> HIDE DEF t, z
  <2>3. z \in 1..Len(t)
    BY <2>2
  <2>4. Asks(t, type, b)
    BY <1>3, <2>2, <2>3 DEF Asks
  <2> QED
    BY <2>4, <2>q
<1>4. ASSUME s # <<>>
      PROVE  /\ Asks(Tail(s), type, b) => Asks(s, type, b)
             /\ Asks(s, type, b) => Asks(Tail(s), type, b) \/ (Head(s).type = type /\ Head(s).b = b)
             /\ Head(s).type = type /\ Head(s).b = b => Asks(s, type, b)
  <2> DEFINE t == Tail(s)
             z == Len(s)
  <2>1. z \in Nat \ {0} /\ Len(t) = z - 1 /\ Head(s) = s[1] /\ \A j \in 1..(z - 1) : t[j] = s[j + 1]
    BY <1>4, Tails
  <2>s. Asks(s, type, b) <=> \E k \in 1..z : s[k].type = type /\ s[k].b = b
    BY DEF Asks
  <2>t. Asks(Tail(s), type, b) <=> \E k \in 1..(z - 1) : t[k].type = type /\ t[k].b = b
    BY <2>1 DEF Asks
  <2> HIDE DEF t, z
  <2>2. \A j \in 1..(z - 1) : j + 1 \in 1..z
    BY <2>1
  <2>3. \A j \in 1..z : j = 1 \/ (j - 1 \in 1..(z - 1) /\ (j - 1) + 1 = j)
    BY <2>1
  <2>4. 1 \in 1..z
    BY <2>1
  <2>5. Asks(Tail(s), type, b) => Asks(s, type, b)
    BY <2>1, <2>2, <2>s, <2>t
  <2>6. ASSUME NEW k \in 1..z, s[k].type = type, s[k].b = b
        PROVE  Asks(Tail(s), type, b) \/ (Head(s).type = type /\ Head(s).b = b)
    BY <2>1, <2>3, <2>6, <2>t
  <2>7. Head(s).type = type /\ Head(s).b = b => Asks(s, type, b)
    BY <2>1, <2>4, <2>s
  <2> QED
    BY <2>5, <2>6, <2>7, <2>s
<1>5. ASSUME NEW n \in 0..Len(s), NEW m \in Messages, Asks(Append(SubSeq(s, 1, n), m), type, b)
      PROVE  Asks(s, type, b) \/ (m.type = type /\ m.b = b)
  <2> DEFINE x == SubSeq(s, 1, n)
  <2>1. x \in Seq(Messages) /\ Len(x) = n /\ \A j \in 1..n : x[j] = s[j]
    OBVIOUS
  <2>2. \A j \in 1..n : j \in 1..Len(s)
    OBVIOUS
  <2>3. Asks(Append(x, m), type, b)
    BY <1>5
  <2> HIDE DEF x
  <2>4. Asks(x, type, b) \/ (m.type = type /\ m.b = b)
    BY <1>1, <2>1, <2>3
  <2>5. Asks(x, type, b) => Asks(s, type, b)
    BY <2>1, <2>2 DEF Asks
  <2> QED
    BY <2>4, <2>5
<1>6. ~Asks(<<>>, type, b)
  BY DEF Asks
<1> QED
  BY <1>1, <1>2, <1>3, <1>4, <1>5, <1>6

\* The instance keeps its connection open while it has a local socket.
LEMMA HostsKept ==
  ASSUME Hosts,
         \A b \in Browsers : local'[b].mapped =>
           /\ local[b].mapped /\ local'[b].host = local[b].host
           /\ instance'[local[b].host].relay = instance[local[b].host].relay
           /\ conn[instance[local[b].host].relay].app = "open" => conn'[instance[local[b].host].relay].app = "open"
  PROVE  Hosts'
BY DEF Hosts

\* No new question is asked, and browsers only leave.
NoneAsked(c) == \A b \in Browsers, type \in {"open", "close"} : Asks(conn'[c].down, type, b) => Asks(conn[c].down, type, b)
EntryKept(b) ==
  /\ browser'[b].entered => browser[b].entered
  /\ browser'[b].socket = "none" => browser[b].socket = "none"
  /\ browser[b].socket = "closed" => browser'[b].socket = "closed"

LEMMA AskedKept ==
  ASSUME Asked, UNCHANGED <<agent, unpurged>>, \A c \in Conns : NoneAsked(c), \A b \in Browsers : EntryKept(b)
  PROVE  Asked'
BY DEF Asked, NoneAsked, EntryKept

Links == Hosts /\ Asked /\ Reached

LEMMA EnteredHasAgent ==
  ASSUME LinkInv, Asked, NEW b \in Browsers, browser[b].entered, ~unpurged
  PROVE  agent \in Conns
BY AgentIs DEF Asked

LEMMA SameLine ==
  ASSUME NEW c \in Conns, conn'[c] = conn[c]
  PROVE  NoneAsked(c)
BY DEF NoneAsked

LEMMA EmptyLine ==
  ASSUME NEW c \in Conns, conn'[c].down = <<>> \/ conn'[c].down = conn[c].down
  PROVE  NoneAsked(c)
BY DEF NoneAsked, Asks

\* A connection ends at the hub.
LEMMA EndedEmpty ==
  ASSUME NEW r, LineOK(r)
  PROVE  LET n == Tidied([r EXCEPT !.hub = "closed", !.up = <<>>])
         IN  n.down \in {r.down, <<>>} /\ n.hub = "closed" /\ (r.app = "open" => n.app = "open")
<1>1. r \in LineStates
  BY DEF LineOK
<1> QED
  BY <1>1 DEF Tidied, Closed, LineStates

LEMMA PurgedEntries ==
  ASSUME LinkInv, NEW bs, bs = Purged(browser), NEW b \in Browsers
  PROVE  /\ ~bs[b].entered /\ (bs[b].socket = "none" => browser[b].socket = "none")
         /\ (browser[b].socket = "closed" => bs[b].socket = "closed") /\ (bs[b].socket = "open" => browser[b].socket = "open")
<1>1. browser \in [Browsers -> BrowserStates]
  BY DEF LinkInv, LinkTypes, HubTyped
<1>2. ~bs[b].entered /\ (bs[b].socket = browser[b].socket \/ (bs[b].socket = "closing" /\ browser[b].socket = "open"))
  BY <1>1, PurgedTyped
<1> QED
  BY <1>2

LEMMA AttachLinks ==
  ASSUME LinkInv, Links, NEW c \in Conns, Attach(c)
  PROVE  Links'
<1>v. conn[c].hub = "verifying" /\ LineOK(conn[c]) /\ conn[c] \in LineStates
  BY LineIs DEF Attach
<1>1. CASE /\ conn[c].up # <<>>
           /\ conn' = Tidy([conn EXCEPT ![c].hub = "closed", ![c].up = <<>>])
           /\ UNCHANGED <<hubVars, appVars, typed, events>>
  <2>1. /\ conn'[c] = Tidied([conn[c] EXCEPT !.hub = "closed", !.up = <<>>])
        /\ \A d \in Conns \ {c} : conn'[d] = conn[d]
    BY <1>1, <1>v, RefusesKeeps
  <2>2. conn'[c].down \in {conn[c].down, <<>>} /\ (conn[c].app = "open" => conn'[c].app = "open")
    BY <1>v, <2>1, EndedEmpty
  <2>3. agent # NoConn => agent \in Conns \ {c}
    BY <1>v, AgentIs
  <2>4. Hosts'
    <3>1. \A b \in Browsers : local[b].mapped => instance[local[b].host].relay \in Conns
      BY DEF LinkInv, LinkTypes, Hosted, Links, Hosts, InstanceStates
    <3> QED
      BY <1>1, <2>1, <2>2, <3>1, HostsKept DEF Links, appVars
  <2>5. Asked'
    <3>1. \A d \in Conns : NoneAsked(d)
      BY <2>1, <2>2, SameLine, EmptyLine
    <3>2. UNCHANGED <<agent, unpurged>> /\ \A b \in Browsers : EntryKept(b)
      BY <1>1 DEF hubVars, EntryKept
    <3> QED
      BY <3>1, <3>2, AskedKept DEF Links
  <2>6. Reached'
    <3>1. UNCHANGED <<agent, unpurged, browser, local>>
      BY <1>1 DEF hubVars, appVars
    <3>2. \A b \in Browsers : browser[b].entered /\ ~unpurged => conn'[agent] = conn[agent]
      BY <2>1, <2>3, EnteredHasAgent, NoNumber DEF Links
    <3> QED
      BY <3>1, <3>2 DEF Links, Reached, HasLocal
  <2> QED
    BY <2>4, <2>5, <2>6 DEF Links
<1>2. CASE conn'[c].hub # "closed"
  <2>1. /\ conn'[c] = [conn[c] EXCEPT !.hub = "open", !.down = IF conn[c].cut THEN @ ELSE Append(@, Frame("accepted"))]
        /\ Replaces => agent # c /\ agent \in Conns /\
             conn'[agent] = [conn[agent] EXCEPT !.hub = "closing", !.down = IF conn[agent].cut THEN @ ELSE Append(@, Frame("replaced"))]
        /\ \A d \in Conns \ {c} : d # agent \/ ~Replaces => conn'[d] = conn[d]
        /\ browser' = IF Replaces THEN Purged(browser) ELSE browser
        /\ agent' = c
        /\ unpurged' = (unpurged \/ (agent # NoConn /\ ~Replaces))
        /\ UNCHANGED <<instance, local>>
    BY <1>2, AttachedEffect DEF appVars
  <2>2. /\ conn'[c].app = conn[c].app /\ conn'[c].down \in {conn[c].down, Append(conn[c].down, Frame("accepted"))}
        /\ Replaces => conn'[agent].app = conn[agent].app
                       /\ conn'[agent].down \in {conn[agent].down, Append(conn[agent].down, Frame("replaced"))}
    BY <1>v, <2>1, LineIs DEF LineStates
  <2>3. Hosts'
    <3>1. \A b \in Browsers : local[b].mapped => instance[local[b].host].relay \in Conns
      BY DEF LinkInv, LinkTypes, Hosted, Links, Hosts, InstanceStates
    <3>2. \A d \in Conns : conn'[d].app = conn[d].app
      BY <2>1, <2>2
    <3> QED
      BY <2>1, <3>1, <3>2, HostsKept DEF Links
  <2>4. \A d \in Conns : NoneAsked(d)
    <3>1. Frame("accepted") \in Messages /\ Frame("replaced") \in Messages
      BY FramesAreMessages DEF FrameTypes, Bye
    <3>2. ASSUME NEW d \in Conns, NEW m \in Messages, m.type \notin {"open", "close"}, conn'[d].down \in {conn[d].down, Append(conn[d].down, m)}
          PROVE  NoneAsked(d)
      <4>1. conn[d].down \in Seq(Messages)
        BY LineIs DEF LineStates
      <4> QED
        <5>1. \A type \in {"open", "close"}, b \in Browsers :
                Asks(Append(conn[d].down, m), type, b) => Asks(conn[d].down, type, b)
          BY <3>2, <4>1, AsksEffect
        <5> QED
          BY <3>2, <5>1 DEF NoneAsked
    <3>3. Frame("accepted").type = "accepted" /\ Frame("replaced").type = "replaced"
      BY DEF Frame, M
    <3>4. NoneAsked(c) /\ (Replaces => NoneAsked(agent))
      BY <2>1, <2>2, <3>1, <3>2, <3>3
    <3> QED
      BY <2>1, <3>4, SameLine
  <2>5. \A b \in Browsers : /\ EntryKept(b) /\ (browser'[b].entered => browser[b].entered /\ ~Replaces)
    BY <2>1, PurgedEntries DEF EntryKept
  <2>6. \A b \in Browsers : browser'[b].entered => unpurged'
    <3> SUFFICES ASSUME NEW b \in Browsers, browser'[b].entered, ~unpurged PROVE agent # NoConn /\ ~Replaces
      BY <2>1
    <3> QED
      BY <2>5, AgentIs, EnteredHasAgent, NoNumber DEF Links
  <2>7. Asked'
    BY <2>4, <2>5, <2>6 DEF Links, Asked, NoneAsked, EntryKept
  <2>8. Reached'
    BY <2>6 DEF Reached
  <2> QED
    BY <2>3, <2>7, <2>8 DEF Links
<1> QED
  BY <1>1, <1>2, AttachTakes

LEMMA HubClosedLinks ==
  ASSUME LinkInv, Links, NEW c \in Conns, HubClosed(c)
  PROVE  Links'
<1>1. /\ conn'[c] = Tidied([conn[c] EXCEPT !.hub = "closed", !.up = <<>>])
      /\ \A d \in Conns \ {c} : conn'[d] = conn[d]
  BY HubClosedKeeps
<1>2. conn'[c].down \in {conn[c].down, <<>>} /\ (conn[c].app = "open" => conn'[c].app = "open")
  BY <1>1, LineIs, EndedEmpty
<1>3. UNCHANGED <<instance, local, unpurged>>
  BY DEF HubClosed, appVars
<1>4. Hosts'
  <2>1. \A b \in Browsers : local[b].mapped => instance[local[b].host].relay \in Conns
    BY DEF LinkInv, LinkTypes, Hosted, Links, Hosts, InstanceStates
  <2> QED
    BY <1>1, <1>2, <1>3, <2>1, HostsKept DEF Links
<1>5. \A d \in Conns : NoneAsked(d)
  BY <1>1, <1>2, SameLine, EmptyLine
<1>6. CASE agent = c
  <2>1. browser' = Purged(browser)
    BY <1>6 DEF HubClosed
  <2>2. \A b \in Browsers : EntryKept(b) /\ ~browser'[b].entered
    BY <2>1, PurgedEntries DEF EntryKept
  <2>3. Asked' /\ Reached'
    BY <1>5, <2>2 DEF Links, Asked, Reached, NoneAsked, EntryKept
  <2> QED
    BY <1>4, <2>3 DEF Links
<1>7. CASE agent # c
  <2>1. UNCHANGED <<agent, browser>>
    BY <1>7 DEF HubClosed
  <2>2. Asked'
    BY <1>3, <1>5, <2>1, AskedKept DEF Links, EntryKept
  <2>3. Reached'
    BY <1>1, <1>3, <1>7, <2>1, EnteredHasAgent DEF Links, Reached, HasLocal
  <2> QED
    BY <1>4, <2>2, <2>3 DEF Links
<1> QED
  BY <1>6, <1>7

LEMMA ChunkTimeoutLinks ==
  ASSUME LinkInv, Links, NEW b \in Browsers, ChunkTimeout(b)
  PROVE  Links'
<1>1. UNCHANGED <<agent, unpurged, conn, instance, local>>
  BY DEF ChunkTimeout, appVars
<1>2. /\ \A x \in Browsers \ {b} : browser'[x] = browser[x]
      /\ browser[b].socket = "open" /\ browser'[b].socket = "closing" /\ browser'[b].entered = browser[b].entered
  BY DEF ChunkTimeout, LinkInv, LinkTypes, HubTyped, BrowserStates
<1>3. \A x \in Browsers : EntryKept(x) /\ (browser'[x].socket = "open" => browser[x].socket = "open")
  BY <1>2 DEF EntryKept
<1>4. Asked'
  BY <1>1, <1>3, SameLine, AskedKept DEF Links
<1>5. Hosts' /\ Reached'
  BY <1>1, <1>3 DEF Links, Hosts, Reached, HasLocal, EntryKept
<1> QED
  BY <1>4, <1>5 DEF Links

LEMMA FromAgentLinks ==
  ASSUME LinkInv, Links, NEW c \in Conns, FromAgent(c)
  PROVE  Links'
<1> DEFINE m == Head(conn[c].up)
<1>1. /\ conn[c].hub \in {"open", "closing"} /\ conn[c].up \in Seq(Messages) /\ conn[c].up # <<>>
      /\ conn'[c] = [conn[c] EXCEPT !.up = Tail(@), !.hub = IF Head(conn[c].up).type = Bye THEN "ended" ELSE @]
      /\ \A d \in Conns \ {c} : conn'[d] = conn[d]
  BY HeardEffect
<1>2. UNCHANGED <<agent, unpurged, instance, local>>
  BY DEF FromAgent, appVars
<1>3. /\ conn'[c].app = conn[c].app /\ conn'[c].of = conn[c].of /\ conn'[c].down = conn[c].down
      /\ conn'[c].cut = conn[c].cut /\ conn'[c].up = Tail(conn[c].up) /\ conn'[c].hub \in {conn[c].hub, "ended"}
  BY <1>1, LineIs DEF LineStates
<1>m. m \in Messages /\ HubTyped
  BY <1>1, Tails DEF LinkInv, LinkTypes
<1>4. Hosts'
  <2>1. \A b \in Browsers : local[b].mapped => instance[local[b].host].relay \in Conns
    BY DEF LinkInv, LinkTypes, Hosted, Links, Hosts, InstanceStates
  <2> QED
    BY ZenonT(60), <1>1, <1>2, <1>3, <2>1, HostsKept DEF Links
<1>5. \A d \in Conns : NoneAsked(d)
  BY <1>1, <1>3, SameLine, EmptyLine
<1>6. \A b \in Browsers : /\ EntryKept(b)
                          /\ browser'[b].socket = "open" => browser[b].socket = "open" /\ ~(m.type = "close" /\ m.b = b /\ browser[b].entered)
  <2>1. CASE UNCHANGED browser /\ ~(m.type = "close" /\ m.b \in Browsers /\ browser[m.b].entered)
    BY <2>1 DEF EntryKept
  <2>2. CASE m.type = "chunk" /\ Chunk(m)
    <3>1. m.b \in Browsers
      BY <1>m, <2>2 DEF Messages
    <3>2. \A b \in Browsers : browser'[b].entered = browser[b].entered /\ browser'[b].socket = browser[b].socket
      <4> DEFINE a == m.b
      <4>1. \E x : browser' = [browser EXCEPT ![a].chunks = x]
        BY <2>2 DEF Chunk
      <4>2. a \in Browsers
        BY <3>1
      <4> HIDE DEF a
      <4> QED
        BY <1>m, <4>1, <4>2 DEF HubTyped, BrowserStates
    <3> QED
      BY <2>2, <3>2 DEF EntryKept
  <2>3. CASE /\ m.type = "close" /\ m.b \in Browsers
             /\ browser' = [browser EXCEPT ![m.b].socket = IF @ = "open" THEN "closing" ELSE @]
    <3> DEFINE a == m.b
               s == IF browser[a].socket = "open" THEN "closing" ELSE browser[a].socket
    <3>1. a \in Browsers /\ browser' = [browser EXCEPT ![a].socket = s]
      BY <1>m, <2>3 DEF HubTyped
    <3>2. s # "open" /\ (s = "none" => browser[a].socket = "none") /\ (browser[a].socket = "closed" => s = "closed")
      OBVIOUS
    <3>q. \A b : m.b = b <=> a = b
      OBVIOUS
    <3> HIDE DEF a, s, m
    <3>3. /\ \A b \in Browsers \ {a} : browser'[b] = browser[b]
          /\ browser'[a].socket = s /\ browser'[a].entered = browser[a].entered
      BY <1>m, <3>1 DEF HubTyped, BrowserStates
    <3> QED
      BY <3>2, <3>3, <3>q DEF EntryKept
  <2> QED
    BY <2>1, <2>2, <2>3 DEF FromAgent, TellsState, Bye
<1>7. Asked'
  BY <1>2, <1>5, <1>6, AskedKept DEF Links
<1>8. Reached'
  <2> SUFFICES ASSUME NEW b \in Browsers, browser'[b].entered, ~unpurged, browser'[b].socket = "open", Usable(conn'[agent])
               PROVE  HasLocal(b)'
    BY <1>2 DEF Reached
  <2>1. browser[b].entered /\ browser[b].socket = "open" /\ ~(m.type = "close" /\ m.b = b)
    BY <1>6 DEF EntryKept
  <2>2. agent \in Conns
    BY <2>1, EnteredHasAgent DEF Links
  <2>3. CASE agent # c
    BY <1>1, <1>2, <2>1, <2>2, <2>3 DEF Links, Reached, HasLocal
  <2>4. CASE agent = c
    <3>1. HasLocal(b)
      BY <1>1, <1>3, <2>1, <2>4 DEF Links, Reached, Usable
    <3> HIDE DEF m
    <3>2. Asks(conn[c].up, "close", b) => Asks(Tail(conn[c].up), "close", b) \/ (m.type = "close" /\ m.b = b)
      BY <1>1, AsksEffect DEF m
    <3> QED
      BY <1>2, <1>3, <2>1, <2>4, <3>1, <3>2 DEF HasLocal
  <2> QED
    BY <2>3, <2>4
<1> QED
  BY <1>4, <1>7, <1>8 DEF Links

\* The hub sends the agent something.
LEMMA HubTellsLinks ==
  ASSUME LinkInv, Links, NEW m \in Messages, m.type # "replaced", conn' = Down(conn, agent, m),
         UNCHANGED <<agent, instance, late, local>>
  PROVE  /\ Hosts'
         /\ \A c \in Conns : conn'[c].hub = conn[c].hub /\ conn'[c].app = conn[c].app /\ conn'[c].cut = conn[c].cut
                             /\ conn'[c].up = conn[c].up /\ conn'[c].of = conn[c].of
         /\ \A c \in Conns, type \in {"open", "close"}, b \in Browsers :
              /\ Asks(conn[c].down, type, b) => Asks(conn'[c].down, type, b)
              /\ Asks(conn'[c].down, type, b) => \/ Asks(conn[c].down, type, b)
                                                 \/ c = agent /\ m.type = type /\ m.b = b
              /\ c = agent /\ Usable(conn[c]) /\ m.type = type /\ m.b = b => Asks(conn'[c].down, type, b)
<1>1. \A c \in Conns : conn'[c] = IF c = agent /\ conn[c].hub = "open" /\ ~conn[c].cut
                                  THEN [conn[c] EXCEPT !.down = Append(@, m)] ELSE conn[c]
  BY HubTells
<1>2. \A c \in Conns : /\ conn'[c].app = conn[c].app /\ conn'[c].hub = conn[c].hub /\ conn'[c].cut = conn[c].cut
                       /\ conn'[c].up = conn[c].up /\ conn'[c].of = conn[c].of
                       /\ conn'[c].down = IF c = agent /\ conn[c].hub = "open" /\ ~conn[c].cut
                                          THEN Append(conn[c].down, m) ELSE conn[c].down
  BY <1>1, LineIs DEF LineStates
<1>3. \A c \in Conns : conn[c].down \in Seq(Messages)
  BY LineIs DEF LineStates
<1>4. Hosts'
  <2>1. \A b \in Browsers : local[b].mapped => instance[local[b].host].relay \in Conns
    BY DEF LinkInv, LinkTypes, Hosted, Links, Hosts, InstanceStates
  <2> QED
    BY <1>2, <2>1, HostsKept DEF Links
<1>5. ASSUME NEW c \in Conns, NEW type \in {"open", "close"}, NEW b \in Browsers
      PROVE  /\ Asks(conn[c].down, type, b) => Asks(conn'[c].down, type, b)
             /\ Asks(conn'[c].down, type, b) => \/ Asks(conn[c].down, type, b)
                                                \/ c = agent /\ m.type = type /\ m.b = b
             /\ c = agent /\ Usable(conn[c]) /\ m.type = type /\ m.b = b => Asks(conn'[c].down, type, b)
  <2>1. Asks(Append(conn[c].down, m), type, b) <=> Asks(conn[c].down, type, b) \/ (m.type = type /\ m.b = b)
    BY <1>3, AsksEffect
  <2> QED
    BY <1>2, <2>1 DEF Usable
<1> QED
  BY <1>2, <1>4, <1>5

LEMMA BrowserOpensLinks ==
  ASSUME LinkInv, Links, NEW b \in Browsers, BrowserOpens(b)
  PROVE  Links'
<1> DEFINE m == M("open", b, 0, 0)
<1>1. m \in Messages /\ m.type = "open" /\ m.b = b
  BY BrowserFrames DEF M
<1>2. conn' = Down(conn, agent, m) /\ UNCHANGED <<agent, instance, late, local, unpurged>>
  BY DEF BrowserOpens, appVars
<1> HIDE DEF m
<1>3. /\ Hosts'
      /\ \A c \in Conns : conn'[c].hub = conn[c].hub /\ conn'[c].app = conn[c].app /\ conn'[c].cut = conn[c].cut
                          /\ conn'[c].up = conn[c].up /\ conn'[c].of = conn[c].of
      /\ \A c \in Conns, type \in {"open", "close"}, x \in Browsers :
           /\ Asks(conn[c].down, type, x) => Asks(conn'[c].down, type, x)
           /\ Asks(conn'[c].down, type, x) => \/ Asks(conn[c].down, type, x)
                                              \/ c = agent /\ m.type = type /\ m.b = x
           /\ c = agent /\ Usable(conn[c]) /\ m.type = type /\ m.b = x => Asks(conn'[c].down, type, x)
  BY <1>1, <1>2, HubTellsLinks
<1>4. /\ browser[b].socket = "none" /\ agent # NoConn /\ agent \in Conns
      /\ browser'[b].entered /\ browser'[b].socket = "open" /\ \A x \in Browsers \ {b} : browser'[x] = browser[x]
  BY AgentIs DEF BrowserOpens, LinkInv, LinkTypes, HubTyped
<1>5. Asked'
  <2> SUFFICES ASSUME NEW x \in Browsers
               PROVE  /\ browser'[x].socket = "none" => ~browser'[x].entered /\ \A c \in Conns : ~Asks(conn'[c].down, "open", x)
                      /\ \A c \in Conns : Asks(conn'[c].down, "close", x) => ~browser'[x].entered /\ browser'[x].socket = "closed"
                      /\ browser'[x].entered /\ ~unpurged =>
                           agent # NoConn /\ \A c \in Conns : Asks(conn'[c].down, "open", x) => c = agent
    BY <1>2 DEF Asked
  <2>1. /\ browser[x].socket = "none" => ~browser[x].entered /\ \A c \in Conns : ~Asks(conn[c].down, "open", x)
        /\ \A c \in Conns : Asks(conn[c].down, "close", x) => ~browser[x].entered /\ browser[x].socket = "closed"
        /\ browser[x].entered /\ ~unpurged =>
             agent # NoConn /\ \A c \in Conns : Asks(conn[c].down, "open", x) => c = agent
    BY DEF Links, Asked
  <2>2. \A c \in Conns : /\ Asks(conn'[c].down, "open", x) => Asks(conn[c].down, "open", x) \/ (c = agent /\ x = b)
                         /\ Asks(conn'[c].down, "close", x) => Asks(conn[c].down, "close", x)
    BY <1>1, <1>3
  <2>3. CASE x = b
    BY <1>4, <2>1, <2>2, <2>3
  <2>4. CASE x # b
    BY <1>4, <2>1, <2>2, <2>4
  <2> QED
    BY <2>3, <2>4
<1>6. Reached'
  <2> SUFFICES ASSUME NEW x \in Browsers, browser'[x].entered, ~unpurged, browser'[x].socket = "open", Usable(conn'[agent])
               PROVE  HasLocal(x)'
    BY <1>2 DEF Reached
  <2>1. Usable(conn[agent])
    BY <1>3, <1>4 DEF Usable
  <2>2. CASE x = b
    BY <1>1, <1>2, <1>3, <1>4, <2>1, <2>2 DEF HasLocal
  <2>3. CASE x # b
    BY <1>2, <1>3, <1>4, <2>1, <2>3 DEF Links, Reached, HasLocal
  <2> QED
    BY <2>2, <2>3
<1> QED
  BY <1>3, <1>5, <1>6 DEF Links

\* What the hub sends otherwise opens nothing.
LEMMA HubSpeaksLinks ==
  ASSUME LinkInv, Links, NEW m \in Messages, m.type \in {"message", "command", "close"}, conn' = Down(conn, agent, m),
         UNCHANGED <<agent, instance, late, local, unpurged>>,
         m.type # "close" => UNCHANGED browser,
         m.type = "close" => /\ m.b \in Browsers /\ ~browser'[m.b].entered /\ browser'[m.b].socket = "closed"
                             /\ \A x \in Browsers \ {m.b} : browser'[x] = browser[x]
  PROVE  Links'
<1>1. m.type # "replaced"
  OBVIOUS
<1>2. UNCHANGED <<agent, instance, late, local>>
  OBVIOUS
<1>3. /\ Hosts'
      /\ \A c \in Conns : conn'[c].hub = conn[c].hub /\ conn'[c].app = conn[c].app /\ conn'[c].cut = conn[c].cut
                          /\ conn'[c].up = conn[c].up /\ conn'[c].of = conn[c].of
      /\ \A c \in Conns, type \in {"open", "close"}, x \in Browsers :
           /\ Asks(conn[c].down, type, x) => Asks(conn'[c].down, type, x)
           /\ Asks(conn'[c].down, type, x) => \/ Asks(conn[c].down, type, x)
                                              \/ c = agent /\ m.type = type /\ m.b = x
  BY <1>1, <1>2, HubTellsLinks
<1>4. \A x \in Browsers : \/ browser'[x] = browser[x] /\ ~(m.type = "close" /\ m.b = x)
                          \/ ~browser'[x].entered /\ browser'[x].socket = "closed"
  OBVIOUS
<1>5. Asked'
  <2> SUFFICES ASSUME NEW x \in Browsers
               PROVE  /\ browser'[x].socket = "none" => ~browser'[x].entered /\ \A c \in Conns : ~Asks(conn'[c].down, "open", x)
                      /\ \A c \in Conns : Asks(conn'[c].down, "close", x) => ~browser'[x].entered /\ browser'[x].socket = "closed"
                      /\ browser'[x].entered /\ ~unpurged =>
                           agent # NoConn /\ \A c \in Conns : Asks(conn'[c].down, "open", x) => c = agent
    BY <1>2 DEF Asked
  <2>1. /\ browser[x].socket = "none" => ~browser[x].entered /\ \A c \in Conns : ~Asks(conn[c].down, "open", x)
        /\ \A c \in Conns : Asks(conn[c].down, "close", x) => ~browser[x].entered /\ browser[x].socket = "closed"
        /\ browser[x].entered /\ ~unpurged =>
             agent # NoConn /\ \A c \in Conns : Asks(conn[c].down, "open", x) => c = agent
    BY DEF Links, Asked
  <2>2. \A c \in Conns : /\ Asks(conn'[c].down, "open", x) => Asks(conn[c].down, "open", x)
                         /\ Asks(conn'[c].down, "close", x) => Asks(conn[c].down, "close", x) \/ (m.type = "close" /\ m.b = x)
    BY <1>3
  <2> QED
    BY <1>4, <2>1, <2>2
<1>6. Reached'
  <2> SUFFICES ASSUME NEW x \in Browsers, browser'[x].entered, ~unpurged, browser'[x].socket = "open", Usable(conn'[agent])
               PROVE  HasLocal(x)'
    BY <1>2 DEF Reached
  <2>1. browser'[x] = browser[x]
    BY <1>4
  <2>2. agent \in Conns
    BY <2>1, EnteredHasAgent DEF Links
  <2>3. Usable(conn[agent])
    BY <1>3, <2>2 DEF Usable
  <2>4. HasLocal(x)
    BY <2>1, <2>3 DEF Links, Reached
  <2> QED
    BY <1>2, <1>3, <2>2, <2>4 DEF HasLocal
<1> QED
  BY <1>3, <1>5, <1>6 DEF Links

LEMMA CutLinks ==
  ASSUME LinkInv, Links, NEW c \in Conns, Cut(c)
  PROVE  Links'
<1>1. \A d \in Conns \ {c} : conn'[d] = conn[d]
  BY CutEffect
<1>2. PICK k \in 0..Len(conn[c].up), l \in 0..Len(conn[c].down) :
        conn'[c] = [conn[c] EXCEPT !.cut = TRUE, !.up = Append(SubSeq(@, 1, k), Frame(Bye)),
                                   !.down = Append(SubSeq(@, 1, l), Frame(Bye))]
  BY CutEffect
<1>3. conn[c] \in LineStates /\ conn[c].down \in Seq(Messages)
  BY LineIs DEF LineStates
<1>4. conn'[c].cut /\ conn'[c].app = conn[c].app /\ conn'[c].down = Append(SubSeq(conn[c].down, 1, l), Frame(Bye))
  BY <1>2, <1>3 DEF LineStates
<1>5. UNCHANGED <<agent, unpurged, browser, instance, local>>
  BY DEF Cut, hubVars, appVars
<1>6. Hosts'
  <2>1. \A b \in Browsers : local[b].mapped => instance[local[b].host].relay \in Conns
    BY DEF LinkInv, LinkTypes, Hosted, Links, Hosts, InstanceStates
  <2> QED
    BY <1>1, <1>4, <1>5, <2>1, HostsKept DEF Links
<1>7. NoneAsked(c)
  <2> SUFFICES ASSUME NEW b \in Browsers, NEW type \in {"open", "close"}, Asks(conn'[c].down, type, b)
               PROVE  Asks(conn[c].down, type, b)
    BY DEF NoneAsked
  <2> DEFINE m == Frame(Bye)
  <2>1. m \in Messages /\ m.type # type
    BY FramesAreMessages DEF FrameTypes, Bye
  <2>2. Asks(Append(SubSeq(conn[c].down, 1, l), m), type, b)
    BY <1>4
  <2> HIDE DEF m
  <2> QED
    BY <1>3, <2>1, <2>2, AsksEffect
<1>8. Asked'
  BY <1>1, <1>5, <1>7, SameLine, AskedKept DEF Links, EntryKept
<1>9. Reached'
  <2>1. \A b \in Browsers : browser[b].entered /\ ~unpurged /\ Usable(conn'[agent]) => conn'[agent] = conn[agent]
    BY <1>1, <1>4, EnteredHasAgent DEF Links, Usable
  <2> QED
    BY <1>5, <2>1 DEF Links, Reached, HasLocal
<1> QED
  BY <1>6, <1>8, <1>9 DEF Links

-----------------------------------------------------------------------------

\* An instance loses its connection, and its local sockets if it has any.
LEMMA LeavesLinks ==
  ASSUME LinkInv, Links, NEW i \in Instances, instance[i].relay # NoConn,
         conn' = AppClosed(conn, instance[i].relay), UNCHANGED <<agent, unpurged, browser>>,
         \A x \in Instances \ {i} : instance'[x] = instance[x],
         \A b \in Browsers : /\ local[b].mapped /\ local[b].host = i => ~local'[b].mapped
                             /\ local[b].mapped /\ local[b].host # i => local'[b] = local[b]
                             /\ ~local[b].mapped => ~local'[b].mapped
  PROVE  Links'
<1> DEFINE c == instance[i].relay
<1>1. c \in Conns /\ conn[c].app # "closed" /\ conn[c].of = i /\ LinesOK(conn)
  BY DEF LinkInv, LinkTypes, InstanceStates, Owners
<1>2. /\ conn'[c].app = "closed" /\ (\A d \in Conns \ {c} : conn'[d] = conn[d])
      /\ conn'[c] = Tidied([conn[c] EXCEPT !.app = "closed", !.down = <<>>, !.up = IF conn[c].cut THEN @ ELSE Append(@, Frame(Bye))])
  <2>1. conn' = AppClosed(conn, c)
    OBVIOUS
  <2> HIDE DEF c
  <2>2. /\ AppClosed(conn, c)[c] =
             Tidied([conn[c] EXCEPT !.app = "closed", !.down = <<>>, !.up = IF conn[c].cut THEN @ ELSE Append(@, Frame(Bye))])
        /\ AppClosed(conn, c)[c].app = "closed"
        /\ \A d \in Conns \ {c} : AppClosed(conn, c)[d] = conn[d]
    BY <1>1, AppClosedEffect
  <2> QED
    BY <2>1, <2>2
<1>3. conn'[c].down = <<>>
  <2> DEFINE x == [conn[c] EXCEPT !.app = "closed", !.down = <<>>, !.up = IF conn[c].cut THEN @ ELSE Append(@, Frame(Bye))]
  <2>1. x.down = <<>> /\ conn'[c] = Tidied(x)
    BY <1>1, <1>2, LineIs DEF LineStates
  <2> HIDE DEF x
  <2> QED
    BY <2>1 DEF Tidied, Closed
<1>4. Hosts'
  <2> SUFFICES ASSUME NEW b \in Browsers, local'[b].mapped
               PROVE  instance'[local'[b].host].relay # NoConn /\ conn'[instance'[local'[b].host].relay].app = "open"
    BY DEF Hosts
  <2>1. local'[b] = local[b] /\ local[b].mapped /\ local[b].host # i /\ local[b].host \in Instances
    BY DEF LinkInv, LinkTypes, Hosted
  <2> DEFINE h == local[b].host
  <2>2. instance'[h] = instance[h] /\ instance[h].relay # NoConn /\ conn[instance[h].relay].app = "open"
    BY <2>1 DEF Links, Hosts
  <2>3. instance[h].relay \in Conns \ {c}
    BY <1>1, <2>1, <2>2 DEF LinkInv, LinkTypes, InstanceStates, Owners
  <2> QED
    BY <1>2, <2>1, <2>2, <2>3
<1>5. Asked'
  BY <1>2, <1>3, SameLine, EmptyLine, AskedKept DEF Links, EntryKept
<1>6. Reached'
  <2> SUFFICES ASSUME NEW b \in Browsers, browser[b].entered, ~unpurged, browser[b].socket = "open", Usable(conn'[agent])
               PROVE  HasLocal(b)'
    BY DEF Reached
  <2>1. agent \in Conns \ {c} /\ conn'[agent] = conn[agent]
    BY <1>2, EnteredHasAgent DEF Links, Usable
  <2>2. HasLocal(b)
    BY <2>1 DEF Links, Reached
  <2>3. conn[agent].of # i
    BY <1>1, <2>1 DEF LinkInv, Owners, Usable
  <2> QED
    BY <2>1, <2>2, <2>3 DEF HasLocal
<1> QED
  BY <1>4, <1>5, <1>6 DEF Links

LEMMA DropIs ==
  ASSUME LinkInv, NEW i \in Instances, local' = Drop(local, i), NEW b \in Browsers
  PROVE  /\ local[b].mapped /\ local[b].host = i => ~local'[b].mapped
         /\ ~(local[b].mapped /\ local[b].host = i) => local'[b] = local[b]
<1>1. local[b] \in LocalStates
  BY DEF LinkInv, LinkTypes, AppTyped
<1> QED
  BY <1>1 DEF Drop, LocalStates

LEMMA HandshakeTimesOutLinks ==
  ASSUME LinkInv, Links, NEW i \in Instances, HandshakeTimesOut(i)
  PROVE  Links'
<1>1. /\ instance[i].relay # NoConn /\ conn' = AppClosed(conn, instance[i].relay)
      /\ UNCHANGED <<agent, unpurged, browser, local>> /\ conn[instance[i].relay].app = "connecting"
      /\ instance' = [instance EXCEPT ![i] = AfterClose(i, FALSE)]
  BY DEF HandshakeTimesOut, hubVars
<1>2. \A x \in Instances \ {i} : instance'[x] = instance[x]
  BY <1>1 DEF LinkInv, LinkTypes
<1>3. \A b \in Browsers : local[b].mapped => local[b].host # i
  BY <1>1 DEF Links, Hosts
<1> QED
  BY <1>1, <1>2, <1>3, LeavesLinks

LEMMA QuitLinks ==
  ASSUME LinkInv, Links, NEW i \in Instances, Quit(i)
  PROVE  Links'
<1>1. /\ instance' = [instance EXCEPT ![i] = NewInstance] /\ local' = Drop(local, i)
      /\ conn' = IF instance[i].relay = NoConn THEN conn ELSE AppClosed(conn, instance[i].relay)
      /\ UNCHANGED <<agent, unpurged, browser>>
  BY DEF Quit, hubVars
<1>2. \A x \in Instances \ {i} : instance'[x] = instance[x]
  BY <1>1 DEF LinkInv, LinkTypes
<1>3. \A b \in Browsers : /\ local[b].mapped /\ local[b].host = i => ~local'[b].mapped
                          /\ ~(local[b].mapped /\ local[b].host = i) => local'[b] = local[b]
  BY <1>1, DropIs
<1>4. CASE instance[i].relay # NoConn
  BY <1>1, <1>2, <1>3, <1>4, LeavesLinks
<1>5. CASE instance[i].relay = NoConn
  <2>1. conn' = conn /\ \A b \in Browsers : local[b].mapped => local[b].host # i
    BY <1>1, <1>5 DEF Links, Hosts
  <2>2. \A b \in Browsers : local'[b] = local[b]
    BY <1>3, <2>1
  <2>3. Hosts'
    BY <1>2, <2>1, <2>2 DEF Links, Hosts, LinkInv, LinkTypes, Hosted
  <2>4. Asked' /\ Reached'
    BY <1>1, <2>1, <2>2 DEF Links, Asked, Reached, HasLocal
  <2> QED
    BY <2>3, <2>4 DEF Links
<1> QED
  BY <1>4, <1>5

LEMMA ConnectLinks ==
  ASSUME LinkInv, Links, NEW i \in Instances, Connect(i), instance[i].relay = NoConn, ~instance[i].fired,
         UNCHANGED <<hubVars, local>>
  PROVE  Links'
<1>1. PICK c \in Conns : /\ conn[c] = Closed /\ conn'[c].down = <<>>
                         /\ \A d \in Conns \ {c} : conn'[d] = conn[d]
  BY ConnectEffect DEF hubVars
<1>2. \A x \in Instances \ {i} : instance'[x] = instance[x]
  BY ConnectEffect DEF hubVars
<1>3. conn[c].app = "closed" /\ conn[c].hub = "closed"
  BY <1>1 DEF Closed
<1>4. Hosts'
  <2>1. \A b \in Browsers : local[b].mapped => local[b].host \in Instances \ {i} /\ instance[local[b].host].relay \in Conns \ {c}
    BY <1>3 DEF LinkInv, LinkTypes, Hosted, Links, Hosts, InstanceStates
  <2> QED
    BY <1>1, <1>2, <2>1, HostsKept DEF Links
<1>5. Asked'
  <2>1. UNCHANGED <<agent, unpurged>> /\ \A b \in Browsers : EntryKept(b)
    BY DEF hubVars, EntryKept
  <2>2. \A d \in Conns : NoneAsked(d)
    BY <1>1, SameLine, EmptyLine
  <2> QED
    BY <2>1, <2>2, AskedKept DEF Links
<1>6. Reached'
  <2>1. \A b \in Browsers : browser[b].entered /\ ~unpurged => conn'[agent] = conn[agent]
    BY <1>1, <1>3, AgentIs, EnteredHasAgent, NoNumber DEF Links
  <2> QED
    BY <2>1 DEF Links, Reached, HasLocal, hubVars
<1> QED
  BY <1>4, <1>5, <1>6 DEF Links

-----------------------------------------------------------------------------

\* An instance says something; a local socket that it gives up, it says so.
Closes(ms, b) == \E m \in Messages : ms = <<m>> /\ m.type = "close" /\ m.b = b

LEMMA SaysLinks ==
  ASSUME LinkInv, Links, NEW i \in Instances, NEW ms \in Seq(Messages), conn' = Up(conn, i, ms),
         UNCHANGED <<agent, unpurged, browser>>,
         \A x \in Instances : instance'[x].relay = instance[x].relay,
         \A b \in Browsers : /\ local'[b].mapped => local[b].mapped /\ local'[b].host = local[b].host
                             /\ local[b].mapped => local'[b].mapped \/ (local[b].host = i /\ Closes(ms, b))
  PROVE  Links'
<1>1. \A c \in Conns : conn'[c] = IF c = instance[i].relay /\ conn[c].app = "open" /\ ~conn[c].cut
                                  THEN [conn[c] EXCEPT !.up = @ \o ms] ELSE conn[c]
  <2>1. LinesOK(conn) /\ instance[i].relay \in Conns \cup {NoConn}
    BY DEF LinkInv, LinkTypes, InstanceStates
  <2> QED
    BY <2>1, UpEffect
<1>2. \A c \in Conns : /\ conn'[c].app = conn[c].app /\ conn'[c].hub = conn[c].hub /\ conn'[c].cut = conn[c].cut
                       /\ conn'[c].of = conn[c].of /\ conn'[c].down = conn[c].down
                       /\ conn'[c].up = IF c = instance[i].relay /\ conn[c].app = "open" /\ ~conn[c].cut
                                        THEN conn[c].up \o ms ELSE conn[c].up
  <2> SUFFICES ASSUME NEW c \in Conns
               PROVE  /\ conn'[c].app = conn[c].app /\ conn'[c].hub = conn[c].hub /\ conn'[c].cut = conn[c].cut
                      /\ conn'[c].of = conn[c].of /\ conn'[c].down = conn[c].down
                      /\ conn'[c].up = IF c = instance[i].relay /\ conn[c].app = "open" /\ ~conn[c].cut
                                       THEN conn[c].up \o ms ELSE conn[c].up
    OBVIOUS
  <2> DEFINE u == conn[c].up \o ms
  <2>1. conn'[c] = conn[c] \/ conn'[c] = [conn[c] EXCEPT !.up = u]
    BY <1>1
  <2>2. conn'[c] = IF c = instance[i].relay /\ conn[c].app = "open" /\ ~conn[c].cut
                   THEN [conn[c] EXCEPT !.up = u] ELSE conn[c]
    BY <1>1
  <2>3. conn[c] \in LineStates
    BY LineIs
  <2>4. conn'[c].up = IF c = instance[i].relay /\ conn[c].app = "open" /\ ~conn[c].cut THEN u ELSE conn[c].up
    <3> HIDE DEF u
    <3> QED
      BY <2>2, <2>3 DEF LineStates
  <2>5. /\ conn'[c].app = conn[c].app /\ conn'[c].hub = conn[c].hub /\ conn'[c].cut = conn[c].cut
        /\ conn'[c].of = conn[c].of /\ conn'[c].down = conn[c].down
    <3> HIDE DEF u
    <3> QED
      BY <2>1, <2>3 DEF LineStates
  <2> QED
    BY <2>4, <2>5
<1>3. Hosts'
  <2>1. \A b \in Browsers : local[b].mapped => local[b].host \in Instances /\ instance[local[b].host].relay \in Conns
    BY DEF LinkInv, LinkTypes, Hosted, Links, Hosts, InstanceStates
  <2> QED
    BY <1>2, <2>1, HostsKept DEF Links
<1>4. Asked'
  BY <1>2, EmptyLine, AskedKept DEF Links, EntryKept
<1>5. Reached'
  <2> SUFFICES ASSUME NEW b \in Browsers, browser[b].entered, ~unpurged, browser[b].socket = "open", Usable(conn'[agent])
               PROVE  HasLocal(b)'
    BY DEF Reached
  <2>1. agent \in Conns
    BY EnteredHasAgent DEF Links
  <2>2. Usable(conn[agent])
    BY <1>2, <2>1 DEF Usable
  <2>3. HasLocal(b)
    BY <2>2 DEF Links, Reached
  <2>4. CASE Asks(conn[agent].down, "open", b)
    BY <1>2, <2>1, <2>4 DEF HasLocal
  <2>s. conn[agent].up \in Seq(Messages)
    BY <2>1, LineIs DEF LineStates
  <2>5. CASE Asks(conn[agent].up, "close", b)
    <3>1. Asks(conn[agent].up \o ms, "close", b)
      BY <2>5, <2>s, AsksEffect
    <3> QED
      BY <1>2, <2>1, <2>5, <3>1 DEF HasLocal
  <2>6. CASE local[b].mapped /\ local[b].host = conn[agent].of /\ ~local'[b].mapped
    <3>1. local[b].host = i /\ Closes(ms, b)
      BY <2>6
    <3>2. instance[i].relay = agent /\ conn[agent].app = "open" /\ ~conn[agent].cut
      <4>1. ~conn[agent].cut /\ conn[agent].app # "closed" /\ conn[agent].of = i
        BY <2>2, <2>6, <3>1 DEF Usable
      <4>2. instance[i].relay = agent
        BY <2>1, <4>1 DEF LinkInv, Owners
      <4>3. conn[instance[i].relay].app = "open"
        BY <2>6, <3>1 DEF Links, Hosts
      <4> QED
        BY <4>1, <4>2, <4>3
    <3>3. PICK m \in Messages : ms = <<m>> /\ m.type = "close" /\ m.b = b
      BY <3>1 DEF Closes
    <3>4. Asks(conn[agent].up \o <<m>>, "close", b)
      BY <2>s, <3>3, AsksEffect
    <3> QED
      BY <1>2, <2>1, <3>2, <3>3, <3>4 DEF HasLocal
  <2>7. CASE local[b].mapped /\ local[b].host = conn[agent].of /\ local'[b].mapped
    BY <1>2, <2>1, <2>7 DEF HasLocal
  <2> QED
    BY <2>3, <2>4, <2>5, <2>6, <2>7 DEF HasLocal
<1> QED
  BY <1>3, <1>4, <1>5 DEF Links

\* It takes what comes next from the hub, and may say something: asked to open a
\* local socket it opens one or says that there is none.
LEMMA TakesLinks ==
  ASSUME LinkInv, Links, NEW i \in Instances, NEW c \in Conns, Takes(i, c),
         \A d \in Conns \ {c} : conn'[d] = conn[d],
         conn'[c].of = i, conn'[c].hub = conn[c].hub, conn'[c].cut = conn[c].cut, conn'[c].app = "open",
         conn'[c].down = Tail(conn[c].down),
         \E ms \in Seq(Messages) : conn'[c].up \in {conn[c].up, conn[c].up \o ms},
         UNCHANGED <<agent, unpurged, browser>>,
         \A x \in Instances : instance'[x].relay = instance[x].relay,
         NEW m, m = Head(conn[c].down),
         \A b \in Browsers :
           /\ local'[b].mapped => (local[b].mapped /\ local'[b].host = local[b].host) \/ local'[b].host = i
           /\ local[b].mapped /\ ~(m.type \in {"open", "close"} /\ m.b = b) => local'[b].mapped /\ local'[b].host = local[b].host
           /\ m.type = "open" /\ m.b = b /\ ~conn[c].cut =>
                (local'[b].mapped /\ local'[b].host = i) \/ Asks(conn'[c].up, "close", b)
  PROVE  Links'
<1>0. c = instance[i].relay /\ conn[c].down # <<>>
  BY DEF Takes
<1>1. conn[c].app # "closed" /\ conn[c].of = i /\ conn[c].down \in Seq(Messages) /\ conn[c].up \in Seq(Messages)
  BY TakenEffect, LineIs DEF LineStates
<1>2. \A type, b : /\ Asks(Tail(conn[c].down), type, b) => Asks(conn[c].down, type, b)
                   /\ Asks(conn[c].down, type, b) => Asks(Tail(conn[c].down), type, b) \/ (m.type = type /\ m.b = b)
                   /\ m.type = type /\ m.b = b => Asks(conn[c].down, type, b)
  <2> SUFFICES ASSUME NEW type, NEW b
               PROVE  /\ Asks(Tail(conn[c].down), type, b) => Asks(conn[c].down, type, b)
                      /\ Asks(conn[c].down, type, b) => Asks(Tail(conn[c].down), type, b) \/ (m.type = type /\ m.b = b)
                      /\ m.type = type /\ m.b = b => Asks(conn[c].down, type, b)
    OBVIOUS
  <2> DEFINE s == conn[c].down
  <2>1. s \in Seq(Messages) /\ s # <<>> /\ m = Head(s)
    BY <1>0, <1>1
  <2> HIDE DEF s
  <2>2. /\ Asks(Tail(s), type, b) => Asks(s, type, b)
        /\ Asks(s, type, b) => Asks(Tail(s), type, b) \/ (Head(s).type = type /\ Head(s).b = b)
        /\ Head(s).type = type /\ Head(s).b = b => Asks(s, type, b)
    BY <2>1, AsksEffect
  <2> QED
    BY <2>1, <2>2 DEF s
<1>3. Hosts'
  <2> SUFFICES ASSUME NEW b \in Browsers, local'[b].mapped
               PROVE  instance'[local'[b].host].relay # NoConn /\ conn'[instance'[local'[b].host].relay].app = "open"
    BY DEF Hosts
  <2>1. CASE local'[b].host = i
    <3>1. instance'[local'[b].host].relay = c
      BY <1>0, <2>1
    <3> QED
      BY <3>1, NoNumber
  <2>2. CASE local[b].mapped /\ local'[b].host = local[b].host
    <3>1. local[b].host \in Instances /\ instance[local[b].host].relay \in Conns /\ conn[instance[local[b].host].relay].app = "open"
      BY <2>2 DEF LinkInv, LinkTypes, Hosted, Links, Hosts, InstanceStates
    <3> DEFINE h == instance[local[b].host].relay
    <3>2. instance'[local'[b].host].relay = h
      BY <2>2, <3>1
    <3>3. h \in Conns /\ conn[h].app = "open"
      BY <3>1
    <3> HIDE DEF h
    <3>4. conn'[h].app = "open"
      BY <3>3
    <3> QED
      BY <3>2, <3>3, <3>4, NoNumber
  <2> QED
    BY <2>1, <2>2
<1>4. Asked'
  <2>1. NoneAsked(c)
    BY <1>2 DEF NoneAsked
  <2> QED
    BY <2>1, SameLine, AskedKept DEF Links, EntryKept
<1>5. Reached'
  <2> SUFFICES ASSUME NEW b \in Browsers, browser[b].entered, ~unpurged, browser[b].socket = "open", Usable(conn'[agent])
               PROVE  HasLocal(b)'
    BY DEF Reached
  <2>1. agent \in Conns
    BY EnteredHasAgent DEF Links
  <2>2. Usable(conn[agent])
    BY <1>1, <2>1 DEF Usable
  <2>3. HasLocal(b)
    BY <2>2 DEF Links, Reached
  <2>4. ~(m.type = "close" /\ m.b = b)
    BY <1>2 DEF Links, Asked
  <2>5. CASE m.type = "open" /\ m.b = b
    <3>1. agent = c
      BY <1>2, <2>5 DEF Links, Asked
    <3>2. ~conn[c].cut
      BY <2>2, <3>1 DEF Usable
    <3> QED
      BY <2>5, <3>1, <3>2 DEF HasLocal
  <2>6. CASE ~(m.type = "open" /\ m.b = b)
    <3>1. local[b].mapped => local'[b].mapped /\ local'[b].host = local[b].host
      BY <2>4, <2>6
    <3>2. CASE agent # c
      BY <2>1, <2>3, <3>1, <3>2 DEF HasLocal
    <3>3. CASE agent = c
      <4>1. Asks(conn[c].up, "close", b) => Asks(conn'[c].up, "close", b)
        <5>1. PICK ms \in Seq(Messages) : conn'[c].up \in {conn[c].up, conn[c].up \o ms}
          OBVIOUS
        <5>2. Asks(conn[c].up, "close", b) => Asks(conn[c].up \o ms, "close", b)
          BY <1>1, AsksEffect
        <5>3. CASE conn'[c].up = conn[c].up
          BY <5>3
        <5>4. CASE conn'[c].up = conn[c].up \o ms
          BY <5>2, <5>4
        <5> QED
          BY <5>1, <5>3, <5>4
      <4>2. Asks(conn[c].down, "open", b) => Asks(conn'[c].down, "open", b)
        BY <1>2, <2>6
      <4> QED
        BY <1>1, <2>3, <3>1, <3>3, <4>1, <4>2 DEF HasLocal
    <3> QED
      BY <3>2, <3>3
  <2> QED
    BY <2>5, <2>6
<1> QED
  BY <1>3, <1>4, <1>5 DEF Links

LEMMA SetServiceLinks ==
  ASSUME LinkInv, Links, NEW i \in Instances, NEW runs \in BOOLEAN, SetService(i, runs)
  PROVE  Links'
<1> DEFINE ms == <<Frame(IF runs THEN "running" ELSE "other")>>
           n == [instance[i] EXCEPT !.runs = runs, !.command = FALSE]
<1>1. Frame("running") \in Messages /\ Frame("other") \in Messages
  BY FramesAreMessages DEF FrameTypes, Bye
<1>2. ms \in Seq(Messages)
  BY <1>1
<1>3. instance \in [Instances -> InstanceStates] /\ n.relay = instance[i].relay
  BY DEF LinkInv, LinkTypes, InstanceStates
<1>4. /\ instance' = [instance EXCEPT ![i] = n] /\ conn' = Up(conn, i, ms)
      /\ UNCHANGED <<agent, unpurged, browser, local>>
  BY <1>3 DEF SetService, hubVars
<1> HIDE DEF ms, n
<1>5. \A x \in Instances : instance'[x].relay = instance[x].relay
  BY <1>3, <1>4
<1> QED
  BY <1>2, <1>4, <1>5, SaysLinks

LEMMA LocalOpensLinks ==
  ASSUME LinkInv, Links, NEW b \in Browsers, LocalOpens(b)
  PROVE  Links'
<1>1. UNCHANGED <<agent, unpurged, browser, conn, instance>>
  BY DEF LocalOpens, hubVars
<1>2. \A x \in Browsers : local'[x].mapped = local[x].mapped /\ local'[x].host = local[x].host
  BY DEF LocalOpens, LinkInv, LinkTypes, AppTyped, LocalStates
<1> QED
  BY <1>1, <1>2 DEF Links, Hosts, Asked, Reached, HasLocal

\* What closes a local socket.
LEMMA ClosesFrame ==
  ASSUME NEW b \in Browsers
  PROVE  LET ms == <<M("close", b, 0, 0)>> IN ms \in Seq(Messages) /\ Closes(ms, b)
<1>1. M("close", b, 0, 0) \in Messages /\ M("close", b, 0, 0).type = "close" /\ M("close", b, 0, 0).b = b
  BY BrowserFrames DEF M
<1> DEFINE m == M("close", b, 0, 0)
<1>2. m \in Messages /\ m.type = "close" /\ m.b = b
  BY <1>1
<1> HIDE DEF m
<1>3. <<m>> \in Seq(Messages) /\ Closes(<<m>>, b)
  BY <1>2 DEF Closes
<1> QED
  BY <1>3 DEF m

LEMMA CloseLocalIs ==
  ASSUME LinkInv, NEW i, NEW b \in Browsers, local' = CloseLocal(i, b), NEW x \in Browsers
  PROVE  /\ x # b => local'[x] = local[x]
         /\ local'[b].mapped <=> local[b].mapped /\ local[b].host # i
         /\ local'[b].host = local[b].host
<1>1. local \in [Browsers -> LocalStates]
  BY DEF LinkInv, LinkTypes, AppTyped
<1>2. CASE local[b].mapped /\ local[b].host = i
  <2> DEFINE s == IF local[b].socket = "open" THEN "closing" ELSE "closed"
  <2>1. local' = [local EXCEPT ![b].mapped = FALSE, ![b].waiting = <<>>, ![b].socket = s]
    BY <1>1, <1>2 DEF CloseLocal
  <2> HIDE DEF s
  <2> QED
    BY <1>1, <1>2, <2>1 DEF LocalStates
<1>3. CASE ~(local[b].mapped /\ local[b].host = i)
  <2>1. local' = local
    BY <1>3 DEF CloseLocal
  <2>2. local[b].mapped \in BOOLEAN
    BY <1>1 DEF LocalStates
  <2> QED
    BY <1>3, <2>1, <2>2
<1> QED
  BY <1>2, <1>3

LEMMA LocalClosedLinks ==
  ASSUME LinkInv, Links, NEW b \in Browsers, LocalClosed(b)
  PROVE  Links'
<1> DEFINE ms == <<M("close", b, 0, 0)>>
           i == local[b].host
<1>1. i \in Instances
  BY DEF LocalClosed, LinkInv, LinkTypes, Hosted
<1>2. conn' = Up(conn, i, ms) /\ UNCHANGED <<agent, unpurged, browser, instance>>
  BY DEF LocalClosed, hubVars
<1>3. ms \in Seq(Messages) /\ Closes(ms, b)
  BY ClosesFrame
<1>4. /\ \A x \in Browsers \ {b} : local'[x] = local[x]
      /\ ~local'[b].mapped
  BY DEF LocalClosed, LinkInv, LinkTypes, AppTyped, LocalStates
<1>5. \A x \in Browsers : /\ local'[x].mapped => local[x].mapped /\ local'[x].host = local[x].host
                          /\ local[x].mapped => local'[x].mapped \/ (local[x].host = i /\ Closes(ms, x))
  BY <1>3, <1>4
<1> HIDE DEF ms, i
<1> QED
  BY <1>1, <1>2, <1>3, <1>5, SaysLinks

LEMMA LocalSaysLinks ==
  ASSUME LinkInv, Links, NEW b \in Browsers, LocalSays(b)
  PROVE  Links'
<1> DEFINE i == local[b].host
           n == said[b] + 1
<1>0. i \in Instances
  BY DEF LocalSays, LinkInv, LinkTypes, Hosted
<1>1. said[b] \in 0..MaxMessages /\ said[b] < MaxMessages /\ MaxMessages \in Nat
  BY RelayLinkAssumption DEF RelayLinkAssumption, LocalSays, LinkInv, LinkTypes, AppTyped
<1>2. n \in 1..MaxMessages
  BY <1>1
<1>3. /\ UNCHANGED <<agent, unpurged, browser, instance>>
      /\ \/ conn' = Up(conn, i, <<M("message", b, n, 0)>>) /\ UNCHANGED local
         \/ conn' = Up(conn, i, <<M("chunk", b, n, 1), M("chunk", b, n, 2)>>) /\ UNCHANGED local
         \/ conn' = Up(conn, i, <<M("close", b, 0, 0)>>) /\ local' = CloseLocal(i, b)
  BY DEF LocalSays, hubVars
<1>b. local[b].host = i
  OBVIOUS
<1> HIDE DEF n, i
<1>4. CASE UNCHANGED local
  <2>1. PICK ms \in Seq(Messages) : conn' = Up(conn, i, ms)
    <3>1. /\ <<M("message", b, n, 0)>> \in Seq(Messages)
          /\ <<M("chunk", b, n, 1), M("chunk", b, n, 2)>> \in Seq(Messages)
          /\ <<M("close", b, 0, 0)>> \in Seq(Messages)
      BY <1>2, UntoldFrames
    <3> QED
      BY <1>3, <3>1
  <2>2. \A x \in Browsers : /\ local'[x].mapped => local[x].mapped /\ local'[x].host = local[x].host
                            /\ local[x].mapped => local'[x].mapped \/ (local[x].host = i /\ Closes(ms, x))
    BY <1>4
  <2> QED
    BY <1>0, <1>3, <2>1, <2>2, SaysLinks
<1>5. CASE conn' = Up(conn, i, <<M("close", b, 0, 0)>>) /\ local' = CloseLocal(i, b)
  <2> DEFINE ms == <<M("close", b, 0, 0)>>
  <2>1. ms \in Seq(Messages) /\ Closes(ms, b) /\ conn' = Up(conn, i, ms)
    BY <1>5, ClosesFrame
  <2> HIDE DEF ms
  <2>2. \A x \in Browsers : /\ local'[x].mapped => local[x].mapped /\ local'[x].host = local[x].host
                            /\ local[x].mapped => local'[x].mapped \/ (local[x].host = i /\ Closes(ms, x))
    <3> SUFFICES ASSUME NEW x \in Browsers
                 PROVE  /\ local'[x].mapped => local[x].mapped /\ local'[x].host = local[x].host
                        /\ local[x].mapped => local'[x].mapped \/ (local[x].host = i /\ Closes(ms, x))
      OBVIOUS
    <3>1. /\ x # b => local'[x] = local[x]
          /\ local'[b].mapped <=> local[b].mapped /\ local[b].host # i
          /\ local'[b].host = local[b].host
      BY <1>5, CloseLocalIs
    <3> QED
      BY <2>1, <3>1
  <2> QED
    BY <1>0, <1>3, <2>1, <2>2, SaysLinks
<1> QED
  BY <1>3, <1>4, <1>5

LEMMA FromHubLinks ==
  ASSUME LinkInv, Links, NEW i \in Instances, FromHub(i)
  PROVE  Links'
<1> DEFINE c == instance[i].relay
           m == Head(conn[c].down)
           rest == [conn EXCEPT ![c].down = Tail(@)]
<1>1. c \in Conns /\ c # NoConn /\ conn[c].down # <<>> /\ conn[c].down \in Seq(Messages) /\ conn[c] \in LineStates
  <2>1. c # NoConn /\ conn[c].down # <<>>
    BY DEF FromHub
  <2>2. c \in Conns /\ conn[c].app # "closed"
    BY <2>1 DEF LinkInv, LinkTypes, InstanceStates, Owners
  <2> QED
    BY <2>1, <2>2, LineIs DEF LineStates
<1>2. UNCHANGED <<agent, unpurged, browser>>
  BY DEF FromHub, hubVars
<1>3. m \in Messages
  BY <1>1, Tails
<1>i. instance \in [Instances -> InstanceStates] /\ local \in [Browsers -> LocalStates]
  BY DEF LinkInv, LinkTypes, AppTyped
<1>5. CASE m.type \in {Bye, "replaced"}
  <2> DEFINE n == AfterClose(i, m.type = "replaced")
  <2>1. conn' = AppClosed(conn, c) /\ instance' = [instance EXCEPT ![i] = n] /\ local' = Drop(local, i)
    BY <1>5 DEF FromHub, Bye
  <2> HIDE DEF n
  <2>2. \A x \in Instances \ {i} : instance'[x] = instance[x]
    BY <1>i, <2>1
  <2>3. \A b \in Browsers : /\ local[b].mapped /\ local[b].host = i => ~local'[b].mapped
                            /\ ~(local[b].mapped /\ local[b].host = i) => local'[b] = local[b]
    BY <2>1, DropIs
  <2> QED
    BY <1>1, <1>2, <2>1, <2>2, <2>3, LeavesLinks
<1>6. CASE m.type \notin {Bye, "replaced"}
  <2>1. Takes(i, c)
    BY <1>1, <1>6 DEF Takes
  <2>e. /\ Taken(c)[c] = [conn[c] EXCEPT !.app = "open", !.down = Tail(@)]
        /\ \A d \in Conns \ {c} : Taken(c)[d] = conn[d]
        /\ conn[c].of = i
        /\ m.type # "accepted" => rest = Taken(c)
    <3>1. c \in Conns
      BY <1>1
    <3>2. /\ Taken(c)[c] = [conn[c] EXCEPT !.app = "open", !.down = Tail(@)]
          /\ \A d \in Conns \ {c} : Taken(c)[d] = conn[d]
          /\ conn[c].of = i
      BY ZenonT(60), <2>1, <3>1, TakenEffect
    <3>3. m.type # "accepted" => rest = Taken(c)
      BY <1>1, <2>1, TakenEffect
    <3> QED
      BY <3>2, <3>3
  <2>t. ASSUME conn' = Taken(c)
        PROVE  /\ \A d \in Conns \ {c} : conn'[d] = conn[d]
               /\ conn'[c].of = i /\ conn'[c].hub = conn[c].hub /\ conn'[c].cut = conn[c].cut /\ conn'[c].app = "open"
               /\ conn'[c].down = Tail(conn[c].down) /\ conn'[c].up = conn[c].up
    BY <1>1, <2>e, <2>t DEF LineStates
  <2>u. ASSUME conn' = Taken(c) PROVE \E ms \in Seq(Messages) : conn'[c].up \in {conn[c].up, conn[c].up \o ms}
    <3>1. <<>> \in Seq(Messages)
      OBVIOUS
    <3> QED
      BY <2>t, <2>u, <3>1
  <2>2. CASE m.type = "accepted"
    <3> DEFINE ms == <<Frame(IF instance[i].runs THEN "running" ELSE "other")>>
    <3>1. Frame("running") \in Messages /\ Frame("other") \in Messages
      BY FramesAreMessages DEF FrameTypes, Bye
    <3>2. ms \in Seq(Messages)
      BY <3>1
    <3>3. conn' = Up(Taken(c), i, ms) /\ UNCHANGED <<instance, local>>
      BY <2>2 DEF FromHub, Accepted, Taken, Bye
    <3> HIDE DEF ms
    <3>4. /\ \A d \in Conns \ {c} : conn'[d] = conn[d]
          /\ conn'[c].of = i /\ conn'[c].hub = conn[c].hub /\ conn'[c].cut = conn[c].cut /\ conn'[c].app = "open"
          /\ conn'[c].down = Tail(conn[c].down)
          /\ conn'[c].up = IF conn[c].cut THEN conn[c].up ELSE conn[c].up \o ms
      BY <1>1, <2>1, <3>2, <3>3, TakesEffect
    <3>5. \E xs \in Seq(Messages) : conn'[c].up \in {conn[c].up, conn[c].up \o xs}
      BY <3>2, <3>4
    <3> DEFINE f == m
    <3>6. f.type = "accepted" /\ f = Head(conn[c].down)
      BY <2>2
    <3>7. c \in Conns
      BY <1>1
    <3> HIDE DEF c, m, f, rest
    <3> QED
      BY <1>2, <2>1, <3>3, <3>4, <3>5, <3>6, <3>7, TakesLinks
  <2>3. CASE m.type = "command"
    <3>1. conn' = Taken(c) /\ instance' = [instance EXCEPT ![i].command = TRUE] /\ UNCHANGED local
      BY <2>e, <2>3 DEF FromHub, Bye
    <3>2. \A x \in Instances : instance'[x].relay = instance[x].relay
      BY <1>i, <3>1 DEF InstanceStates
    <3> DEFINE f == m
    <3>6. f.type = "command" /\ f = Head(conn[c].down)
      BY <2>3
    <3>7. c \in Conns
      BY <1>1
    <3> HIDE DEF c, m, f, rest
    <3> QED
      BY <1>2, <2>1, <2>t, <2>u, <3>1, <3>2, <3>6, <3>7, TakesLinks
  <2>4. CASE m.type = "message"
    <3>1. conn' = Taken(c) /\ UNCHANGED instance /\ (UNCHANGED local \/ KeptUntilOpen(m.b, m.n))
      BY <2>e, <2>4 DEF FromHub, Bye
    <3>2. \A x \in Browsers : local'[x].mapped = local[x].mapped /\ local'[x].host = local[x].host
      <4>1. m.b \in Browsers
        BY <1>3, <2>4 DEF Messages
      <4> DEFINE a == m.b
                 w == Append(local[a].waiting, m.n)
      <4>2. UNCHANGED local \/ local' = [local EXCEPT ![a].waiting = w]
        BY <1>i, <3>1, <4>1 DEF KeptUntilOpen
      <4>3. a \in Browsers
        BY <4>1
      <4> HIDE DEF a, w
      <4> QED
        BY SMTT(30), <1>i, <4>2, <4>3 DEF LocalStates
    <3> DEFINE f == m
    <3>6. f.type = "message" /\ f = Head(conn[c].down)
      BY <2>4
    <3>7. c \in Conns
      BY <1>1
    <3> HIDE DEF c, m, f, rest
    <3> QED
      BY <1>2, <2>1, <2>t, <2>u, <3>1, <3>2, <3>6, <3>7, TakesLinks
  <2>5. CASE m.type = "close"
    <3> DEFINE f == m
               b == m.b
    <3>1. b \in Browsers
      BY <1>3, <2>5 DEF Messages
    <3>2. conn' = Taken(c) /\ UNCHANGED instance /\ local' = CloseLocal(i, b)
      BY <2>e, <2>5 DEF FromHub, Bye
    <3>6. f.type = "close" /\ f.b = b /\ f = Head(conn[c].down)
      BY <2>5
    <3>7. c \in Conns
      BY <1>1
    <3> HIDE DEF b, c, m, f, rest
    <3>3. ASSUME NEW x \in Browsers
          PROVE  /\ local'[x].mapped => local[x].mapped /\ local'[x].host = local[x].host
                 /\ x # b => local'[x] = local[x]
      <4>1. /\ x # b => local'[x] = local[x]
            /\ local'[b].mapped <=> local[b].mapped /\ local[b].host # i
            /\ local'[b].host = local[b].host
        BY <3>1, <3>2, CloseLocalIs
      <4> QED
        BY <4>1
    <3>4. \A x \in Browsers :
            /\ local'[x].mapped => (local[x].mapped /\ local'[x].host = local[x].host) \/ local'[x].host = i
            /\ local[x].mapped /\ ~(f.type \in {"open", "close"} /\ f.b = x) => local'[x].mapped /\ local'[x].host = local[x].host
            /\ f.type = "open" /\ f.b = x /\ ~conn[c].cut =>
                 (local'[x].mapped /\ local'[x].host = i) \/ Asks(conn'[c].up, "close", x)
      BY <3>3, <3>6
    <3>5. \A x \in Instances : instance'[x].relay = instance[x].relay
      BY <3>2
    <3> QED
      BY <1>2, <2>1, <2>t, <2>u, <3>2, <3>4, <3>5, <3>6, <3>7, TakesLinks
  <2>6. CASE m.type = "open"
    <3> DEFINE f == m
               b == m.b
               ms == <<M("close", b, 0, 0)>>
               new == [host |-> i, mapped |-> TRUE, socket |-> "connecting", waiting |-> <<>>]
    <3>1. b \in Browsers
      BY <1>3, <2>6 DEF Messages
    <3>2. /\ UNCHANGED instance
          /\ \/ conn' = Taken(c) /\ local' = [local EXCEPT ![b] = new]
             \/ conn' = Up(Taken(c), i, ms) /\ UNCHANGED local
      BY <2>e, <2>6 DEF FromHub, OpenLocal, Bye
    <3>6. f.type = "open" /\ f.b = b /\ f = Head(conn[c].down)
      BY <2>6
    <3>7. c \in Conns
      BY <1>1
    <3>5. \A x \in Instances : instance'[x].relay = instance[x].relay
      BY <3>2
    <3>n. new.mapped /\ new.host = i
      OBVIOUS
    <3>m. ms \in Seq(Messages) /\ Closes(ms, b)
      BY <3>1, ClosesFrame
    <3> HIDE DEF b, c, m, f, rest, ms, new
    <3>8. CASE conn' = Taken(c) /\ local' = [local EXCEPT ![b] = new]
      <4>1. local'[b].mapped /\ local'[b].host = i /\ \A x \in Browsers \ {b} : local'[x] = local[x]
        BY <1>i, <3>1, <3>8, <3>n
      <4>2. \A x \in Browsers :
              /\ local'[x].mapped => (local[x].mapped /\ local'[x].host = local[x].host) \/ local'[x].host = i
              /\ local[x].mapped /\ ~(f.type \in {"open", "close"} /\ f.b = x) => local'[x].mapped /\ local'[x].host = local[x].host
              /\ f.type = "open" /\ f.b = x /\ ~conn[c].cut =>
                   (local'[x].mapped /\ local'[x].host = i) \/ Asks(conn'[c].up, "close", x)
        BY <3>6, <4>1
      <4> QED
        BY <1>2, <2>1, <2>t, <2>u, <3>5, <3>6, <3>7, <3>8, <4>2, TakesLinks
    <3>9. CASE conn' = Up(Taken(c), i, ms) /\ UNCHANGED local
      <4>1. /\ \A d \in Conns \ {c} : conn'[d] = conn[d]
            /\ conn'[c].of = i /\ conn'[c].hub = conn[c].hub /\ conn'[c].cut = conn[c].cut /\ conn'[c].app = "open"
            /\ conn'[c].down = Tail(conn[c].down)
            /\ conn'[c].up = IF conn[c].cut THEN conn[c].up ELSE conn[c].up \o ms
        BY <2>1, <3>7, <3>9, <3>m, TakesEffect
      <4>2. \E xs \in Seq(Messages) : conn'[c].up \in {conn[c].up, conn[c].up \o xs}
        BY <3>m, <4>1
      <4>3. ~conn[c].cut => Asks(conn'[c].up, "close", b)
        <5> DEFINE s == conn[c].up
        <5>1. s \in Seq(Messages)
          BY <3>7, LineIs DEF LineStates
        <5> HIDE DEF s
        <5>2. PICK z \in Messages : ms = <<z>> /\ z.type = "close" /\ z.b = b
          BY <3>m DEF Closes
        <5>3. Asks(s \o <<z>>, "close", b)
          BY <5>1, <5>2, AsksEffect
        <5> QED
          BY <4>1, <5>2, <5>3 DEF s
      <4>4. \A x \in Browsers :
              /\ local'[x].mapped => (local[x].mapped /\ local'[x].host = local[x].host) \/ local'[x].host = i
              /\ local[x].mapped /\ ~(f.type \in {"open", "close"} /\ f.b = x) => local'[x].mapped /\ local'[x].host = local[x].host
              /\ f.type = "open" /\ f.b = x /\ ~conn[c].cut =>
                   (local'[x].mapped /\ local'[x].host = i) \/ Asks(conn'[c].up, "close", x)
        BY <3>6, <3>9, <4>3
      <4> QED
        <5>1. /\ \A d \in Conns \ {c} : conn'[d] = conn[d]
              /\ conn'[c].of = i /\ conn'[c].hub = conn[c].hub /\ conn'[c].cut = conn[c].cut /\ conn'[c].app = "open"
              /\ conn'[c].down = Tail(conn[c].down)
          BY <4>1
        <5>2. f = Head(conn[c].down)
          BY <3>6
        <5> QED
          BY <1>2, <2>1, <3>5, <3>7, <4>2, <4>4, <5>1, <5>2, TakesLinks
    <3> QED
      BY <3>2, <3>8, <3>9
  <2> QED
    BY <1>6, <2>2, <2>3, <2>4, <2>5, <2>6 DEF FromHub
<1> QED
  BY <1>5, <1>6

LEMMA NextLinks == LinkInv /\ Links /\ LinkNext => Links'
<1> SUFFICES ASSUME LinkInv, Links, LinkNext PROVE Links'
  OBVIOUS
<1>1. ASSUME NEW c \in Conns, HubStep(c) \/ Cut(c) PROVE Links'
  BY <1>1, AttachLinks, HubClosedLinks, FromAgentLinks, CutLinks DEF HubStep
<1>2. ASSUME NEW i \in Instances,
             AppStep(i) \/ Start(i) \/ HandshakeTimesOut(i) \/ CommandDone(i) \/ Switch(i) \/ Quit(i)
      PROVE  Links'
  <2>1. CASE FromHub(i) \/ HandshakeTimesOut(i) \/ Quit(i)
    BY <2>1, FromHubLinks, HandshakeTimesOutLinks, QuitLinks
  <2>2. CASE Reconnect(i) \/ Start(i)
    <3>1. instance[i].relay = NoConn /\ ~instance[i].fired
      BY <2>2 DEF Reconnect, Start, LinkInv, Waits
    <3>2. Connect(i) /\ UNCHANGED <<hubVars, local>>
      BY <2>2 DEF Reconnect, Start
    <3> QED
      BY <3>1, <3>2, ConnectLinks
  <2>3. CASE CommandDone(i)
    BY <2>3, SetServiceLinks DEF CommandDone
  <2>4. CASE Switch(i)
    <3>1. (~instance[i].runs) \in BOOLEAN
      OBVIOUS
    <3> QED
      BY <2>4, <3>1, SetServiceLinks DEF Switch
  <2> QED
    BY <1>2, <2>1, <2>2, <2>3, <2>4 DEF AppStep
<1>3. ASSUME NEW b \in Browsers,
             ChunkTimeout(b) \/ BrowserOpens(b) \/ LocalOpens(b) \/ LocalSays(b) \/ LocalClosed(b)
      PROVE  Links'
  BY <1>3, ChunkTimeoutLinks, BrowserOpensLinks, LocalOpensLinks, LocalSaysLinks, LocalClosedLinks
<1>4. ASSUME NEW b \in Browsers, BrowserTypes(b) PROVE Links'
  <2> DEFINE n == typed[b] + 1
             m == M("message", b, n, 0)
  <2>1. typed[b] \in 0..MaxMessages /\ typed[b] < MaxMessages /\ MaxMessages \in Nat
    BY <1>4, RelayLinkAssumption DEF RelayLinkAssumption, BrowserTypes, LinkInv, LinkTypes, LinkCounted
  <2>2. n \in 1..MaxMessages
    BY <2>1
  <2>3. conn' = Down(conn, agent, m) /\ UNCHANGED <<agent, instance, late, local, unpurged, browser>>
    BY <1>4 DEF BrowserTypes, hubVars, appVars
  <2> HIDE DEF n
  <2>4. m \in Messages /\ m.type = "message"
    BY <2>2, BrowserFrames DEF M
  <2> HIDE DEF m
  <2>5. m.type \in {"message", "command", "close"} /\ m.type # "close"
    BY <2>4
  <2> QED
    BY <2>3, <2>4, <2>5, HubSpeaksLinks
<1>5. ASSUME NEW b \in Browsers, BrowserClosed(b) PROVE Links'
  <2> DEFINE m == M("close", b, 0, 0)
  <2>1. m \in Messages /\ m.type = "close" /\ m.b = b
    BY BrowserFrames DEF M
  <2>2. conn' = Down(conn, agent, m) /\ UNCHANGED <<agent, instance, late, local, unpurged>>
    BY <1>5 DEF BrowserClosed, appVars
  <2> HIDE DEF m
  <2>3. /\ ~browser'[b].entered /\ browser'[b].socket = "closed"
        /\ \A x \in Browsers \ {b} : browser'[x] = browser[x]
    BY <1>5 DEF BrowserClosed, LinkInv, LinkTypes, HubTyped
  <2> QED
    BY <2>1, <2>2, <2>3, HubSpeaksLinks
<1>6. ASSUME StartCommand PROVE Links'
  <2> DEFINE m == Frame("command")
  <2>1. m \in Messages /\ m.type = "command"
    BY FramesAreMessages DEF FrameTypes, Bye
  <2>2. conn' = Down(conn, agent, m) /\ UNCHANGED <<agent, instance, late, local, unpurged, browser>>
    BY <1>6 DEF StartCommand, appVars
  <2> HIDE DEF m
  <2>3. m.type \in {"message", "command", "close"} /\ m.type # "close"
    BY <2>1
  <2> QED
    BY <2>1, <2>2, <2>3, HubSpeaksLinks
<1> QED
  BY <1>1, <1>2, <1>3, <1>4, <1>5, <1>6 DEF LinkNext

LEMMA InitLinks == LinkInit => Links
<1> SUFFICES ASSUME LinkInit PROVE Links
  OBVIOUS
<1>1. \A b \in Browsers : ~local[b].mapped /\ ~browser[b].entered /\ browser[b].socket = "none"
  BY DEF LinkInit, NoLocal
<1>2. \A c \in Conns : conn[c].down = <<>>
  BY DEF LinkInit, Closed
<1>3. \A type, b : ~Asks(<<>>, type, b)
  BY DEF Asks
<1> QED
  BY <1>1, <1>2, <1>3 DEF Links, Hosts, Asked, Reached

LEMMA ReachedWhenSilent == LinkInv /\ Links => BrowserHasItsLocal
<1> SUFFICES ASSUME LinkInv, Links, Silent, ~unpurged, NEW b \in Browsers, browser[b].entered, browser[b].socket = "open"
             PROVE  local[b].mapped /\ agent # NoConn /\ conn[agent].of = local[b].host
  BY DEF BrowserHasItsLocal
<1>0. agent # NoConn
  BY DEF Links, Asked
<1>1. agent \in Conns /\ LineOK(conn[agent]) /\ conn[agent].hub = "open"
  BY <1>0, AgentIs, LineIs DEF Silent
<1>2. conn[agent].up = <<>> /\ conn[agent].down = <<>>
  BY <1>1 DEF Silent
<1>3. conn[agent].app = "open" /\ ~conn[agent].cut
  BY <1>1, <1>2 DEF LineOK, LineStates, AppStates
<1>4. HasLocal(b)
  BY <1>1, <1>3 DEF Links, Reached, Usable
<1>5. ~Asks(<<>>, "open", b) /\ ~Asks(<<>>, "close", b)
  BY DEF Asks
<1> QED
  BY <1>0, <1>2, <1>4, <1>5 DEF HasLocal

\* When nothing is under way, a browser that the hub keeps connected has its
\* local socket in the instance that is the agent, whatever was lost or replaced
\* before (the hub's "open" and "close" messages, #openLocal, #closeLocal),
\* unless the hub has kept the browsers of a connection that was closing.
THEOREM BrowserLocalHolds == Spec => []BrowserHasItsLocal
<1> DEFINE I == HubLinkInv /\ Links
<1>1. Init => I
  <2> SUFFICES ASSUME Init PROVE I
    OBVIOUS
  <2>1. HubLinkInv /\ LinkInit
    BY InitLink DEF Init, HubLinkInv
  <2> QED
    BY <2>1, InitLinks
<1>2. I /\ [Next]_vars => I'
  <2>1. HubLinkInv /\ [Next]_vars => HubLinkInv'
    BY NextLink, StutterLink DEF Next, vars, HubLinkInv
  <2>2. Links /\ UNCHANGED linkVars => Links'
    BY DEF linkVars, Links, Hosts, Asked, Reached, HasLocal
  <2> QED
    BY <2>1, <2>2, NextLinks DEF Next, vars, HubLinkInv
<1>3. I => BrowserHasItsLocal
  BY ReachedWhenSilent DEF HubLinkInv
<1> QED
  BY <1>1, <1>2, <1>3, PTL DEF Spec

-----------------------------------------------------------------------------
(* What a channel carries for a browser *)

\* A message has two halves, which are numbered through; a piece is one of them.
Payload(m, b) == m.type \in {"message", "chunk"} /\ m.b = b
Beginning(m) == 2 * m.n - (IF m.type = "chunk" /\ m.k = 2 THEN 0 ELSE 1)
Ending(m) == 2 * m.n - (IF m.type = "chunk" /\ m.k = 1 THEN 1 ELSE 0)
Carries(m, b, p) == Payload(m, b) /\ Beginning(m) <= p /\ p <= Ending(m)
Shuts(m, b) == m.type = "close" /\ m.b = b
Speaks(s, b) == \E j \in 1..Len(s) : Payload(s[j], b)

\* What comes before the socket is closed follows on the half q, without gaps or
\* repetitions, and does not go beyond the half w.
Heeded(s, b, j) == Payload(s[j], b) /\ \A i \in 1..(j - 1) : ~Shuts(s[i], b)
FlowsAt(s, b, j, q, w) ==
  Heeded(s, b, j) =>
    /\ q < Beginning(s[j]) /\ Ending(s[j]) <= w
    /\ \A i \in 1..(j - 1) : Payload(s[i], b) => Ending(s[i]) < Beginning(s[j])
    /\ \A p \in (q + 1)..(Beginning(s[j]) - 1) : \E i \in 1..(j - 1) : Carries(s[i], b, p)
Flows(s, b, q, w) == q <= w /\ \A j \in 1..Len(s) : FlowsAt(s, b, j, q, w)
\* Nothing up to the half w is missing, unless the socket will be closed.
Fills(s, b, q, w) == Asks(s, "close", b) \/ \A p \in (q + 1)..w : \E i \in 1..Len(s) : Carries(s[i], b, p)

LEMMA Halves ==
  ASSUME NEW m \in Messages, NEW b, Payload(m, b)
  PROVE  /\ Beginning(m) \in Nat /\ Ending(m) \in Nat /\ Beginning(m) <= Ending(m)
         /\ m.n \in 1..MaxMessages /\ b \in Browsers
         /\ m.type = "message" => Beginning(m) = 2 * m.n - 1 /\ Ending(m) = 2 * m.n
         /\ m.type = "chunk" /\ m.k = 1 => Beginning(m) = 2 * m.n - 1 /\ Ending(m) = 2 * m.n - 1
         /\ m.type = "chunk" /\ m.k # 1 => m.k = 2 /\ Beginning(m) = 2 * m.n /\ Ending(m) = 2 * m.n
<1>1. /\ m.n \in Nat /\ m.n # 0 /\ m.n <= MaxMessages /\ MaxMessages \in Nat
      /\ m.b \in Browsers /\ (m.type = "chunk" => m.k \in {1, 2})
  BY RelayLinkAssumption DEF Messages, Payload
<1>2. m.type = "message" \/ m.type = "chunk"
  BY DEF Payload
<1>3. m.b = b
  BY DEF Payload
<1> QED
  BY <1>1, <1>2, <1>3 DEF Beginning, Ending

\* What is the same up to a place flows the same way up to there.
LEMMA SamePlaces ==
  ASSUME NEW s, NEW t, NEW j \in Nat, \A i \in 1..j : t[i] = s[i], NEW b, NEW q, NEW w, FlowsAt(s, b, j, q, w), j # 0
  PROVE  FlowsAt(t, b, j, q, w)
<1>1. t[j] = s[j] /\ \A i \in 1..(j - 1) : t[i] = s[i]
  OBVIOUS
<1>2. Heeded(t, b, j) => Heeded(s, b, j)
  BY <1>1 DEF Heeded
<1>3. SUFFICES ASSUME Heeded(s, b, j) PROVE FlowsAt(t, b, j, q, w)
  BY <1>2 DEF FlowsAt
<1>4. /\ q < Beginning(t[j]) /\ Ending(t[j]) <= w
      /\ \A i \in 1..(j - 1) : Payload(t[i], b) => Ending(t[i]) < Beginning(t[j])
  BY <1>1, <1>3 DEF FlowsAt
<1>5. \A p \in (q + 1)..(Beginning(t[j]) - 1) : \E i \in 1..(j - 1) : Carries(t[i], b, p)
  BY <1>1, <1>3 DEF FlowsAt
<1> QED
  BY <1>4, <1>5 DEF FlowsAt

LEMMA AppendIs ==
  ASSUME NEW s \in Seq(Messages), NEW m \in Messages
  PROVE  /\ Append(s, m) \in Seq(Messages) /\ Len(s) \in Nat /\ Len(Append(s, m)) = Len(s) + 1
         /\ Append(s, m)[Len(s) + 1] = m
         /\ \A i \in 1..Len(s) : Append(s, m)[i] = s[i]
         /\ \A i \in 1..Len(Append(s, m)) : i = Len(s) + 1 \/ i \in 1..Len(s)
         /\ \A i \in 1..Len(s) : i \in 1..Len(Append(s, m))
         /\ Len(s) + 1 \in 1..Len(Append(s, m))
<1>1. /\ Append(s, m) \in Seq(Messages) /\ Len(s) \in Nat /\ Len(Append(s, m)) = Len(s) + 1
      /\ Append(s, m)[Len(s) + 1] = m
      /\ \A i \in 1..Len(s) : Append(s, m)[i] = s[i]
  BY AppendProperties, LenProperties
<1> QED
  BY <1>1

\* Something that is not for the browser, or closes its socket, is added.
LEMMA FlowsBeside ==
  ASSUME NEW s \in Seq(Messages), NEW m \in Messages, NEW b, ~Payload(m, b),
         NEW q \in Int, NEW w \in Int, NEW v \in Int, w <= v, Flows(s, b, q, w)
  PROVE  Flows(Append(s, m), b, q, v)
<1> DEFINE t == Append(s, m)
<1>1. /\ Len(s) \in Nat /\ t[Len(s) + 1] = m /\ \A i \in 1..Len(s) : t[i] = s[i]
      /\ \A i \in 1..Len(t) : i = Len(s) + 1 \/ i \in 1..Len(s)
  BY AppendIs
<1> HIDE DEF t
<1>2. ASSUME NEW j \in 1..Len(s) PROVE FlowsAt(t, b, j, q, v)
  <2>1. \A i \in 1..j : t[i] = s[i]
    BY <1>1
  <2>2. FlowsAt(s, b, j, q, w)
    BY DEF Flows
  <2>3. FlowsAt(t, b, j, q, w)
    BY <1>1, <2>1, <2>2, SamePlaces
  <2>4. Heeded(t, b, j) => Ending(t[j]) \in Nat
    <3>1. t[j] \in Messages
      BY <1>1
    <3> QED
      BY <3>1, Halves DEF Heeded
  <2> QED
    BY <2>3, <2>4 DEF FlowsAt
<1>3. FlowsAt(t, b, Len(s) + 1, q, v)
  BY <1>1 DEF FlowsAt, Heeded
<1>4. q <= v
  BY DEF Flows
<1>5. Flows(t, b, q, v)
  BY <1>1, <1>2, <1>3, <1>4 DEF Flows
<1> QED
  BY <1>5 DEF t

\* The next message, or a piece of it, is added.
LEMMA FlowsOn ==
  ASSUME NEW s \in Seq(Messages), NEW m \in Messages, NEW b, Payload(m, b),
         NEW q \in Int, NEW w \in Int, Flows(s, b, q, w), Fills(s, b, q, w), Beginning(m) = w + 1
  PROVE  Flows(Append(s, m), b, q, Ending(m)) /\ Fills(Append(s, m), b, q, Ending(m))
<1> DEFINE t == Append(s, m)
           v == Ending(m)
<1>1. /\ Len(s) \in Nat /\ t[Len(s) + 1] = m /\ \A i \in 1..Len(s) : t[i] = s[i] /\ i \in 1..Len(t)
      /\ Len(s) + 1 \in 1..Len(t)
      /\ \A i \in 1..Len(t) : i = Len(s) + 1 \/ i \in 1..Len(s)
  BY AppendIs
<1>2. v \in Int /\ w < v
  BY Halves
<1>t. t = Append(s, m)
  OBVIOUS
<1>w. v = Ending(m)
  OBVIOUS
<1> HIDE DEF t, v
<1>3. ASSUME NEW j \in 1..Len(s) PROVE FlowsAt(t, b, j, q, v)
  <2>1. \A i \in 1..j : t[i] = s[i]
    BY <1>1
  <2>2. FlowsAt(s, b, j, q, w)
    BY DEF Flows
  <2>3. FlowsAt(t, b, j, q, w)
    BY <1>1, <2>1, <2>2, SamePlaces
  <2>4. Heeded(t, b, j) => Ending(t[j]) \in Nat
    <3>1. t[j] \in Messages
      BY <1>1
    <3> QED
      BY <3>1, Halves DEF Heeded
  <2> QED
    BY <1>2, <2>3, <2>4 DEF FlowsAt
<1>4. FlowsAt(t, b, Len(s) + 1, q, v)
  <2> DEFINE z == Len(s) + 1
  <2>z. z \in Nat /\ t[z] = m /\ (\A i \in 1..(z - 1) : i \in 1..Len(s)) /\ (\A i \in 1..Len(s) : i \in 1..(z - 1))
    BY <1>1
  <2> HIDE DEF z
  <2> SUFFICES ASSUME Heeded(t, b, z) PROVE FlowsAt(t, b, z, q, v)
    BY DEF FlowsAt, z
  <2>1. \A i \in 1..Len(s) : ~Shuts(s[i], b)
    BY <1>1, <2>z DEF Heeded
  <2>2. ASSUME NEW i \in 1..Len(s), Payload(s[i], b) PROVE Ending(s[i]) <= w /\ Ending(s[i]) \in Nat
    <3>1. \A l \in 1..(i - 1) : l \in 1..Len(s)
      OBVIOUS
    <3>2. Heeded(s, b, i)
      BY <2>1, <2>2, <3>1 DEF Heeded
    <3>3. FlowsAt(s, b, i, q, w)
      BY DEF Flows
    <3> QED
      BY <2>2, <3>2, <3>3, Halves DEF FlowsAt
  <2>3. \A i \in 1..(z - 1) : Payload(t[i], b) => Ending(t[i]) < Beginning(t[z])
    <3> SUFFICES ASSUME NEW i \in 1..(z - 1), Payload(t[i], b) PROVE Ending(t[i]) < Beginning(m)
      BY <2>z
    <3>1. i \in 1..Len(s) /\ t[i] = s[i]
      BY <1>1, <2>z
    <3> QED
      BY <2>2, <3>1
  <2>4. \A p \in (q + 1)..w : \E i \in 1..Len(s) : Carries(s[i], b, p)
    BY <2>1 DEF Fills, Asks, Shuts
  <2>5. \A p \in (q + 1)..(Beginning(t[z]) - 1) : \E i \in 1..(z - 1) : Carries(t[i], b, p)
    <3> SUFFICES ASSUME NEW p \in (q + 1)..w PROVE \E i \in 1..(z - 1) : Carries(t[i], b, p)
      BY <2>z
    <3>1. PICK i \in 1..Len(s) : Carries(s[i], b, p)
      BY <2>4
    <3> QED
      BY <1>1, <2>z, <3>1
  <2>6. q < Beginning(t[z]) /\ Ending(t[z]) <= v
    BY <1>2, <1>w, <2>z DEF Flows
  <2> QED
    BY <2>3, <2>5, <2>6 DEF FlowsAt
<1>5. Flows(t, b, q, v)
  BY <1>1, <1>2, <1>3, <1>4 DEF Flows
<1>6. Fills(t, b, q, v)
  <2>1. CASE Asks(s, "close", b)
    BY <1>t, <2>1, AsksEffect DEF Fills
  <2>2. CASE \A p \in (q + 1)..w : \E i \in 1..Len(s) : Carries(s[i], b, p)
    <3> SUFFICES ASSUME NEW p \in (q + 1)..v PROVE \E i \in 1..Len(t) : Carries(t[i], b, p)
      BY DEF Fills
    <3>1. CASE p \in (q + 1)..w
      <4>1. PICK i \in 1..Len(s) : Carries(s[i], b, p)
        BY <2>2, <3>1
      <4> QED
        BY <1>1, <4>1
    <3>2. CASE p \notin (q + 1)..w
      <4>1. Beginning(m) <= p /\ p <= Ending(m)
        BY <1>2, <1>w, <3>2
      <4>2. Carries(t[Len(s) + 1], b, p)
        BY <1>1, <4>1 DEF Carries
      <4> QED
        BY <1>1, <4>2
    <3> QED
      BY <3>1, <3>2
  <2> QED
    BY <2>1, <2>2 DEF Fills
<1> QED
  BY <1>5, <1>6 DEF t, v

\* Anything is added to a channel that lacks nothing; a close frame ends it.
LEMMA FillsOn ==
  ASSUME NEW s \in Seq(Messages), NEW m \in Messages, NEW b, NEW q \in Int, NEW w \in Int
  PROVE  /\ Fills(s, b, q, w) => Fills(Append(s, m), b, q, w)
         /\ Shuts(m, b) => Fills(Append(s, m), b, q, w)
<1>1. Shuts(m, b) => Fills(Append(s, m), b, q, w)
  BY AsksEffect DEF Shuts, Fills
<1>2. CASE Asks(s, "close", b)
  BY <1>1, <1>2, AsksEffect DEF Fills
<1>3. CASE \A p \in (q + 1)..w : \E i \in 1..Len(s) : Carries(s[i], b, p)
  <2> DEFINE t == Append(s, m)
  <2>1. \A i \in 1..Len(s) : t[i] = s[i] /\ i \in 1..Len(t)
    BY AppendIs
  <2> HIDE DEF t
  <2>2. \A p \in (q + 1)..w : \E i \in 1..Len(t) : Carries(t[i], b, p)
    <3> SUFFICES ASSUME NEW p \in (q + 1)..w PROVE \E i \in 1..Len(t) : Carries(t[i], b, p)
      OBVIOUS
    <3>1. PICK i \in 1..Len(s) : Carries(s[i], b, p)
      BY <1>3
    <3> QED
      BY <2>1, <3>1
  <2>3. Fills(t, b, q, w)
    BY <2>2 DEF Fills
  <2> QED
    BY <1>1, <2>3 DEF t
<1> QED
  BY <1>1, <1>2, <1>3 DEF Fills

\* The first frame is taken.
LEMMA TailIs ==
  ASSUME NEW s \in Seq(Messages), s # <<>>
  PROVE  /\ Tail(s) \in Seq(Messages) /\ Len(s) \in Nat \ {0} /\ Len(Tail(s)) = Len(s) - 1
         /\ Head(s) = s[1] /\ Head(s) \in Messages /\ 1 \in 1..Len(s)
         /\ \A i \in 1..Len(Tail(s)) : i + 1 \in 1..Len(s) /\ Tail(s)[i] = s[i + 1]
         /\ \A i \in 1..Len(s) : i = 1 \/ (i - 1 \in 1..Len(Tail(s)) /\ s[i] = Tail(s)[i - 1])
<1> DEFINE t == Tail(s)
           n == Len(s)
<1>1. /\ t \in Seq(Messages) /\ n \in Nat \ {0} /\ Len(t) = n - 1
      /\ Head(s) = s[1] /\ s[1] \in Messages
      /\ \A k \in 1..(n - 1) : t[k] = s[k + 1]
  BY Tails
<1> HIDE DEF t, n
<1>2. \A i \in 1..Len(t) : i + 1 \in 1..n /\ t[i] = s[i + 1]
  BY <1>1
<1>3. \A i \in 1..n : i = 1 \/ (i - 1 \in 1..Len(t) /\ (i - 1) + 1 = i)
  BY <1>1
<1>4. \A i \in 1..n : i = 1 \/ (i - 1 \in 1..Len(t) /\ s[i] = t[i - 1])
  BY <1>2, <1>3
<1>5. 1 \in 1..n
  BY <1>1
<1> QED
  BY <1>1, <1>2, <1>4, <1>5 DEF t, n

LEMMA TailFlows ==
  ASSUME NEW s \in Seq(Messages), s # <<>>, NEW b, NEW q \in Int, NEW w \in Int, Flows(s, b, q, w),
         ~Shuts(Head(s), b), NEW r \in Int,
         r = (IF Payload(Head(s), b) THEN Ending(Head(s)) ELSE q)
  PROVE  Flows(Tail(s), b, r, w)
<1> DEFINE t == Tail(s)
           m == Head(s)
<1>1. /\ t \in Seq(Messages) /\ Len(s) \in Nat \ {0} /\ Len(t) = Len(s) - 1 /\ m = s[1] /\ m \in Messages /\ 1 \in 1..Len(s)
      /\ \A i \in 1..Len(t) : i + 1 \in 1..Len(s) /\ t[i] = s[i + 1]
      /\ \A i \in 1..Len(s) : i = 1 \/ (i - 1 \in 1..Len(t) /\ s[i] = t[i - 1])
  BY TailIs
<1>m. ~Shuts(m, b) /\ r = (IF Payload(m, b) THEN Ending(m) ELSE q)
  OBVIOUS
<1> HIDE DEF t, m
<1>2. Payload(m, b) => Ending(m) <= w
  <2>1. FlowsAt(s, b, 1, q, w)
    BY <1>1 DEF Flows
  <2> QED
    BY <1>1, <2>1 DEF FlowsAt, Heeded
<1>3. ASSUME NEW j \in 1..Len(t), Heeded(t, b, j) PROVE FlowsAt(t, b, j, r, w)
  <2> DEFINE z == j + 1
  <2>1. z \in 1..Len(s) /\ t[j] = s[z] /\ z \in Nat /\ z # 1 /\ t[j] \in Messages
    BY <1>1
  <2>2. \A i \in 1..(z - 1) : i = 1 \/ (i - 1 \in 1..(j - 1) /\ s[i] = t[i - 1])
    BY <1>1
  <2>3. \A i \in 1..(j - 1) : i + 1 \in 1..(z - 1) /\ t[i] = s[i + 1]
    BY <1>1
  <2>4. 1 \in 1..(z - 1)
    BY <2>1
  <2> HIDE DEF z
  <2>5. Heeded(s, b, z)
    BY <1>1, <1>3, <1>m, <2>1, <2>2 DEF Heeded
  <2>6. FlowsAt(s, b, z, q, w)
    BY <2>1 DEF Flows
  <2>7. /\ q < Beginning(t[j]) /\ Ending(t[j]) <= w
        /\ \A i \in 1..(z - 1) : Payload(s[i], b) => Ending(s[i]) < Beginning(t[j])
        /\ \A p \in (q + 1)..(Beginning(t[j]) - 1) : \E i \in 1..(z - 1) : Carries(s[i], b, p)
    BY <2>1, <2>5, <2>6 DEF FlowsAt
  <2>8. r < Beginning(t[j])
    BY <1>1, <1>m, <2>4, <2>7
  <2>9. \A i \in 1..(j - 1) : Payload(t[i], b) => Ending(t[i]) < Beginning(t[j])
    BY <2>3, <2>7
  <2>10. ASSUME NEW p \in (r + 1)..(Beginning(t[j]) - 1) PROVE \E i \in 1..(j - 1) : Carries(t[i], b, p)
    <3>1. Beginning(t[j]) \in Int
      BY <1>3, <2>1, Halves DEF Heeded
    <3>2. q <= r
      <4>1. CASE Payload(m, b)
        <5>1. FlowsAt(s, b, 1, q, w)
          BY <1>1 DEF Flows
        <5>2. q < Beginning(m)
          BY <1>1, <4>1, <5>1 DEF FlowsAt, Heeded
        <5> QED
          BY <1>1, <1>m, <4>1, <5>2, Halves
      <4>2. CASE ~Payload(m, b)
        BY <1>m, <4>2
      <4> QED
        BY <4>1, <4>2
    <3>3. p \in (q + 1)..(Beginning(t[j]) - 1)
      BY <3>1, <3>2
    <3>4. PICK i \in 1..(z - 1) : Carries(s[i], b, p)
      BY <2>7, <3>3
    <3>5. i # 1
      <4>1. Carries(m, b, p) => Payload(m, b) /\ p <= Ending(m)
        BY DEF Carries
      <4>2. Payload(m, b) => Ending(m) \in Int
        BY <1>1, Halves
      <4> QED
        BY <1>1, <1>m, <3>4, <4>1, <4>2
    <3> QED
      BY <2>2, <3>4, <3>5
  <2> QED
    BY <2>7, <2>8, <2>9, <2>10 DEF FlowsAt
<1>4. \A j \in 1..Len(t) : FlowsAt(t, b, j, r, w)
  BY <1>3 DEF FlowsAt
<1>5. r <= w
  BY <1>2, <1>m DEF Flows
<1>6. Flows(t, b, r, w)
  BY <1>4, <1>5 DEF Flows
<1> QED
  BY <1>6 DEF t

\* What is first follows on.
LEMMA HeadFlows ==
  ASSUME NEW s \in Seq(Messages), s # <<>>, NEW b, NEW q \in Int, NEW w \in Int, Flows(s, b, q, w), Payload(Head(s), b)
  PROVE  Beginning(Head(s)) = q + 1 /\ Ending(Head(s)) <= w
<1>1. Head(s) = s[1] /\ Head(s) \in Messages /\ 1 \in 1..Len(s)
  BY TailIs
<1>2. FlowsAt(s, b, 1, q, w)
  BY <1>1 DEF Flows
<1>3. /\ q < Beginning(Head(s)) /\ Ending(Head(s)) <= w
      /\ \A p \in (q + 1)..(Beginning(Head(s)) - 1) : \E i \in 1..(1 - 1) : Carries(s[i], b, p)
  BY <1>1, <1>2 DEF FlowsAt, Heeded
<1>4. Beginning(Head(s)) \in Int
  BY <1>1, Halves
<1>5. (q + 1)..(Beginning(Head(s)) - 1) = {}
  BY <1>3
<1>6. ~(q + 1 <= Beginning(Head(s)) - 1)
  <2> SUFFICES ASSUME q + 1 <= Beginning(Head(s)) - 1 PROVE FALSE
    OBVIOUS
  <2>1. q + 1 \in (q + 1)..(Beginning(Head(s)) - 1)
    BY <1>4
  <2> QED
    BY <1>5, <2>1
<1> QED
  BY <1>3, <1>4, <1>6

LEMMA TailFills ==
  ASSUME NEW s \in Seq(Messages), s # <<>>, NEW b, NEW q \in Int, NEW w \in Int, Fills(s, b, q, w),
         ~Shuts(Head(s), b), NEW r \in Int, q <= r,
         Payload(Head(s), b) => r = Ending(Head(s))
  PROVE  Fills(Tail(s), b, r, w)
<1> DEFINE t == Tail(s)
           m == Head(s)
<1>1. /\ t \in Seq(Messages) /\ m = s[1] /\ m \in Messages
      /\ \A i \in 1..Len(s) : i = 1 \/ (i - 1 \in 1..Len(t) /\ s[i] = t[i - 1])
  BY TailIs
<1>2. Asks(s, "close", b) => Asks(t, "close", b)
  BY AsksEffect DEF Shuts
<1>m. Payload(m, b) => r = Ending(m)
  OBVIOUS
<1> HIDE DEF t, m
<1>3. ASSUME \A p \in (q + 1)..w : \E i \in 1..Len(s) : Carries(s[i], b, p), NEW p \in (r + 1)..w
      PROVE  \E i \in 1..Len(t) : Carries(t[i], b, p)
  <2>1. p \in (q + 1)..w /\ r < p
    OBVIOUS
  <2>2. PICK i \in 1..Len(s) : Carries(s[i], b, p)
    BY <1>3, <2>1
  <2>3. i # 1
    <3>1. Carries(m, b, p) => Payload(m, b) /\ p <= Ending(m)
      BY DEF Carries
    <3> QED
      BY <1>1, <1>m, <2>1, <2>2, <3>1
  <2> QED
    BY <1>1, <2>2, <2>3
<1>4. Fills(t, b, r, w)
  BY <1>2, <1>3 DEF Fills
<1> QED
  BY <1>4 DEF t

\* What arrives of a channel that is cut.
LEMMA CutIs ==
  ASSUME NEW s \in Seq(Messages), NEW n \in 0..Len(s)
  PROVE  /\ SubSeq(s, 1, n) \in Seq(Messages) /\ Len(SubSeq(s, 1, n)) = n
         /\ \A i \in 1..n : SubSeq(s, 1, n)[i] = s[i] /\ i \in 1..Len(s)
OBVIOUS

LEMMA CutFlows ==
  ASSUME NEW s \in Seq(Messages), NEW n \in 0..Len(s), NEW b, NEW q \in Int, NEW w \in Int, Flows(s, b, q, w)
  PROVE  Flows(SubSeq(s, 1, n), b, q, w)
<1> DEFINE t == SubSeq(s, 1, n)
<1>1. Len(t) = n /\ \A i \in 1..n : t[i] = s[i] /\ i \in 1..Len(s)
  BY CutIs
<1> HIDE DEF t
<1>2. ASSUME NEW j \in 1..n PROVE FlowsAt(t, b, j, q, w)
  <2>1. FlowsAt(s, b, j, q, w) /\ j \in Nat \ {0} /\ \A i \in 1..j : t[i] = s[i]
    BY <1>1 DEF Flows
  <2> QED
    BY <2>1, SamePlaces
<1>3. Flows(t, b, q, w)
  BY <1>1, <1>2 DEF Flows
<1> QED
  BY <1>3 DEF t

LEMMA NothingFlows == \A b, q, w : q <= w => Flows(<<>>, b, q, w)
<1>1. \A j \in 1..Len(<<>>) : FALSE
  OBVIOUS
<1> QED
  BY <1>1 DEF Flows

LEMMA SpeaksEffect ==
  ASSUME NEW s \in Seq(Messages), NEW b
  PROVE  /\ \A m \in Messages : Speaks(Append(s, m), b) <=> Speaks(s, b) \/ Payload(m, b)
         /\ s # <<>> => /\ Speaks(Tail(s), b) => Speaks(s, b)
                        /\ Payload(Head(s), b) => Speaks(s, b)
         /\ \A n \in 0..Len(s) : Speaks(SubSeq(s, 1, n), b) => Speaks(s, b)
         /\ ~Speaks(<<>>, b)
<1>1. ASSUME NEW m \in Messages PROVE Speaks(Append(s, m), b) <=> Speaks(s, b) \/ Payload(m, b)
  <2> DEFINE t == Append(s, m)
  <2>1. /\ t[Len(s) + 1] = m /\ (\A i \in 1..Len(s) : t[i] = s[i] /\ i \in 1..Len(t)) /\ Len(s) + 1 \in 1..Len(t)
        /\ \A i \in 1..Len(t) : i = Len(s) + 1 \/ i \in 1..Len(s)
    BY AppendIs
  <2> HIDE DEF t
  <2>2. Speaks(t, b) <=> Speaks(s, b) \/ Payload(m, b)
    BY <2>1 DEF Speaks
  <2> QED
    BY <2>2 DEF t
<1>2. ASSUME s # <<>> PROVE (Speaks(Tail(s), b) => Speaks(s, b)) /\ (Payload(Head(s), b) => Speaks(s, b))
  <2> DEFINE t == Tail(s)
  <2>1. Head(s) = s[1] /\ 1 \in 1..Len(s) /\ \A i \in 1..Len(t) : i + 1 \in 1..Len(s) /\ t[i] = s[i + 1]
    BY <1>2, TailIs
  <2> HIDE DEF t
  <2>2. (Speaks(t, b) => Speaks(s, b)) /\ (Payload(Head(s), b) => Speaks(s, b))
    BY <2>1 DEF Speaks
  <2> QED
    BY <2>2 DEF t
<1>3. ASSUME NEW n \in 0..Len(s), Speaks(SubSeq(s, 1, n), b) PROVE Speaks(s, b)
  BY <1>3, CutIs DEF Speaks
<1>4. ~Speaks(<<>>, b)
  BY DEF Speaks
<1> QED
  BY <1>1, <1>2, <1>3, <1>4

\* A socket is asked for once, before anything else for the browser.
AsksToOpen(m, b) == m.type = "open" /\ m.b = b
OpensOnce(s, b) ==
  \A k \in 1..Len(s) : AsksToOpen(s[k], b) =>
    /\ \A j \in 1..Len(s) : AsksToOpen(s[j], b) => j = k
    /\ \A j \in 1..(k - 1) : ~Payload(s[j], b) /\ ~Shuts(s[j], b)

LEMMA OpensOnceMore ==
  ASSUME NEW s \in Seq(Messages), NEW m \in Messages, NEW b, OpensOnce(s, b),
         AsksToOpen(m, b) => ~Asks(s, "open", b) /\ ~Asks(s, "close", b) /\ ~Speaks(s, b)
  PROVE  OpensOnce(Append(s, m), b)
<1> DEFINE t == Append(s, m)
           z == Len(s) + 1
<1>1. /\ z \in Nat /\ t[z] = m /\ \A i \in 1..Len(s) : t[i] = s[i]
      /\ \A i \in 1..Len(t) : i = z \/ i \in 1..Len(s)
      /\ \A i \in 1..(z - 1) : i \in 1..Len(s)
  BY AppendIs
<1> HIDE DEF t, z
<1>2. ASSUME NEW k \in 1..Len(t), AsksToOpen(t[k], b)
      PROVE  /\ \A j \in 1..Len(t) : AsksToOpen(t[j], b) => j = k
             /\ \A j \in 1..(k - 1) : ~Payload(t[j], b) /\ ~Shuts(t[j], b)
  <2>1. CASE k = z
    <3>1. ~Asks(s, "open", b) /\ ~Asks(s, "close", b) /\ ~Speaks(s, b)
      BY <1>1, <1>2, <2>1
    <3>2. \A i \in 1..Len(s) : ~AsksToOpen(s[i], b) /\ ~Shuts(s[i], b) /\ ~Payload(s[i], b)
      BY <3>1 DEF Asks, Speaks, AsksToOpen, Shuts
    <3> QED
      BY <1>1, <2>1, <3>2
  <2>2. CASE k # z
    <3>1. k \in 1..Len(s) /\ AsksToOpen(s[k], b)
      BY <1>1, <1>2, <2>2
    <3>2. /\ \A j \in 1..Len(s) : AsksToOpen(s[j], b) => j = k
          /\ \A j \in 1..(k - 1) : ~Payload(s[j], b) /\ ~Shuts(s[j], b)
      BY <3>1 DEF OpensOnce
    <3>3. Asks(s, "open", b)
      BY <3>1 DEF Asks, AsksToOpen
    <3>4. ~AsksToOpen(m, b)
      BY <3>3
    <3>5. \A j \in 1..(k - 1) : j \in 1..Len(s)
      BY <3>1
    <3>6. \A j \in 1..Len(t) : AsksToOpen(t[j], b) => j = k
      BY <1>1, <3>2, <3>4
    <3> QED
      BY <1>1, <3>2, <3>5, <3>6
  <2> QED
    BY <2>1, <2>2
<1>3. OpensOnce(t, b)
  BY <1>2 DEF OpensOnce
<1> QED
  BY <1>3 DEF t

LEMMA OpensOnceLess ==
  ASSUME NEW s \in Seq(Messages), NEW b, OpensOnce(s, b)
  PROVE  /\ s # <<>> => /\ OpensOnce(Tail(s), b)
                        /\ AsksToOpen(Head(s), b) => ~Asks(Tail(s), "open", b)
                        /\ Payload(Head(s), b) \/ Shuts(Head(s), b) => ~Asks(s, "open", b)
         /\ \A n \in 0..Len(s) : OpensOnce(SubSeq(s, 1, n), b)
<1>1. ASSUME s # <<>>
      PROVE  /\ OpensOnce(Tail(s), b)
             /\ AsksToOpen(Head(s), b) => ~Asks(Tail(s), "open", b)
             /\ Payload(Head(s), b) \/ Shuts(Head(s), b) => ~Asks(s, "open", b)
  <2> DEFINE t == Tail(s)
             m == Head(s)
  <2>1. /\ m = s[1] /\ 1 \in 1..Len(s)
        /\ \A i \in 1..Len(t) : i + 1 \in 1..Len(s) /\ t[i] = s[i + 1]
    BY <1>1, TailIs
  <2> HIDE DEF t, m
  <2>2. ASSUME NEW k \in 1..Len(t), AsksToOpen(t[k], b)
        PROVE  /\ \A j \in 1..Len(t) : AsksToOpen(t[j], b) => j = k
               /\ \A j \in 1..(k - 1) : ~Payload(t[j], b) /\ ~Shuts(t[j], b)
               /\ ~AsksToOpen(m, b)
    <3>1. k + 1 \in 1..Len(s) /\ AsksToOpen(s[k + 1], b)
      BY <2>1, <2>2
    <3>2. /\ \A j \in 1..Len(s) : AsksToOpen(s[j], b) => j = k + 1
          /\ \A j \in 1..((k + 1) - 1) : ~Payload(s[j], b) /\ ~Shuts(s[j], b)
      BY <3>1 DEF OpensOnce
    <3>3. \A j \in 1..Len(t) : AsksToOpen(t[j], b) => j = k
      <4> SUFFICES ASSUME NEW j \in 1..Len(t), AsksToOpen(t[j], b) PROVE j = k
        OBVIOUS
      <4>1. j + 1 \in 1..Len(s) /\ AsksToOpen(s[j + 1], b)
        BY <2>1
      <4>2. j + 1 = k + 1
        BY <3>2, <4>1
      <4> QED
        BY <4>2
    <3>4. \A j \in 1..(k - 1) : ~Payload(t[j], b) /\ ~Shuts(t[j], b)
      <4> SUFFICES ASSUME NEW j \in 1..(k - 1) PROVE ~Payload(t[j], b) /\ ~Shuts(t[j], b)
        OBVIOUS
      <4>1. j \in 1..Len(t) /\ j + 1 \in 1..((k + 1) - 1)
        OBVIOUS
      <4> QED
        BY <2>1, <3>2, <4>1
    <3>5. ~AsksToOpen(m, b)
      BY <2>1, <3>2
    <3> QED
      BY <3>3, <3>4, <3>5
  <2>3. OpensOnce(t, b)
    BY <2>2 DEF OpensOnce
  <2>4. AsksToOpen(m, b) => ~Asks(t, "open", b)
    BY <2>2 DEF Asks, AsksToOpen
  <2>5. Payload(m, b) \/ Shuts(m, b) => ~Asks(s, "open", b)
    <3> SUFFICES ASSUME Payload(m, b) \/ Shuts(m, b), NEW k \in 1..Len(s), AsksToOpen(s[k], b) PROVE FALSE
      BY DEF Asks, AsksToOpen
    <3>1. \A j \in 1..(k - 1) : ~Payload(s[j], b) /\ ~Shuts(s[j], b)
      BY DEF OpensOnce
    <3>2. k = 1
      <4> SUFFICES ASSUME k # 1 PROVE FALSE
        OBVIOUS
      <4>1. 1 \in 1..(k - 1)
        OBVIOUS
      <4> QED
        BY <2>1, <3>1, <4>1
    <3>3. AsksToOpen(m, b)
      BY <2>1, <3>2
    <3> QED
      BY <3>3 DEF AsksToOpen, Payload, Shuts
  <2> QED
    BY <2>3, <2>4, <2>5 DEF t, m
<1>2. ASSUME NEW n \in 0..Len(s) PROVE OpensOnce(SubSeq(s, 1, n), b)
  <2> DEFINE t == SubSeq(s, 1, n)
  <2>1. Len(t) = n /\ \A i \in 1..n : t[i] = s[i] /\ i \in 1..Len(s)
    BY CutIs
  <2> HIDE DEF t
  <2>2. ASSUME NEW k \in 1..n, AsksToOpen(t[k], b)
        PROVE  /\ \A j \in 1..n : AsksToOpen(t[j], b) => j = k
               /\ \A j \in 1..(k - 1) : ~Payload(t[j], b) /\ ~Shuts(t[j], b)
    <3>1. k \in 1..Len(s) /\ AsksToOpen(s[k], b) /\ \A j \in 1..(k - 1) : j \in 1..n
      BY <2>1, <2>2
    <3>2. /\ \A j \in 1..Len(s) : AsksToOpen(s[j], b) => j = k
          /\ \A j \in 1..(k - 1) : ~Payload(s[j], b) /\ ~Shuts(s[j], b)
      BY <3>1 DEF OpensOnce
    <3> QED
      BY <2>1, <3>1, <3>2
  <2>3. OpensOnce(t, b)
    BY <2>1, <2>2 DEF OpensOnce
  <2> QED
    BY <2>3 DEF t
<1> QED
  BY <1>1, <1>2

-----------------------------------------------------------------------------
(* What a step does to a channel, for a browser it is not about            *)

Quieter(s, t, b) ==
  /\ Speaks(t, b) => Speaks(s, b)
  /\ Asks(t, "open", b) => Asks(s, "open", b)
  /\ OpensOnce(s, b) => OpensOnce(t, b)
FlowsStill(s, t, b) == \A q, w \in Int : Flows(s, b, q, w) => Flows(t, b, q, w)
FillsStill(s, t, b) == \A q, w \in Int : Fills(s, b, q, w) => Fills(t, b, q, w)
Beside(s, t, b) == Quieter(s, t, b) /\ FlowsStill(s, t, b) /\ FillsStill(s, t, b)

LEMMA SameBeside == \A s, b : Beside(s, s, b)
BY DEF Beside, Quieter, FlowsStill, FillsStill

LEMMA BesideTwice ==
  ASSUME NEW s, NEW t, NEW u, NEW b, Beside(s, t, b), Beside(t, u, b)
  PROVE  Beside(s, u, b)
BY DEF Beside, Quieter, FlowsStill, FillsStill

LEMMA MoreBeside ==
  ASSUME NEW s \in Seq(Messages), NEW m \in Messages, NEW b, ~Payload(m, b), ~AsksToOpen(m, b)
  PROVE  Beside(s, Append(s, m), b)
<1>1. Speaks(Append(s, m), b) => Speaks(s, b)
  BY SpeaksEffect
<1>2. Asks(Append(s, m), "open", b) => Asks(s, "open", b)
  BY AsksEffect DEF AsksToOpen
<1>3. OpensOnce(s, b) => OpensOnce(Append(s, m), b)
  BY OpensOnceMore
<1>4. FlowsStill(s, Append(s, m), b)
  <2> SUFFICES ASSUME NEW q \in Int, NEW w \in Int, Flows(s, b, q, w) PROVE Flows(Append(s, m), b, q, w)
    BY DEF FlowsStill
  <2>1. w <= w
    OBVIOUS
  <2> QED
    BY <2>1, FlowsBeside
<1>5. FillsStill(s, Append(s, m), b)
  BY FillsOn DEF FillsStill
<1> QED
  BY <1>1, <1>2, <1>3, <1>4, <1>5 DEF Beside, Quieter

LEMMA AppendTwo ==
  /\ \A s \in Seq(Messages), m \in Messages : s \o <<m>> = Append(s, m)
  /\ \A s \in Seq(Messages), m, n \in Messages : s \o <<m, n>> = Append(Append(s, m), n)
<1>1. ASSUME NEW s \in Seq(Messages), NEW m \in Messages PROVE s \o <<m>> = Append(s, m)
  OBVIOUS
<1>2. ASSUME NEW s \in Seq(Messages), NEW m \in Messages, NEW n \in Messages
      PROVE  s \o <<m, n>> = Append(Append(s, m), n)
  OBVIOUS
<1> QED
  BY <1>1, <1>2

LEMMA LessQuieter ==
  ASSUME NEW s \in Seq(Messages), s # <<>>, NEW b
  PROVE  /\ Quieter(s, Tail(s), b)
         /\ ~Payload(Head(s), b) /\ ~Shuts(Head(s), b) => Beside(s, Tail(s), b)
<1>1. Quieter(s, Tail(s), b)
  BY SpeaksEffect, AsksEffect, OpensOnceLess DEF Quieter
<1>2. ASSUME ~Payload(Head(s), b), ~Shuts(Head(s), b) PROVE Beside(s, Tail(s), b)
  <2>1. FlowsStill(s, Tail(s), b)
    BY <1>2, TailFlows DEF FlowsStill
  <2>2. ASSUME NEW q \in Int, NEW w \in Int, Fills(s, b, q, w) PROVE Fills(Tail(s), b, q, w)
    <3>1. q <= q
      OBVIOUS
    <3> QED
      BY <1>2, <2>2, <3>1, TailFills
  <2> QED
    BY <1>1, <2>1, <2>2 DEF Beside, FillsStill
<1> QED
  BY <1>1, <1>2

LEMMA CutQuieter ==
  ASSUME NEW s \in Seq(Messages), NEW n \in 0..Len(s), NEW b
  PROVE  LET t == Append(SubSeq(s, 1, n), Frame(Bye)) IN Quieter(s, t, b) /\ FlowsStill(s, t, b)
<1> DEFINE u == SubSeq(s, 1, n)
           m == Frame(Bye)
           t == Append(u, m)
<1>1. u \in Seq(Messages) /\ Quieter(s, u, b) /\ FlowsStill(s, u, b)
  <2>1. u \in Seq(Messages)
    BY CutIs
  <2>2. Speaks(u, b) => Speaks(s, b)
    BY SpeaksEffect
  <2>3. Asks(u, "open", b) => Asks(s, "open", b)
    <3>1. Len(u) = n /\ \A i \in 1..n : u[i] = s[i] /\ i \in 1..Len(s)
      BY CutIs
    <3> HIDE DEF u
    <3> QED
      BY <3>1 DEF Asks
  <2>4. OpensOnce(s, b) => OpensOnce(u, b)
    BY OpensOnceLess
  <2>5. FlowsStill(s, u, b)
    BY CutFlows DEF FlowsStill
  <2> QED
    BY <2>1, <2>2, <2>3, <2>4, <2>5 DEF Quieter
<1>2. m \in Messages /\ ~Payload(m, b) /\ ~AsksToOpen(m, b)
  <2>1. Bye \in FrameTypes \ {"message", "chunk", "open", "close"}
    BY DEF Bye, FrameTypes
  <2>2. m \in Messages /\ m.type = Bye
    BY <2>1, FramesAreMessages
  <2> QED
    BY <2>2 DEF Payload, AsksToOpen, Bye
<1> HIDE DEF u, m
<1>3. Beside(u, t, b)
  BY <1>1, <1>2, MoreBeside
<1>4. Quieter(s, t, b) /\ FlowsStill(s, t, b)
  BY <1>1, <1>3 DEF Beside, Quieter, FlowsStill
<1> QED
  BY <1>4 DEF t, u, m

LEMMA GoneQuieter == \A s, b : Quieter(s, <<>>, b) /\ FlowsStill(s, <<>>, b)
<1>1. \A b : ~Speaks(<<>>, b) /\ ~Asks(<<>>, "open", b) /\ OpensOnce(<<>>, b)
  BY DEF Speaks, Asks, OpensOnce
<1>2. \A s, b : FlowsStill(s, <<>>, b)
  BY NothingFlows DEF FlowsStill, Flows
<1> QED
  BY <1>1, <1>2 DEF Quieter

-----------------------------------------------------------------------------
(* The streams                                                             *)

\* A browser that has not connected has said and heard nothing, nor has the
\* local server of a browser that it has not been asked for.
Unused(b) ==
  /\ browser[b].socket = "none" =>
       /\ ~browser[b].entered /\ typed[b] = 0 /\ heard[b] = <<>> /\ local[b].socket = "none"
       /\ \A c \in Conns : ~Speaks(conn[c].up, b) /\ ~Speaks(conn[c].down, b)
  /\ local[b].socket = "none" =>
       /\ ~local[b].mapped /\ local[b].waiting = <<>> /\ said[b] = 0 /\ took[b] = <<>>
       /\ \A c \in Conns : ~Speaks(conn[c].up, b)

\* One connection asks once for its socket, and before it has been opened.
OpenedOnce(b) ==
  /\ \A c, d \in Conns : Asks(conn[c].down, "open", b) /\ Asks(conn[d].down, "open", b) => c = d
  /\ \A c \in Conns : /\ Asks(conn[c].down, "open", b) => local[b].socket = "none"
                      /\ OpensOnce(conn[c].down, b)

\* Its local server is reached by the agent only: an instance that has lost that
\* connection is not connected, since the next one it opens puts the browser out.
Unconnected(r) == r.app = "connecting" /\ r.hub \in {"verifying", "closed"} /\ (r.down = <<>> \/ r.down = <<Frame(Bye)>>)
AtAgent(b) ==
  browser[b].entered /\ ~unpurged =>
    /\ local[b].socket # "none" =>
         /\ local[b].host = conn[agent].of /\ conn[agent].app # "connecting"
         /\ instance[local[b].host].relay \notin {NoConn, agent} => Unconnected(conn[instance[local[b].host].relay])
    /\ \A c \in Conns \ {agent} : ~Speaks(conn[c].up, b)

\* From the local server to the browser.
HalvesHeard(b) == 2 * Len(heard[b]) + (IF browser[b].chunks = {} THEN 0 ELSE 1)
SaidFlows(b) ==
  browser[b].entered /\ ~unpurged /\ browser[b].socket = "open" =>
    /\ browser[b].chunks = {} \/ browser[b].chunks = {<<Len(heard[b]) + 1, 1>>}
    /\ Flows(conn[agent].up, b, HalvesHeard(b), 2 * said[b])
    /\ conn[agent].app = "open" /\ ~conn[agent].cut => Fills(conn[agent].up, b, HalvesHeard(b), 2 * said[b])

\* From the browser to its local server, over the connection that asks for the
\* socket or that of the instance which has it.
Serves(c, b) == Asks(conn[c].down, "open", b) \/ (local[b].mapped /\ instance[local[b].host].relay = c)
HalvesTaken(b) == 2 * (Len(took[b]) + Len(local[b].waiting))
TypedFlows(b) ==
  \A c \in Conns : Serves(c, b) =>
    /\ Flows(conn[c].down, b, HalvesTaken(b), 2 * typed[b])
    /\ c = agent /\ conn[c].hub = "open" /\ ~conn[c].cut => Fills(conn[c].down, b, HalvesTaken(b), 2 * typed[b])
InNumber(b) ==
  /\ InOrder(took[b]) /\ \A k \in 1..Len(local[b].waiting) : local[b].waiting[k] = Len(took[b]) + k
  /\ local[b].mapped => local[b].socket \in {"connecting", "open"}
  /\ local[b].socket # "connecting" => local[b].waiting = <<>>
  /\ ~unpurged => InOrder(heard[b])

Stream(b) == Unused(b) /\ OpenedOnce(b) /\ AtAgent(b) /\ SaidFlows(b) /\ TypedFlows(b) /\ InNumber(b)
Streams == \A b \in Browsers : Stream(b)

-----------------------------------------------------------------------------
(* A browser that a step is not about                                      *)

CalmEntry(b) == (unpurged => unpurged') /\ (browser'[b].entered => browser[b].entered)
CalmBrowser(b) ==
  /\ typed'[b] = typed[b] /\ heard'[b] = heard[b] /\ CalmEntry(b)
  /\ browser'[b].socket = "none" => browser[b].socket = "none"
  /\ browser'[b].socket = "open" => browser[b].socket = "open" /\ browser'[b].chunks = browser[b].chunks
CalmSocket(b) ==
  /\ took'[b] = took[b]
  /\ \/ local'[b] = local[b]
     \/ /\ local[b].socket # "none" /\ local'[b].socket # "none" /\ ~local'[b].mapped /\ local'[b].waiting = <<>>
        /\ local'[b].host = local[b].host
CalmLocal(b) == said'[b] = said[b] /\ CalmSocket(b)
CalmLines(b) == \A c \in Conns : Quieter(conn[c].up, conn'[c].up, b) /\ Quieter(conn[c].down, conn'[c].down, b)
CalmPlace(b) ==
  browser'[b].entered /\ ~unpurged' =>
    /\ agent' = agent /\ conn'[agent].of = conn[agent].of
    /\ conn'[agent].app = "connecting" => conn[agent].app = "connecting"
    /\ \A i \in Instances : instance'[i].relay \notin {NoConn, agent} =>
         \/ Unconnected(conn'[instance'[i].relay])
         \/ instance'[i].relay = instance[i].relay /\ ~Unconnected(conn[instance[i].relay])
HearsOn(c, b) ==
  /\ FlowsStill(conn[c].up, conn'[c].up, b)
  /\ conn'[c].app = "open" /\ ~conn'[c].cut =>
       conn[c].app # "closed" /\ ~conn[c].cut /\ FillsStill(conn[c].up, conn'[c].up, b)
CalmUp(b) == browser'[b].entered /\ browser'[b].socket = "open" /\ ~unpurged' => HearsOn(agent, b)
TakesOn(c, b) ==
  /\ FlowsStill(conn[c].down, conn'[c].down, b)
  /\ c = agent' /\ conn'[c].hub = "open" /\ ~conn'[c].cut =>
       c = agent /\ conn[c].hub = "open" /\ ~conn[c].cut /\ FillsStill(conn[c].down, conn'[c].down, b)
CalmDown(b) == \A c \in Conns : Serves(c, b) /\ Serves(c, b)' => TakesOn(c, b)
CalmRelays == \A i \in Instances : instance'[i].relay \in {instance[i].relay, NoConn} \/ instance[i].relay = NoConn

\* What the invariants that are proved say of a browser.
Backed(b) ==
  /\ browser[b].entered /\ ~unpurged => agent \in Conns
  /\ local[b].mapped => local[b].host \in Instances /\ instance[local[b].host].relay # NoConn
  /\ local[b].socket # "none" => local[b].host \in Instances
  /\ heard[b] \in Seq(1..MaxMessages) /\ said[b] \in Nat /\ typed[b] \in Nat
  /\ took[b] \in Seq(1..MaxMessages) /\ local[b].waiting \in Seq(1..MaxMessages)

LEMMA BackedHolds ==
  ASSUME LinkInv, Hosts, Asked, NEW b \in Browsers
  PROVE  Backed(b)
<1>1. browser[b].entered /\ ~unpurged => agent \in Conns
  BY EnteredHasAgent
<1>2. local[b].mapped => local[b].host \in Instances /\ instance[local[b].host].relay # NoConn
  BY DEF LinkInv, LinkTypes, Hosted, Hosts
<1>3. local[b].socket # "none" => local[b].host \in Instances
  BY DEF LinkInv, LinkTypes, Hosted
<1>4. heard[b] \in Seq(1..MaxMessages) /\ said[b] \in Nat /\ typed[b] \in Nat
  BY RelayLinkAssumption DEF LinkInv, LinkTypes, HubTyped, AppTyped, LinkCounted
<1>5. took[b] \in Seq(1..MaxMessages) /\ local[b].waiting \in Seq(1..MaxMessages)
  BY DEF LinkInv, LinkTypes, AppTyped, LocalStates
<1> QED
  BY <1>1, <1>2, <1>3, <1>4, <1>5 DEF Backed

LEMMA CountsHalves ==
  ASSUME NEW b, Backed(b)
  PROVE  HalvesHeard(b) \in Nat /\ HalvesTaken(b) \in Nat /\ Len(heard[b]) \in Nat /\ Len(took[b]) \in Nat /\ Len(local[b].waiting) \in Nat
<1>1. Len(heard[b]) \in Nat /\ Len(took[b]) \in Nat /\ Len(local[b].waiting) \in Nat
  BY LenProperties DEF Backed
<1> DEFINE h == Len(heard[b])
           t == Len(took[b])
           w == Len(local[b].waiting)
<1>d. HalvesHeard(b) = 2 * h + (IF browser[b].chunks = {} THEN 0 ELSE 1) /\ HalvesTaken(b) = 2 * (t + w)
  BY DEF HalvesHeard, HalvesTaken
<1>e. h \in Nat /\ t \in Nat /\ w \in Nat
  BY <1>1
<1> HIDE DEF h, t, w
<1>2. HalvesHeard(b) \in Nat
  BY <1>d, <1>e
<1>3. HalvesTaken(b) \in Nat
  BY <1>d, <1>e
<1> QED
  BY <1>1, <1>2, <1>3

LEMMA UnusedRests ==
  ASSUME NEW b, Unused(b), CalmBrowser(b), CalmLocal(b), CalmLines(b)
  PROVE  Unused(b)'
<1>1. browser'[b].socket = "none" =>
       /\ ~browser'[b].entered /\ typed'[b] = 0 /\ heard'[b] = <<>> /\ local'[b].socket = "none"
       /\ \A c \in Conns : ~Speaks(conn'[c].up, b) /\ ~Speaks(conn'[c].down, b)
  BY DEF Unused, CalmBrowser, CalmEntry, CalmLocal, CalmSocket, CalmLines, Quieter
<1>2. local'[b].socket = "none" =>
       /\ ~local'[b].mapped /\ local'[b].waiting = <<>> /\ said'[b] = 0 /\ took'[b] = <<>>
       /\ \A c \in Conns : ~Speaks(conn'[c].up, b)
  BY DEF Unused, CalmLocal, CalmSocket, CalmLines, Quieter
<1> QED
  BY <1>1, <1>2 DEF Unused

LEMMA OpenedOnceRests ==
  ASSUME NEW b, OpenedOnce(b), CalmSocket(b), \A c \in Conns : Quieter(conn[c].down, conn'[c].down, b)
  PROVE  OpenedOnce(b)'
<1>1. \A c, d \in Conns : Asks(conn'[c].down, "open", b) /\ Asks(conn'[d].down, "open", b) => c = d
  BY DEF OpenedOnce, Quieter
<1>2. \A c \in Conns : Asks(conn'[c].down, "open", b) => local'[b].socket = "none"
  BY DEF OpenedOnce, CalmSocket, Quieter
<1>3. \A c \in Conns : OpensOnce(conn'[c].down, b)
  BY DEF OpenedOnce, Quieter
<1> QED
  BY <1>1, <1>2, <1>3 DEF OpenedOnce

LEMMA AtAgentRests ==
  ASSUME NEW b, AtAgent(b), CalmEntry(b), CalmSocket(b), CalmPlace(b), Backed(b),
         browser'[b].entered /\ ~unpurged' => \A c \in Conns \ {agent} : Quieter(conn[c].up, conn'[c].up, b)
  PROVE  AtAgent(b)'
<1> SUFFICES ASSUME browser'[b].entered, ~unpurged'
             PROVE  /\ local'[b].socket # "none" =>
                         /\ local'[b].host = conn'[agent'].of /\ conn'[agent'].app # "connecting"
                         /\ instance'[local'[b].host].relay \notin {NoConn, agent'} =>
                              Unconnected(conn'[instance'[local'[b].host].relay])
                    /\ \A c \in Conns \ {agent'} : ~Speaks(conn'[c].up, b)
  BY DEF AtAgent, Unconnected
<1>1. browser[b].entered /\ ~unpurged
  BY DEF CalmEntry
<1>2. agent' = agent /\ conn'[agent].of = conn[agent].of /\ (conn'[agent].app = "connecting" => conn[agent].app = "connecting")
  BY DEF CalmPlace
<1>3. \A c \in Conns \ {agent'} : ~Speaks(conn'[c].up, b)
  BY <1>1, <1>2 DEF AtAgent, Quieter
<1>4. ASSUME local'[b].socket # "none"
      PROVE  /\ local'[b].host = conn'[agent'].of /\ conn'[agent'].app # "connecting"
             /\ instance'[local'[b].host].relay \notin {NoConn, agent'} =>
                  Unconnected(conn'[instance'[local'[b].host].relay])
  <2>1. local[b].socket # "none" /\ local'[b].host = local[b].host /\ local[b].host \in Instances
    BY <1>4 DEF CalmSocket, Backed
  <2>2. /\ local[b].host = conn[agent].of /\ conn[agent].app # "connecting"
        /\ instance[local[b].host].relay \notin {NoConn, agent} => Unconnected(conn[instance[local[b].host].relay])
    BY <1>1, <2>1 DEF AtAgent
  <2>3. instance'[local[b].host].relay \notin {NoConn, agent} =>
         \/ Unconnected(conn'[instance'[local[b].host].relay])
         \/ instance'[local[b].host].relay = instance[local[b].host].relay /\ ~Unconnected(conn[instance[local[b].host].relay])
    BY <2>1 DEF CalmPlace
  <2> QED
    BY <1>2, <2>1, <2>2, <2>3
<1> QED
  BY <1>3, <1>4

LEMMA SaidFlowsRests ==
  ASSUME LinkInv, NEW b, Unused(b), AtAgent(b), SaidFlows(b), CalmBrowser(b), CalmLocal(b), CalmPlace(b), CalmUp(b), Backed(b)
  PROVE  SaidFlows(b)'
<1> SUFFICES ASSUME browser'[b].entered, ~unpurged', browser'[b].socket = "open"
             PROVE  /\ browser'[b].chunks = {} \/ browser'[b].chunks = {<<Len(heard'[b]) + 1, 1>>}
                    /\ Flows(conn'[agent'].up, b, HalvesHeard(b)', 2 * said'[b])
                    /\ conn'[agent'].app = "open" /\ ~conn'[agent'].cut =>
                         Fills(conn'[agent'].up, b, HalvesHeard(b)', 2 * said'[b])
  BY DEF SaidFlows
<1>1. browser[b].entered /\ ~unpurged /\ browser[b].socket = "open" /\ browser'[b].chunks = browser[b].chunks
      /\ heard'[b] = heard[b] /\ said'[b] = said[b]
  BY DEF CalmBrowser, CalmEntry, CalmLocal
<1>2. HalvesHeard(b)' = HalvesHeard(b)
  BY <1>1 DEF HalvesHeard
<1>3. /\ agent' = agent
      /\ conn'[agent].app = "connecting" => conn[agent].app = "connecting"
      /\ FlowsStill(conn[agent].up, conn'[agent].up, b)
      /\ conn'[agent].app = "open" /\ ~conn'[agent].cut =>
           /\ conn[agent].app # "closed" /\ ~conn[agent].cut
           /\ FillsStill(conn[agent].up, conn'[agent].up, b)
  BY DEF CalmPlace, CalmUp, HearsOn
<1>4. HalvesHeard(b) \in Int /\ HalvesHeard(b) >= 0 /\ 2 * said[b] \in Int
  BY CountsHalves DEF Backed
<1>5. /\ browser[b].chunks = {} \/ browser[b].chunks = {<<Len(heard[b]) + 1, 1>>}
      /\ Flows(conn[agent].up, b, HalvesHeard(b), 2 * said[b])
      /\ conn[agent].app = "open" /\ ~conn[agent].cut => Fills(conn[agent].up, b, HalvesHeard(b), 2 * said[b])
  BY <1>1 DEF SaidFlows
<1>6. Flows(conn'[agent].up, b, HalvesHeard(b), 2 * said[b])
  BY <1>3, <1>4, <1>5 DEF FlowsStill
<1>8. conn[agent].app # "closed" => conn[agent].app \in {"connecting", "open"}
  BY <1>1, LineIs DEF Backed, LineStates, AppStates
<1>7. ASSUME conn'[agent].app = "open", ~conn'[agent].cut PROVE Fills(conn'[agent].up, b, HalvesHeard(b), 2 * said[b])
  <2>1. CASE conn[agent].app = "open"
    <3>1. Fills(conn[agent].up, b, HalvesHeard(b), 2 * said[b])
      BY <1>3, <1>5, <1>7, <2>1
    <3> QED
      BY <1>3, <1>4, <1>7, <3>1 DEF FillsStill
  <2>2. CASE conn[agent].app = "connecting"
    <3>1. local[b].socket = "none"
      BY <1>1, <2>2 DEF AtAgent
    <3>2. said[b] = 0
      BY <3>1 DEF Unused
    <3>3. \A p \in (HalvesHeard(b) + 1)..(2 * said[b]) : FALSE
      BY <1>4, <3>2
    <3> QED
      BY <3>3 DEF Fills
  <2> QED
    BY <1>3, <1>7, <1>8, <2>1, <2>2
<1> QED
  BY <1>1, <1>2, <1>3, <1>5, <1>6, <1>7

LEMMA TypedFlowsRests ==
  ASSUME NEW b, OpenedOnce(b), TypedFlows(b), typed'[b] = typed[b], CalmSocket(b),
         \A c \in Conns : Quieter(conn[c].down, conn'[c].down, b), CalmDown(b), CalmRelays, Backed(b)
  PROVE  TypedFlows(b)'
<1> SUFFICES ASSUME NEW c \in Conns, Serves(c, b)'
             PROVE  /\ Flows(conn'[c].down, b, HalvesTaken(b)', 2 * typed'[b])
                    /\ c = agent' /\ conn'[c].hub = "open" /\ ~conn'[c].cut =>
                         Fills(conn'[c].down, b, HalvesTaken(b)', 2 * typed'[b])
  BY DEF TypedFlows
<1>1. Serves(c, b) /\ local'[b] = local[b]
  <2>1. CASE Asks(conn'[c].down, "open", b)
    <3>1. Asks(conn[c].down, "open", b)
      BY <2>1 DEF Quieter
    <3>2. local[b].socket = "none"
      BY <3>1 DEF OpenedOnce
    <3> QED
      BY <3>1, <3>2 DEF CalmSocket, Serves
  <2>2. CASE local'[b].mapped /\ instance'[local'[b].host].relay = c
    <3>1. local'[b] = local[b] /\ local[b].mapped
      BY <2>2 DEF CalmSocket
    <3>2. instance[local[b].host].relay # NoConn /\ local[b].host \in Instances
      BY <3>1 DEF Backed
    <3>3. instance[local[b].host].relay = c
      BY <2>2, <3>1, <3>2, NoNumber DEF CalmRelays
    <3> QED
      BY <3>1, <3>3 DEF Serves
  <2> QED
    BY <2>1, <2>2 DEF Serves
<1>2. HalvesTaken(b)' = HalvesTaken(b) /\ typed'[b] = typed[b]
  BY <1>1 DEF HalvesTaken, CalmSocket
<1>3. HalvesTaken(b) \in Int /\ 2 * typed[b] \in Int
  BY CountsHalves DEF Backed
<1>4. /\ Flows(conn[c].down, b, HalvesTaken(b), 2 * typed[b])
      /\ c = agent /\ conn[c].hub = "open" /\ ~conn[c].cut => Fills(conn[c].down, b, HalvesTaken(b), 2 * typed[b])
  BY <1>1 DEF TypedFlows
<1>5. /\ FlowsStill(conn[c].down, conn'[c].down, b)
      /\ c = agent' /\ conn'[c].hub = "open" /\ ~conn'[c].cut =>
           c = agent /\ conn[c].hub = "open" /\ ~conn[c].cut /\ FillsStill(conn[c].down, conn'[c].down, b)
  BY <1>1 DEF CalmDown, TakesOn
<1>6. Flows(conn'[c].down, b, HalvesTaken(b), 2 * typed[b])
  BY <1>3, <1>4, <1>5 DEF FlowsStill
<1>7. c = agent' /\ conn'[c].hub = "open" /\ ~conn'[c].cut => Fills(conn'[c].down, b, HalvesTaken(b), 2 * typed[b])
  BY <1>3, <1>4, <1>5 DEF FillsStill
<1> QED
  BY <1>2, <1>6, <1>7

LEMMA InNumberRests ==
  ASSUME NEW b, InNumber(b), CalmSocket(b), ~unpurged' => InOrder(heard'[b])
  PROVE  InNumber(b)'
<1>1. InOrder(took'[b])
  BY DEF InNumber, CalmSocket
<1>2. CASE local'[b] = local[b]
  BY <1>1, <1>2 DEF InNumber, CalmSocket
<1>3. CASE ~local'[b].mapped /\ local'[b].waiting = <<>>
  BY <1>1, <1>3 DEF InNumber
<1> QED
  BY <1>2, <1>3 DEF CalmSocket

Calm(b) == CalmBrowser(b) /\ CalmLocal(b) /\ CalmLines(b) /\ CalmPlace(b) /\ CalmUp(b) /\ CalmDown(b)

LEMMA StreamRests ==
  ASSUME NEW b \in Browsers, LinkInv, Links, Stream(b), Calm(b), CalmRelays
  PROVE  Stream(b)'
<1>1. Backed(b)
  BY BackedHolds DEF Links
<1>2. /\ Unused(b) /\ OpenedOnce(b) /\ AtAgent(b) /\ SaidFlows(b) /\ TypedFlows(b) /\ InNumber(b)
      /\ CalmBrowser(b) /\ CalmLocal(b) /\ CalmLines(b) /\ CalmPlace(b) /\ CalmUp(b) /\ CalmDown(b)
      /\ CalmSocket(b) /\ CalmEntry(b) /\ typed'[b] = typed[b]
  BY DEF Stream, Calm, CalmLocal, CalmBrowser
<1>q. /\ \A c \in Conns : Quieter(conn[c].up, conn'[c].up, b)
      /\ \A c \in Conns : Quieter(conn[c].down, conn'[c].down, b)
  BY <1>2 DEF CalmLines
<1>3. Unused(b)' /\ OpenedOnce(b)'
  BY <1>2, <1>q, UnusedRests, OpenedOnceRests
<1>4. AtAgent(b)'
  BY <1>1, <1>2, <1>q, AtAgentRests
<1>5. SaidFlows(b)'
  BY <1>1, <1>2, SaidFlowsRests
<1>6. TypedFlows(b)'
  BY <1>1, <1>2, <1>q, TypedFlowsRests
<1>7. InNumber(b)'
  <2>1. ~unpurged' => InOrder(heard'[b])
    BY <1>2 DEF InNumber, CalmBrowser, CalmEntry
  <2> QED
    BY <1>2, <2>1, InNumberRests
<1> QED
  BY <1>3, <1>4, <1>5, <1>6, <1>7 DEF Stream

-----------------------------------------------------------------------------
(* Steps on the connections, for a browser that they are not about         *)

Smooth(c, b) ==
  /\ Quieter(conn[c].up, conn'[c].up, b) /\ Quieter(conn[c].down, conn'[c].down, b)
  /\ c = agent /\ browser'[b].entered =>
       /\ conn'[c].of = conn[c].of /\ (conn'[c].app = "connecting" => conn[c].app = "connecting")
       /\ browser'[b].socket = "open" => HearsOn(c, b)
  /\ Unconnected(conn[c]) => Unconnected(conn'[c]) \/ conn'[c].app = "closed"
  /\ Serves(c, b)' => /\ FlowsStill(conn[c].down, conn'[c].down, b)
                      /\ conn'[c].hub = "open" /\ ~conn'[c].cut =>
                           conn[c].hub = "open" /\ ~conn[c].cut /\ FillsStill(conn[c].down, conn'[c].down, b)

LEMMA SameSmooth ==
  ASSUME NEW c \in Conns, NEW b, conn'[c] = conn[c]
  PROVE  Smooth(c, b)
<1>1. Beside(conn[c].up, conn'[c].up, b) /\ Beside(conn[c].down, conn'[c].down, b)
  BY SameBeside
<1>2. HearsOn(c, b)
  BY <1>1 DEF Beside, HearsOn
<1>3. Unconnected(conn[c]) => Unconnected(conn'[c])
  OBVIOUS
<1> QED
  BY <1>1, <1>2, <1>3 DEF Smooth, Beside

LEMMA SmoothRests ==
  ASSUME NEW b \in Browsers, LinkInv, Links, LinkInv', Stream(b), CalmBrowser(b), CalmLocal(b),
         agent' \in {agent, NoConn}, agent' = agent \/ ~browser'[b].entered,
         \A i \in Instances : \/ instance'[i].relay \in {instance[i].relay, NoConn}
                              \/ instance[i].relay = NoConn /\ Unconnected(conn'[instance'[i].relay]),
         \A c \in Conns : Smooth(c, b)
  PROVE  Stream(b)'
<1>1. CalmLines(b)
  BY DEF CalmLines, Smooth
<1>2. CalmRelays
  BY DEF CalmRelays
<1>3. browser'[b].entered /\ ~unpurged' => agent' = agent /\ agent \in Conns /\ Smooth(agent, b)
  BY EnteredHasAgent DEF CalmBrowser, CalmEntry, Links
<1>4. CalmPlace(b)
  <2> SUFFICES ASSUME browser'[b].entered, ~unpurged'
               PROVE  /\ agent' = agent /\ conn'[agent].of = conn[agent].of
                      /\ conn'[agent].app = "connecting" => conn[agent].app = "connecting"
                      /\ \A i \in Instances : instance'[i].relay \notin {NoConn, agent} =>
                           \/ Unconnected(conn'[instance'[i].relay])
                           \/ instance'[i].relay = instance[i].relay /\ ~Unconnected(conn[instance[i].relay])
    BY DEF CalmPlace
  <2>1. agent' = agent /\ conn'[agent].of = conn[agent].of /\ (conn'[agent].app = "connecting" => conn[agent].app = "connecting")
    BY <1>3 DEF Smooth
  <2>2. ASSUME NEW i \in Instances, instance'[i].relay \notin {NoConn, agent}
        PROVE  \/ Unconnected(conn'[instance'[i].relay])
               \/ instance'[i].relay = instance[i].relay /\ ~Unconnected(conn[instance[i].relay])
    <3>1. CASE instance[i].relay = NoConn /\ Unconnected(conn'[instance'[i].relay])
      BY <3>1
    <3>2. CASE instance'[i].relay = instance[i].relay
      <4> DEFINE r == instance[i].relay
      <4>1. r \in Conns
        BY <2>2, <3>2 DEF LinkInv, LinkTypes, InstanceStates
      <4>2. Unconnected(conn[r]) => Unconnected(conn'[r]) \/ conn'[r].app = "closed"
        BY <4>1 DEF Smooth
      <4>3. conn'[instance'[i].relay].app # "closed"
        BY <2>2 DEF LinkInv, Owners
      <4> QED
        BY <3>2, <4>2, <4>3
    <3> QED
      BY <2>2, <3>1, <3>2
  <2> QED
    BY <2>1, <2>2
<1>5. CalmUp(b)
  BY <1>3 DEF CalmUp, Smooth
<1>6. CalmDown(b)
  BY NoNumber DEF CalmDown, Smooth, TakesOn
<1> QED
  BY <1>1, <1>2, <1>4, <1>5, <1>6, StreamRests DEF Calm

\* The hub sends something that is not about the browser, or that closes its socket.
LEMMA DownSmooth ==
  ASSUME LinkInv, NEW m \in Messages, m.type # "replaced", conn' = Down(conn, agent, m), UNCHANGED <<instance, late, agent>>,
         NEW b, ~Payload(m, b), ~AsksToOpen(m, b), NEW c \in Conns
  PROVE  Smooth(c, b)
<1>1. conn'[c] = IF c = agent /\ conn[c].hub = "open" /\ ~conn[c].cut
                 THEN [conn[c] EXCEPT !.down = Append(@, m)] ELSE conn[c]
  BY HubTells
<1>2. CASE c = agent /\ conn[c].hub = "open" /\ ~conn[c].cut
  <2>1. /\ conn'[c].of = conn[c].of /\ conn'[c].app = conn[c].app /\ conn'[c].up = conn[c].up
        /\ conn'[c].down = Append(conn[c].down, m) /\ conn'[c].cut = conn[c].cut
        /\ conn[c].down \in Seq(Messages)
    BY <1>1, <1>2, LineIs DEF LineStates
  <2>2. Beside(conn[c].up, conn'[c].up, b) /\ Beside(conn[c].down, conn'[c].down, b)
    BY <2>1, SameBeside, MoreBeside
  <2>3. HearsOn(c, b)
    BY <2>1, <2>2 DEF HearsOn, Beside
  <2>4. ~Unconnected(conn[c])
    BY <1>2 DEF Unconnected
  <2> QED
    BY <1>2, <2>1, <2>2, <2>3, <2>4 DEF Smooth, Beside
<1>3. CASE ~(c = agent /\ conn[c].hub = "open" /\ ~conn[c].cut)
  BY <1>1, <1>3, SameSmooth
<1> QED
  BY <1>2, <1>3

\* What is said beside it.
Aside(ms, b) == \A s \in Seq(Messages) : Beside(s, s \o ms, b)

LEMMA AsideIs ==
  ASSUME NEW b
  PROVE  /\ \A m \in Messages : ~Payload(m, b) /\ ~AsksToOpen(m, b) => Aside(<<m>>, b)
         /\ \A m, n \in Messages : ~Payload(m, b) /\ ~AsksToOpen(m, b) /\ ~Payload(n, b) /\ ~AsksToOpen(n, b) =>
              Aside(<<m, n>>, b)
<1>1. ASSUME NEW m \in Messages, ~Payload(m, b), ~AsksToOpen(m, b) PROVE Aside(<<m>>, b)
  BY <1>1, AppendTwo, MoreBeside DEF Aside
<1>2. ASSUME NEW m \in Messages, ~Payload(m, b), ~AsksToOpen(m, b), NEW n \in Messages, ~Payload(n, b), ~AsksToOpen(n, b)
      PROVE  Aside(<<m, n>>, b)
  <2> SUFFICES ASSUME NEW s \in Seq(Messages) PROVE Beside(s, s \o <<m, n>>, b)
    BY DEF Aside
  <2> DEFINE t == Append(s, m)
  <2>1. s \o <<m, n>> = Append(t, n) /\ t \in Seq(Messages)
    BY AppendTwo, AppendIs
  <2>2. Beside(s, t, b)
    BY <1>2, MoreBeside
  <2> HIDE DEF t
  <2>3. Beside(t, Append(t, n), b)
    BY <1>2, <2>1, MoreBeside
  <2> QED
    BY <2>1, <2>2, <2>3, BesideTwice
<1> QED
  BY <1>1, <1>2

LEMMA UpSmooth ==
  ASSUME LinkInv, NEW c \in Conns, NEW ms, NEW b, Aside(ms, b),
         conn'[c] = conn[c] \/ (conn[c].app = "open" /\ conn'[c] = [conn[c] EXCEPT !.up = @ \o ms])
  PROVE  Smooth(c, b)
<1>1. CASE conn'[c] = conn[c]
  BY <1>1, SameSmooth
<1>2. CASE conn[c].app = "open" /\ conn'[c] = [conn[c] EXCEPT !.up = @ \o ms]
  <2>1. /\ conn'[c].of = conn[c].of /\ conn'[c].app = conn[c].app /\ conn'[c].down = conn[c].down
        /\ conn'[c].up = conn[c].up \o ms /\ conn'[c].cut = conn[c].cut /\ conn'[c].hub = conn[c].hub
        /\ conn[c].up \in Seq(Messages)
    BY <1>2, LineIs DEF LineStates
  <2>2. Beside(conn[c].up, conn'[c].up, b) /\ Beside(conn[c].down, conn'[c].down, b)
    BY <2>1, SameBeside DEF Aside
  <2>3. HearsOn(c, b)
    BY <1>2, <2>1, <2>2 DEF HearsOn, Beside
  <2>4. ~Unconnected(conn[c])
    BY <1>2 DEF Unconnected
  <2> QED
    BY <2>1, <2>2, <2>3, <2>4 DEF Smooth, Beside
<1> QED
  BY <1>1, <1>2

\* An instance takes something from the hub.
LEMMA TakesSmooth ==
  ASSUME LinkInv, NEW i \in Instances, NEW c \in Conns, Takes(i, c), NEW b, NEW d \in Conns,
         \A x \in Conns \ {c} : conn'[x] = conn[x],
         conn'[c].of = i, conn'[c].hub = conn[c].hub, conn'[c].cut = conn[c].cut, conn'[c].app = "open",
         conn'[c].down = Tail(conn[c].down),
         Beside(conn[c].up, conn'[c].up, b),
         Serves(c, b)' => ~Payload(Head(conn[c].down), b) /\ ~Shuts(Head(conn[c].down), b)
  PROVE  Smooth(d, b)
<1>1. CASE d = c
  <2>1. conn[c].down \in Seq(Messages) /\ conn[c].down # <<>> /\ Head(conn[c].down).type # Bye
    BY LineIs DEF Takes, LineStates
  <2>2. conn[c].of = i /\ conn[c].app # "closed"
    BY TakenEffect
  <2>3. ~Unconnected(conn[c])
    <3>1. Head(<<Frame(Bye)>>).type = Bye
      BY DEF Frame, M
    <3> QED
      BY <2>1, <3>1 DEF Unconnected
  <2>4. Quieter(conn[c].down, conn'[c].down, b) /\ (Serves(c, b)' => Beside(conn[c].down, conn'[c].down, b))
    BY <2>1, LessQuieter
  <2>5. HearsOn(c, b)
    BY <2>2 DEF HearsOn, Beside
  <2> QED
    BY <1>1, <2>2, <2>3, <2>4, <2>5 DEF Smooth, Beside
<1>2. CASE d # c
  BY <1>2, SameSmooth
<1> QED
  BY <1>1, <1>2

\* An instance connects.
LEMMA ConnectSmooth ==
  ASSUME LinkInv, NEW c \in Conns, conn[c] = Closed, conn'[c].app = "connecting", conn'[c].hub = "verifying",
         conn'[c].down = <<>>, conn'[c].up = <<>>, NEW b
  PROVE  Smooth(c, b) /\ Unconnected(conn'[c])
<1>1. conn[c].up = <<>> /\ conn[c].down = <<>> /\ conn[c].hub = "closed" /\ conn[c].app = "closed"
  BY DEF Closed
<1>2. c # agent
  BY <1>1, AgentIs, NoNumber
<1>3. Beside(conn[c].up, conn'[c].up, b) /\ Beside(conn[c].down, conn'[c].down, b)
  BY <1>1, SameBeside
<1>4. HearsOn(c, b)
  BY <1>3 DEF HearsOn, Beside
<1>5. Unconnected(conn'[c])
  BY DEF Unconnected
<1> QED
  BY <1>2, <1>3, <1>4, <1>5 DEF Smooth, Beside

\* An instance loses its connection.
LEMMA LeavesSmooth ==
  ASSUME LinkInv, NEW i \in Instances, instance[i].relay # NoConn, conn' = AppClosed(conn, instance[i].relay),
         instance'[i].relay = NoConn, \A x \in Instances \ {i} : instance'[x] = instance[x],
         NEW b \in Browsers, local'[b].mapped => local'[b].host \in Instances, NEW d \in Conns
  PROVE  Smooth(d, b)
<1>0. PICK c \in Conns : c = instance[i].relay
  BY DEF LinkInv, LinkTypes, InstanceStates
<1>1. conn[c].app # "closed" /\ conn[c].of = i /\ LinesOK(conn) /\ conn[c] \in LineStates
  BY <1>0, LineIs DEF LinkInv, LinkTypes, Owners
<1> DEFINE up == IF conn[c].cut THEN conn[c].up ELSE Append(conn[c].up, Frame(Bye))
           n == [conn[c] EXCEPT !.app = "closed", !.down = <<>>, !.up = up]
<1>2. /\ conn'[c].app = "closed" /\ (\A x \in Conns \ {c} : conn'[x] = conn[x])
      /\ conn'[c] = Tidied(n)
  <2>1. conn' = AppClosed(conn, c)
    BY <1>0
  <2>2. /\ AppClosed(conn, c)[c] =
             Tidied([conn[c] EXCEPT !.app = "closed", !.down = <<>>, !.up = IF conn[c].cut THEN @ ELSE Append(@, Frame(Bye))])
        /\ AppClosed(conn, c)[c].app = "closed"
        /\ \A x \in Conns \ {c} : AppClosed(conn, c)[x] = conn[x]
    BY <1>1, AppClosedEffect
  <2> QED
    BY <1>1, <2>1, <2>2 DEF LineStates
<1>3. Beside(conn[c].up, up, b)
  <2>1. Frame(Bye) \in Messages /\ ~Payload(Frame(Bye), b) /\ ~AsksToOpen(Frame(Bye), b)
    <3>1. Frame(Bye) \in Messages /\ Frame(Bye).type = Bye
      BY FramesAreMessages DEF FrameTypes, Bye
    <3> QED
      BY <3>1 DEF Payload, AsksToOpen, Bye
  <2> QED
    BY <1>1, <2>1, SameBeside, MoreBeside DEF LineStates
<1>4. n.up = up /\ n.down = <<>> /\ n.of = conn[c].of /\ n.hub = conn[c].hub /\ n.app = "closed"
  BY <1>1 DEF LineStates
<1> HIDE DEF n, up
<1>5. CASE d # c
  BY <1>2, <1>5, SameSmooth
<1>6. CASE d = c
  <2>1. conn'[c].down = <<>> /\ conn'[c].up \in {up, <<>>} /\ (conn'[c] = n \/ n.hub = "closed")
    BY <1>2, <1>4 DEF Tidied, Closed
  <2>2. ~Serves(c, b)'
    <3>1. ~Asks(conn'[c].down, "open", b)
      BY <2>1 DEF Asks
    <3>2. ~(local'[b].mapped /\ instance'[local'[b].host].relay = c)
      <4> SUFFICES ASSUME local'[b].mapped, instance'[local'[b].host].relay = c PROVE FALSE
        OBVIOUS
      <4>1. PICK h \in Instances : h = local'[b].host
        OBVIOUS
      <4>2. h # i
        BY <4>1, NoNumber
      <4>3. instance[h].relay = c
        BY <4>1, <4>2
      <4> QED
        BY <1>1, <4>2, <4>3, NoNumber DEF LinkInv, Owners
    <3> QED
      BY <3>1, <3>2 DEF Serves
  <2>3. Quieter(conn[c].up, conn'[c].up, b) /\ FlowsStill(conn[c].up, conn'[c].up, b)
    BY <1>3, <2>1, GoneQuieter DEF Beside
  <2>4. Quieter(conn[c].down, conn'[c].down, b)
    BY <2>1, GoneQuieter
  <2>5. c = agent => conn'[c] = n
    BY <1>1, <1>4, <2>1, AgentIs, NoNumber
  <2> QED
    BY <1>1, <1>2, <1>4, <1>6, <2>2, <2>3, <2>4, <2>5 DEF Smooth, HearsOn
<1> QED
  BY <1>5, <1>6

LEMMA EndsSmooth ==
  ASSUME LinkInv, NEW c \in Conns, NEW b, c = agent => ~browser'[b].entered,
         conn'[c] = Tidied([conn[c] EXCEPT !.hub = "closed", !.up = <<>>])
  PROVE  Smooth(c, b)
<1> DEFINE n == [conn[c] EXCEPT !.hub = "closed", !.up = <<>>]
<1>1. n.up = <<>> /\ n.down = conn[c].down /\ n.hub = "closed" /\ n.app = conn[c].app
  BY LineIs DEF LineStates
<1>2. conn'[c] = Tidied(n)
  OBVIOUS
<1> HIDE DEF n
<1>3. conn'[c].up = <<>> /\ conn'[c].down \in {conn[c].down, <<>>} /\ conn'[c].hub = "closed"
      /\ (conn'[c] = n \/ conn'[c].app = "closed")
  BY <1>1, <1>2 DEF Tidied, Closed
<1>4. Quieter(conn[c].up, conn'[c].up, b) /\ Quieter(conn[c].down, conn'[c].down, b)
      /\ FlowsStill(conn[c].down, conn'[c].down, b)
  BY <1>3, GoneQuieter, SameBeside DEF Beside
<1>5. Unconnected(conn[c]) => Unconnected(conn'[c]) \/ conn'[c].app = "closed"
  BY <1>1, <1>3 DEF Unconnected
<1> QED
  BY <1>3, <1>4, <1>5 DEF Smooth

LEMMA CutSmooth ==
  ASSUME LinkInv, NEW c \in Conns, Cut(c), NEW b, NEW d \in Conns
  PROVE  Smooth(d, b)
<1>1. \A x \in Conns \ {c} : conn'[x] = conn[x]
  BY CutEffect
<1>2. PICK k \in 0..Len(conn[c].up), l \in 0..Len(conn[c].down) :
        conn'[c] = [conn[c] EXCEPT !.cut = TRUE, !.up = Append(SubSeq(@, 1, k), Frame(Bye)),
                                   !.down = Append(SubSeq(@, 1, l), Frame(Bye))]
  BY CutEffect
<1>3. conn[c] \in LineStates /\ conn[c].down \in Seq(Messages) /\ conn[c].up \in Seq(Messages) /\ LineOK(conn[c])
  BY LineIs DEF LineStates
<1>4. /\ conn'[c].cut /\ conn'[c].app = conn[c].app /\ conn'[c].of = conn[c].of /\ conn'[c].hub = conn[c].hub
      /\ conn'[c].down = Append(SubSeq(conn[c].down, 1, l), Frame(Bye))
      /\ conn'[c].up = Append(SubSeq(conn[c].up, 1, k), Frame(Bye))
  BY <1>2, <1>3 DEF LineStates
<1>5. /\ Quieter(conn[c].up, conn'[c].up, b) /\ FlowsStill(conn[c].up, conn'[c].up, b)
      /\ Quieter(conn[c].down, conn'[c].down, b) /\ FlowsStill(conn[c].down, conn'[c].down, b)
  BY <1>3, <1>4, CutQuieter
<1>6. HearsOn(c, b)
  BY <1>4, <1>5 DEF HearsOn
<1>7. Unconnected(conn[c]) => Unconnected(conn'[c])
  <2> SUFFICES ASSUME Unconnected(conn[c]) PROVE Unconnected(conn'[c])
    OBVIOUS
  <2>1. conn[c].hub = "verifying" /\ ~conn[c].cut
    BY CutEffect DEF Unconnected
  <2>2. conn[c].down = <<>>
    BY <1>3, <2>1 DEF LineOK
  <2>3. l = 0
    BY <2>2
  <2>4. SubSeq(conn[c].down, 1, l) = <<>>
    BY <1>3, <2>3
  <2>5. Append(<<>>, Frame(Bye)) = <<Frame(Bye)>>
    OBVIOUS
  <2> QED
    BY <1>4, <2>1, <2>4, <2>5 DEF Unconnected
<1>8. Smooth(c, b)
  BY <1>4, <1>5, <1>6, <1>7 DEF Smooth
<1> QED
  BY <1>1, <1>8, SameSmooth

LEMMA CutStreams ==
  ASSUME LinkInv, Links, LinkInv', NEW c \in Conns, Cut(c), NEW b \in Browsers, Stream(b)
  PROVE  Stream(b)'
<1>1. UNCHANGED <<hubVars, appVars, typed>>
  BY DEF Cut
<1>2. CalmBrowser(b) /\ CalmLocal(b) /\ agent' = agent /\ instance' = instance
  BY <1>1 DEF hubVars, appVars, CalmBrowser, CalmEntry, CalmLocal, CalmSocket
<1> QED
  BY <1>2, CutSmooth, SmoothRests

LEMMA PurgedCalm ==
  ASSUME LinkInv, browser' = Purged(browser), NEW b \in Browsers
  PROVE  /\ ~browser'[b].entered
         /\ browser'[b].socket = "none" => browser[b].socket = "none"
         /\ browser'[b].socket = "open" => browser[b].socket = "open" /\ browser'[b].chunks = browser[b].chunks
<1>1. browser[b] \in BrowserStates
  BY DEF LinkInv, LinkTypes, HubTyped
<1>2. CASE browser[b].entered
  <2>1. browser'[b] = [entered |-> FALSE, chunks |-> {}, socket |-> IF browser[b].socket = "open" THEN "closing" ELSE browser[b].socket]
    BY <1>2 DEF Purged
  <2>2. browser'[b].socket = IF browser[b].socket = "open" THEN "closing" ELSE browser[b].socket
    BY <2>1
  <2>3. ~browser'[b].entered
    BY <2>1
  <2> QED
    BY <2>2, <2>3
<1>3. CASE ~browser[b].entered
  <2>1. browser'[b] = browser[b]
    BY <1>3 DEF Purged
  <2> QED
    BY <1>3, <2>1
<1> QED
  BY <1>2, <1>3

LEMMA HubClosedStreams ==
  ASSUME LinkInv, Links, LinkInv', NEW c \in Conns, HubClosed(c), NEW b \in Browsers, Stream(b)
  PROVE  Stream(b)'
<1>1. /\ conn'[c] = Tidied([conn[c] EXCEPT !.hub = "closed", !.up = <<>>])
      /\ \A d \in Conns \ {c} : conn'[d] = conn[d]
  BY HubClosedKeeps
<1>2. UNCHANGED <<heard, unpurged, late, appVars, typed, events>>
  BY DEF HubClosed
<1>3. CalmLocal(b) /\ instance' = instance
  BY <1>2 DEF appVars, CalmLocal, CalmSocket
<1>4. CASE agent = c
  <2>1. browser' = Purged(browser) /\ agent' = NoConn
    BY <1>4 DEF HubClosed
  <2>2. ~browser'[b].entered /\ CalmBrowser(b)
    BY <1>2, <2>1, PurgedCalm DEF CalmBrowser, CalmEntry
  <2>3. \A d \in Conns : Smooth(d, b)
    BY <1>1, <2>2, EndsSmooth, SameSmooth
  <2> QED
    BY <1>3, <2>1, <2>2, <2>3, SmoothRests
<1>5. CASE agent # c
  <2>1. UNCHANGED <<agent, browser>>
    BY <1>5 DEF HubClosed
  <2>2. CalmBrowser(b)
    BY <1>2, <2>1 DEF CalmBrowser, CalmEntry
  <2>3. \A d \in Conns : Smooth(d, b)
    BY <1>1, <1>5, EndsSmooth, SameSmooth
  <2> QED
    BY <1>3, <2>1, <2>2, <2>3, SmoothRests
<1> QED
  BY <1>4, <1>5

\* A connection is accepted: the browsers of its predecessor are gone, or kept.
LEMMA AttachStreams ==
  ASSUME LinkInv, Links, LinkInv', NEW c \in Conns, Attach(c), NEW b \in Browsers, Stream(b)
  PROVE  Stream(b)'
<1>v. conn[c].hub = "verifying" /\ LineOK(conn[c]) /\ conn[c] \in LineStates
  BY LineIs DEF Attach
<1>1. CASE /\ conn[c].up # <<>>
           /\ conn' = Tidy([conn EXCEPT ![c].hub = "closed", ![c].up = <<>>])
           /\ UNCHANGED <<hubVars, appVars, typed, events>>
  <2>1. /\ conn'[c] = Tidied([conn[c] EXCEPT !.hub = "closed", !.up = <<>>])
        /\ \A d \in Conns \ {c} : conn'[d] = conn[d]
    BY <1>1, <1>v, RefusesKeeps
  <2>2. agent # c
    BY <1>v, AgentIs, NoNumber
  <2>3. \A d \in Conns : Smooth(d, b)
    BY <2>1, <2>2, EndsSmooth, SameSmooth
  <2>4. CalmBrowser(b) /\ CalmLocal(b) /\ agent' = agent /\ instance' = instance
    BY <1>1 DEF hubVars, appVars, CalmBrowser, CalmEntry, CalmLocal, CalmSocket
  <2> QED
    BY <2>3, <2>4, SmoothRests
<1>2. CASE conn'[c].hub # "closed"
  <2>1. /\ conn'[c] = [conn[c] EXCEPT !.hub = "open", !.down = IF conn[c].cut THEN @ ELSE Append(@, Frame("accepted"))]
        /\ Replaces => agent # c /\ agent \in Conns /\
             conn'[agent] = [conn[agent] EXCEPT !.hub = "closing", !.down = IF conn[agent].cut THEN @ ELSE Append(@, Frame("replaced"))]
        /\ \A d \in Conns \ {c} : d # agent \/ ~Replaces => conn'[d] = conn[d]
        /\ browser' = IF Replaces THEN Purged(browser) ELSE browser
        /\ agent' = c
        /\ unpurged' = (unpurged \/ (agent # NoConn /\ ~Replaces))
        /\ UNCHANGED <<heard, appVars, typed, events>>
    BY <1>2, AttachedEffect
  <2>2. CalmLocal(b) /\ instance' = instance
    BY <2>1 DEF appVars, CalmLocal, CalmSocket
  <2>3. CalmBrowser(b)
    BY <2>1, PurgedCalm DEF CalmBrowser, CalmEntry
  <2>4. browser'[b].entered => unpurged'
    <3> SUFFICES ASSUME browser'[b].entered, ~unpurged PROVE agent # NoConn /\ ~Replaces
      BY <2>1
    <3>1. browser[b].entered /\ ~Replaces
      BY <2>1, PurgedCalm
    <3> QED
      BY <3>1, EnteredHasAgent, NoNumber DEF Links
  <2>5. CalmPlace(b) /\ CalmUp(b)
    BY <2>4 DEF CalmPlace, CalmUp
  <2>6. ASSUME NEW d \in Conns
        PROVE  conn'[d].up = conn[d].up /\ Beside(conn[d].down, conn'[d].down, b)
    <3>0. conn[d] \in LineStates
      BY LineIs
    <3>1. \A type \in {"accepted", "replaced"} :
            Frame(type) \in Messages /\ ~Payload(Frame(type), b) /\ ~AsksToOpen(Frame(type), b)
      <4>1. \A type \in {"accepted", "replaced"} : Frame(type) \in Messages /\ Frame(type).type = type
        BY FramesAreMessages DEF FrameTypes, Bye
      <4> QED
        BY <4>1 DEF Payload, AsksToOpen
    <3>2. CASE d = c
      <4>1. conn'[d].up = conn[d].up /\ conn'[d].down = IF conn[d].cut THEN conn[d].down ELSE Append(conn[d].down, Frame("accepted"))
        BY <2>1, <3>0, <3>2 DEF LineStates
      <4> QED
        BY <3>0, <3>1, <4>1, MoreBeside, SameBeside DEF LineStates
    <3>3. CASE d # c /\ d = agent /\ Replaces
      <4>1. conn'[d].up = conn[d].up /\ conn'[d].down = IF conn[d].cut THEN conn[d].down ELSE Append(conn[d].down, Frame("replaced"))
        BY <2>1, <3>0, <3>3 DEF LineStates
      <4> QED
        BY <3>0, <3>1, <4>1, MoreBeside, SameBeside DEF LineStates
    <3>4. CASE d # c /\ ~(d = agent /\ Replaces)
      BY <2>1, <3>4, SameBeside
    <3> QED
      BY <3>2, <3>3, <3>4
  <2>7. CalmLines(b)
    BY <2>6, SameBeside DEF CalmLines, Beside
  <2>8. ~Serves(c, b)
    <3>1. ~Asks(<<>>, "open", b) /\ ~Asks(<<Frame(Bye)>>, "open", b)
      <4>1. Len(<<Frame(Bye)>>) = 1 /\ <<Frame(Bye)>>[1].type = Bye
        BY DEF Frame, M
      <4> QED
        BY <4>1 DEF Asks, Bye
    <3>2. ~Asks(conn[c].down, "open", b)
      BY <1>v, <3>1 DEF LineOK
    <3>3. conn[c].app # "open"
      BY <1>v DEF LineOK
    <3> QED
      BY <3>2, <3>3 DEF Serves, Links, Hosts
  <2>9. CalmDown(b)
    BY <2>1, <2>6, <2>8 DEF CalmDown, TakesOn, Beside
  <2>10. CalmRelays
    BY <2>2 DEF CalmRelays
  <2> QED
    BY <2>2, <2>3, <2>5, <2>7, <2>9, <2>10, StreamRests DEF Calm
<1> QED
  BY <1>1, <1>2, AttachTakes

\* An instance connects.
LEMMA ConnectStreams ==
  ASSUME LinkInv, Links, LinkInv', NEW i \in Instances, Connect(i), instance[i].relay = NoConn, ~instance[i].fired,
         UNCHANGED <<hubVars, local, took, said, typed>>, NEW b \in Browsers, Stream(b)
  PROVE  Stream(b)'
<1>1. UNCHANGED <<agent, late>> /\ CalmBrowser(b) /\ CalmLocal(b)
  BY DEF hubVars, CalmBrowser, CalmEntry, CalmLocal, CalmSocket
<1>2. PICK c \in Conns :
        /\ conn[c] = Closed
        /\ conn' = [conn EXCEPT ![c] = [Closed EXCEPT !.of = i, !.app = "connecting", !.hub = "verifying"]]
        /\ instance' = [instance EXCEPT ![i] = [@ EXCEPT !.relay = c, !.stopped = FALSE, !.timer = FALSE]]
  BY DEF Connect
<1>3. /\ conn'[c].app = "connecting" /\ conn'[c].hub = "verifying" /\ conn'[c].down = <<>> /\ conn'[c].up = <<>>
      /\ \A d \in Conns \ {c} : conn'[d] = conn[d]
  BY <1>2 DEF LinkInv, LinkTypes, LinesOK, Closed
<1>4. instance'[i].relay = c /\ \A x \in Instances \ {i} : instance'[x] = instance[x]
  BY <1>2 DEF LinkInv, LinkTypes, InstanceStates
<1>5. Smooth(c, b) /\ Unconnected(conn'[c])
  BY <1>2, <1>3, ConnectSmooth
<1>6. \A d \in Conns : Smooth(d, b)
  BY <1>3, <1>5, SameSmooth
<1> QED
  BY <1>1, <1>4, <1>5, <1>6, SmoothRests

\* An instance loses its connection, and its local sockets if it has any.
LEMMA LeavesStreams ==
  ASSUME LinkInv, Links, LinkInv', NEW i \in Instances,
         conn' = IF instance[i].relay = NoConn THEN conn ELSE AppClosed(conn, instance[i].relay),
         instance'[i].relay = NoConn, \A x \in Instances \ {i} : instance'[x] = instance[x],
         UNCHANGED <<hubVars, took, said, typed>>, local' = local \/ local' = Drop(local, i),
         NEW b \in Browsers, Stream(b)
  PROVE  Stream(b)'
<1>1. agent' = agent /\ CalmBrowser(b)
  BY DEF hubVars, CalmBrowser, CalmEntry
<1>2. CalmLocal(b)
  <2>1. CASE local' = local
    BY <2>1 DEF CalmLocal, CalmSocket
  <2>2. CASE local' = Drop(local, i)
    <3>1. local[b] \in LocalStates /\ (local[b].mapped => local[b].socket # "none")
      BY DEF LinkInv, LinkTypes, AppTyped, Hosted
    <3>2. CASE local[b].mapped /\ local[b].host = i
      <4>1. local'[b] = [local[b] EXCEPT !.mapped = FALSE, !.waiting = <<>>, !.socket = IF @ = "open" THEN "closing" ELSE "closed"]
        BY <2>2, <3>2 DEF Drop
      <4>2. local'[b].waiting = <<>> /\ local'[b].host = local[b].host /\ local'[b].socket # "none"
        BY <3>1, <4>1 DEF LocalStates
      <4>3. ~local'[b].mapped
        BY <3>1, <4>1 DEF LocalStates
      <4> QED
        BY <3>1, <3>2, <4>2, <4>3 DEF CalmLocal, CalmSocket
    <3>3. CASE ~(local[b].mapped /\ local[b].host = i)
      <4>1. local'[b] = local[b]
        BY <2>2, <3>3, DropIs
      <4> QED
        BY <4>1 DEF CalmLocal, CalmSocket
    <3> QED
      BY <3>2, <3>3
  <2> QED
    BY <2>1, <2>2
<1>3. local'[b].mapped => local'[b].host \in Instances
  BY DEF LinkInv, LinkTypes, Hosted
<1>4. \A d \in Conns : Smooth(d, b)
  <2>1. CASE instance[i].relay = NoConn
    BY <2>1, SameSmooth
  <2>2. CASE instance[i].relay # NoConn
    BY <1>3, <2>2, LeavesSmooth
  <2> QED
    BY <2>1, <2>2
<1> QED
  BY <1>1, <1>2, <1>4, SmoothRests

-----------------------------------------------------------------------------
(* Steps of the hub and of the instances that a browser does not notice    *)

LEMMA ToldStreams ==
  ASSUME LinkInv, Links, LinkInv', NEW m \in Messages, m.type # "replaced", conn' = Down(conn, agent, m),
         UNCHANGED <<instance, late, agent, local, took, said>>, NEW x \in Browsers, Stream(x),
         ~Payload(m, x), ~AsksToOpen(m, x), CalmBrowser(x)
  PROVE  Stream(x)'
<1>1. CalmLocal(x) /\ UNCHANGED <<instance, late, agent>>
  BY DEF CalmLocal, CalmSocket
<1>2. \A c \in Conns : Smooth(c, x)
  BY <1>1, DownSmooth
<1> QED
  BY <1>1, <1>2, SmoothRests

LEMMA StartCommandStreams ==
  ASSUME LinkInv, Links, LinkInv', StartCommand, NEW x \in Browsers, Stream(x)
  PROVE  Stream(x)'
<1> DEFINE m == Frame("command")
<1>1. m \in Messages /\ m.type = "command"
  BY FramesAreMessages DEF FrameTypes, Bye
<1>2. /\ conn' = Down(conn, agent, m)
      /\ UNCHANGED <<instance, late, agent, local, took, said>> /\ UNCHANGED <<browser, heard, unpurged, typed>>
  BY DEF StartCommand, appVars
<1> HIDE DEF m
<1>3. ~Payload(m, x) /\ ~AsksToOpen(m, x) /\ m.type # "replaced"
  BY <1>1 DEF Payload, AsksToOpen
<1>4. CalmBrowser(x)
  BY <1>2 DEF CalmBrowser, CalmEntry
<1> QED
  BY <1>1, <1>2, <1>3, <1>4, ToldStreams

LEMMA BrowserClosedStreams ==
  ASSUME LinkInv, Links, LinkInv', NEW b \in Browsers, BrowserClosed(b), NEW x \in Browsers, Stream(x)
  PROVE  Stream(x)'
<1> DEFINE m == M("close", b, 0, 0)
<1>1. m \in Messages /\ m.type = "close"
  BY BrowserFrames DEF M
<1>2. /\ conn' = Down(conn, agent, m)
      /\ UNCHANGED <<instance, late, agent, local, took, said>> /\ UNCHANGED <<heard, unpurged, typed>>
  BY DEF BrowserClosed, appVars
<1> HIDE DEF m
<1>3. ~Payload(m, x) /\ ~AsksToOpen(m, x) /\ m.type # "replaced"
  BY <1>1 DEF Payload, AsksToOpen
<1>4. browser'[x] = IF x = b THEN [entered |-> FALSE, socket |-> "closed", chunks |-> {}] ELSE browser[x]
  BY DEF BrowserClosed, LinkInv, LinkTypes, HubTyped
<1>5. browser'[x] = browser[x] \/ (~browser'[x].entered /\ browser'[x].socket = "closed")
  BY <1>4
<1>6. CalmBrowser(x)
  BY <1>2, <1>5 DEF CalmBrowser, CalmEntry
<1> QED
  BY <1>1, <1>2, <1>3, <1>6, ToldStreams

LEMMA ChunkTimeoutStreams ==
  ASSUME LinkInv, Links, LinkInv', NEW b \in Browsers, ChunkTimeout(b), NEW x \in Browsers, Stream(x)
  PROVE  Stream(x)'
<1>1. UNCHANGED <<agent, heard, unpurged, instance, local, took, said, typed, conn>>
  BY DEF ChunkTimeout, appVars
<1>2. browser' = [browser EXCEPT ![b].chunks = {}, ![b].socket = "closing"] /\ browser \in [Browsers -> BrowserStates]
  BY DEF ChunkTimeout, LinkInv, LinkTypes, HubTyped
<1>3. /\ x # b => browser'[x] = browser[x]
      /\ browser'[b].socket = "closing" /\ browser'[b].entered = browser[b].entered
  BY <1>2 DEF BrowserStates
<1>4. CalmBrowser(x)
  BY <1>1, <1>3 DEF CalmBrowser, CalmEntry
<1>5. CalmLocal(x)
  BY <1>1 DEF CalmLocal, CalmSocket
<1>6. \A c \in Conns : Smooth(c, x)
  BY <1>1, SameSmooth
<1> QED
  BY <1>1, <1>4, <1>5, <1>6, SmoothRests

LEMMA SaysStreams ==
  ASSUME LinkInv, Links, LinkInv', NEW i \in Instances, NEW ms \in Seq(Messages), conn' = Up(conn, i, ms),
         UNCHANGED <<hubVars, typed>>, \A j \in Instances : instance'[j].relay = instance[j].relay,
         NEW x \in Browsers, Stream(x), Aside(ms, x), CalmLocal(x)
  PROVE  Stream(x)'
<1>1. \A c \in Conns : conn'[c] = conn[c] \/ (conn[c].app = "open" /\ conn'[c] = [conn[c] EXCEPT !.up = @ \o ms])
  <2>1. LinesOK(conn) /\ instance[i].relay \in Conns \cup {NoConn}
    BY DEF LinkInv, LinkTypes, InstanceStates
  <2>2. \A c \in Conns : Up(conn, i, ms)[c] = IF c = instance[i].relay /\ conn[c].app = "open" /\ ~conn[c].cut
                                              THEN [conn[c] EXCEPT !.up = @ \o ms] ELSE conn[c]
    BY <2>1, UpEffect
  <2> QED
    BY <2>2
<1>2. \A c \in Conns : Smooth(c, x)
  BY <1>1, UpSmooth
<1>3. agent' = agent /\ CalmBrowser(x)
  BY DEF hubVars, CalmBrowser, CalmEntry
<1> QED
  BY <1>2, <1>3, SmoothRests

LEMMA SetServiceStreams ==
  ASSUME LinkInv, Links, LinkInv', NEW i \in Instances, NEW runs \in BOOLEAN, SetService(i, runs),
         NEW x \in Browsers, Stream(x)
  PROVE  Stream(x)'
<1> DEFINE m == Frame(IF runs THEN "running" ELSE "other")
           n == [instance[i] EXCEPT !.runs = runs, !.command = FALSE]
<1>1. m \in Messages /\ m.type \in {"running", "other"}
  BY FramesAreMessages DEF FrameTypes, Bye
<1>3. instance \in [Instances -> InstanceStates] /\ n.relay = instance[i].relay
  BY DEF LinkInv, LinkTypes, InstanceStates
<1>4. /\ instance' = [instance EXCEPT ![i] = n] /\ conn' = Up(conn, i, <<m>>)
      /\ UNCHANGED <<hubVars, typed>> /\ UNCHANGED <<local, took, said>>
  BY <1>3 DEF SetService
<1> HIDE DEF m, n
<1>5. \A j \in Instances : instance'[j].relay = instance[j].relay
  BY <1>3, <1>4
<1>6. <<m>> \in Seq(Messages) /\ ~Payload(m, x) /\ ~AsksToOpen(m, x)
  BY <1>1 DEF Payload, AsksToOpen
<1>7. Aside(<<m>>, x)
  BY <1>1, <1>6, AsideIs
<1>8. CalmLocal(x)
  BY <1>4 DEF CalmLocal, CalmSocket
<1> QED
  BY <1>4, <1>5, <1>6, <1>7, <1>8, SaysStreams

\* The frame that closes a local socket.
LEMMA CloseAside ==
  ASSUME NEW b \in Browsers, NEW x
  PROVE  LET ms == <<M("close", b, 0, 0)>> IN ms \in Seq(Messages) /\ Aside(ms, x)
<1> DEFINE m == M("close", b, 0, 0)
<1>1. m \in Messages /\ m.type = "close"
  BY BrowserFrames DEF M
<1> HIDE DEF m
<1>2. <<m>> \in Seq(Messages) /\ ~Payload(m, x) /\ ~AsksToOpen(m, x)
  BY <1>1 DEF Payload, AsksToOpen
<1>3. Aside(<<m>>, x)
  BY <1>1, <1>2, AsideIs
<1> QED
  BY <1>2, <1>3 DEF m

LEMMA LocalClosedStreams ==
  ASSUME LinkInv, Links, LinkInv', NEW b \in Browsers, LocalClosed(b), NEW x \in Browsers, Stream(x)
  PROVE  Stream(x)'
<1> DEFINE ms == <<M("close", b, 0, 0)>>
           i == local[b].host
<1>1. i \in Instances /\ local[b].socket # "none" /\ local \in [Browsers -> LocalStates]
  BY DEF LocalClosed, LinkInv, LinkTypes, Hosted, AppTyped
<1>2. /\ conn' = Up(conn, i, ms) /\ UNCHANGED <<hubVars, typed>> /\ UNCHANGED <<instance, took, said>>
      /\ local' = [local EXCEPT ![b].mapped = FALSE, ![b].waiting = <<>>, ![b].socket = "closed"]
  BY DEF LocalClosed
<1>3. ms \in Seq(Messages) /\ Aside(ms, x)
  BY CloseAside
<1> HIDE DEF ms, i
<1>4. /\ x # b => local'[x] = local[x]
      /\ ~local'[b].mapped
      /\ local'[b].waiting = <<>> /\ local'[b].socket = "closed" /\ local'[b].host = local[b].host
  <2>1. x # b => local'[x] = local[x]
    BY <1>1, <1>2
  <2>2. ~local'[b].mapped
    BY <1>1, <1>2 DEF LocalStates
  <2>3. local'[b].waiting = <<>> /\ local'[b].socket = "closed" /\ local'[b].host = local[b].host
    BY <1>1, <1>2 DEF LocalStates
  <2> QED
    BY <2>1, <2>2, <2>3
<1>5. CalmLocal(x)
  BY <1>1, <1>2, <1>4 DEF CalmLocal, CalmSocket
<1> QED
  BY <1>1, <1>2, <1>3, <1>5, SaysStreams

\* The other browsers, when a local server says something to one.
LEMMA LocalSaysBeside ==
  ASSUME LinkInv, Links, LinkInv', NEW b \in Browsers, LocalSays(b), NEW x \in Browsers \ {b}, Stream(x)
  PROVE  Stream(x)'
<1> DEFINE i == local[b].host
           n == said[b] + 1
           m0 == M("message", b, n, 0)
           m1 == M("chunk", b, n, 1)
           m2 == M("chunk", b, n, 2)
<1>0. i \in Instances
  BY DEF LocalSays, LinkInv, LinkTypes, Hosted
<1>1. n \in 1..MaxMessages
  BY RelayLinkAssumption DEF RelayLinkAssumption, LocalSays, LinkInv, LinkTypes, AppTyped
<1>2. /\ UNCHANGED <<hubVars, typed>> /\ UNCHANGED <<instance, took>> /\ said' = [said EXCEPT ![b] = n]
      /\ \/ conn' = Up(conn, i, <<m0>>) /\ UNCHANGED local
         \/ conn' = Up(conn, i, <<m1, m2>>) /\ UNCHANGED local
         \/ conn' = Up(conn, i, <<M("close", b, 0, 0)>>) /\ local' = CloseLocal(i, b)
  BY DEF LocalSays
<1>3. /\ m0 \in Messages /\ m1 \in Messages /\ m2 \in Messages
      /\ m0.b = b /\ m1.b = b /\ m2.b = b
  BY <1>1, BrowserFrames DEF M
<1>4. said'[x] = said[x]
  BY <1>2 DEF LinkInv, LinkTypes, AppTyped
<1> HIDE DEF i, n, m0, m1, m2
<1>5. /\ ~Payload(m0, x) /\ ~Payload(m1, x) /\ ~Payload(m2, x)
      /\ ~AsksToOpen(m0, x) /\ ~AsksToOpen(m1, x) /\ ~AsksToOpen(m2, x)
  BY <1>3 DEF Payload, AsksToOpen
<1>6. PICK ms \in Seq(Messages) : conn' = Up(conn, i, ms) /\ Aside(ms, x)
  <2>1. <<m0>> \in Seq(Messages) /\ <<m1, m2>> \in Seq(Messages)
    BY <1>3
  <2>2. Aside(<<m0>>, x)
    BY <1>3, <1>5, AsideIs
  <2>3. Aside(<<m1, m2>>, x)
    BY <1>3, <1>5, AsideIs
  <2>4. <<M("close", b, 0, 0)>> \in Seq(Messages) /\ Aside(<<M("close", b, 0, 0)>>, x)
    BY CloseAside
  <2> QED
    BY <1>2, <2>1, <2>2, <2>3, <2>4
<1>7. local'[x] = local[x]
  <2>1. CASE UNCHANGED local
    BY <2>1
  <2>2. CASE local' = CloseLocal(i, b)
    BY <2>2, CloseLocalIs
  <2> QED
    BY <1>2, <2>1, <2>2
<1>8. CalmLocal(x)
  BY <1>2, <1>4, <1>7 DEF CalmLocal, CalmSocket
<1>9. \A j \in Instances : instance'[j].relay = instance[j].relay
  BY <1>2
<1> QED
  BY <1>0, <1>2, <1>6, <1>8, <1>9, SaysStreams

-----------------------------------------------------------------------------
(* A browser connects and types                                            *)

LEMMA SilentFlows ==
  ASSUME NEW s, NEW b, ~Speaks(s, b), NEW q, NEW w, q <= w
  PROVE  Flows(s, b, q, w)
BY DEF Speaks, Flows, FlowsAt, Heeded

LEMMA NothingMissing ==
  ASSUME NEW s, NEW b, NEW q \in Int
  PROVE  Fills(s, b, q, q)
<1>1. \A p \in (q + 1)..q : FALSE
  OBVIOUS
<1> QED
  BY <1>1 DEF Fills

LEMMA FlowsMore ==
  ASSUME NEW s \in Seq(Messages), NEW b, NEW q \in Int, NEW w \in Int, NEW v \in Int, w <= v, Flows(s, b, q, w)
  PROVE  Flows(s, b, q, v)
<1>1. ASSUME NEW j \in 1..Len(s) PROVE FlowsAt(s, b, j, q, v)
  <2>1. FlowsAt(s, b, j, q, w) /\ s[j] \in Messages
    BY DEF Flows
  <2>2. Heeded(s, b, j) => Ending(s[j]) \in Nat
    BY <2>1, Halves DEF Heeded
  <2> QED
    BY <2>1, <2>2 DEF FlowsAt
<1> QED
  BY <1>1 DEF Flows

LEMMA BrowserOpensBeside ==
  ASSUME LinkInv, Links, LinkInv', NEW b \in Browsers, BrowserOpens(b), NEW x \in Browsers \ {b}, Stream(x)
  PROVE  Stream(x)'
<1> DEFINE m == M("open", b, 0, 0)
<1>1. m \in Messages /\ m.type = "open" /\ m.b = b
  BY BrowserFrames DEF M
<1>2. /\ conn' = Down(conn, agent, m)
      /\ UNCHANGED <<instance, late, agent, local, took, said>> /\ UNCHANGED <<heard, unpurged, typed>>
  BY DEF BrowserOpens, appVars
<1> HIDE DEF m
<1>3. ~Payload(m, x) /\ ~AsksToOpen(m, x) /\ m.type # "replaced"
  BY <1>1 DEF Payload, AsksToOpen
<1>4. browser'[x] = browser[x]
  BY DEF BrowserOpens, LinkInv, LinkTypes, HubTyped
<1>5. CalmBrowser(x)
  BY <1>2, <1>4 DEF CalmBrowser, CalmEntry
<1> QED
  BY <1>1, <1>2, <1>3, <1>5, ToldStreams

LEMMA BrowserOpensStream ==
  ASSUME LinkInv, Links, LinkInv', NEW b \in Browsers, BrowserOpens(b), Stream(b)
  PROVE  Stream(b)'
<1> DEFINE m == M("open", b, 0, 0)
<1>1. m \in Messages /\ m.type = "open" /\ m.b = b
  BY BrowserFrames DEF M
<1>2. /\ conn' = Down(conn, agent, m)
      /\ UNCHANGED <<instance, late, agent, local, took, said>> /\ UNCHANGED <<heard, unpurged, typed>>
  BY DEF BrowserOpens, appVars
<1> HIDE DEF m
<1>3. ~Payload(m, b) /\ m.type # "replaced"
  BY <1>1 DEF Payload
<1>4. \A c \in Conns : /\ conn'[c].up = conn[c].up
                       /\ conn'[c].down = conn[c].down \/ (c = agent /\ conn'[c].down = Append(conn[c].down, m))
                       /\ conn[c].up \in Seq(Messages) /\ conn[c].down \in Seq(Messages)
  <2> SUFFICES ASSUME NEW c \in Conns
               PROVE  /\ conn'[c].up = conn[c].up
                      /\ conn'[c].down = conn[c].down \/ (c = agent /\ conn'[c].down = Append(conn[c].down, m))
                      /\ conn[c].up \in Seq(Messages) /\ conn[c].down \in Seq(Messages)
    OBVIOUS
  <2>1. conn'[c] = IF c = agent /\ conn[c].hub = "open" /\ ~conn[c].cut
                   THEN [conn[c] EXCEPT !.down = Append(@, m)] ELSE conn[c]
    BY <1>1, <1>2, <1>3, HubTells
  <2> QED
    BY <2>1, LineIs DEF LineStates
<1>5. /\ browser[b].socket = "none" /\ agent \in Conns
      /\ browser'[b].entered /\ browser'[b].socket = "open" /\ browser'[b].chunks = {}
  <2>1. browser[b].socket = "none" /\ agent # NoConn
    BY DEF BrowserOpens
  <2>2. browser'[b] = [entered |-> TRUE, socket |-> "open", chunks |-> {}]
    BY DEF BrowserOpens, LinkInv, LinkTypes, HubTyped
  <2> QED
    BY <2>1, <2>2, AgentIs
<1>6. /\ typed[b] = 0 /\ heard[b] = <<>> /\ local[b].socket = "none"
      /\ \A c \in Conns : ~Speaks(conn[c].up, b) /\ ~Speaks(conn[c].down, b)
      /\ ~local[b].mapped /\ local[b].waiting = <<>> /\ said[b] = 0 /\ took[b] = <<>>
  BY <1>5 DEF Stream, Unused
<1>7. \A c \in Conns : ~Asks(conn[c].down, "open", b) /\ ~Asks(conn[c].down, "close", b)
  BY <1>5 DEF Links, Asked
<1>8. \A c \in Conns : ~Speaks(conn'[c].up, b) /\ ~Speaks(conn'[c].down, b)
  <2> SUFFICES ASSUME NEW c \in Conns PROVE ~Speaks(conn'[c].up, b) /\ ~Speaks(conn'[c].down, b)
    OBVIOUS
  <2>1. ~Speaks(Append(conn[c].down, m), b)
    BY <1>1, <1>3, <1>4, <1>6, SpeaksEffect
  <2> QED
    BY <1>4, <1>6, <2>1
<1>9. \A c \in Conns : (Asks(conn'[c].down, "open", b) => c = agent) /\ OpensOnce(conn'[c].down, b)
  <2> SUFFICES ASSUME NEW c \in Conns PROVE (Asks(conn'[c].down, "open", b) => c = agent) /\ OpensOnce(conn'[c].down, b)
    OBVIOUS
  <2>1. OpensOnce(conn[c].down, b)
    BY DEF Stream, OpenedOnce
  <2>2. OpensOnce(Append(conn[c].down, m), b)
    BY <1>1, <1>4, <1>6, <1>7, <2>1, OpensOnceMore
  <2> QED
    BY <1>4, <1>7, <2>1, <2>2
<1>10. Unused(b)'
  BY <1>2, <1>5, <1>6, <1>8 DEF Unused
<1>11. OpenedOnce(b)'
  BY <1>2, <1>6, <1>9 DEF OpenedOnce
<1>12. AtAgent(b)'
  BY <1>2, <1>6, <1>8 DEF AtAgent
<1>n. 0 <= 2 * 0 /\ 2 * 0 = 0 /\ 0 \in Int /\ 2 * (0 + 0) = 0 /\ 2 * 0 + 0 = 0 /\ Len(<<>>) = 0
  OBVIOUS
<1>13. SaidFlows(b)'
  <2>1. HalvesHeard(b)' = 0
    BY <1>2, <1>5, <1>6, <1>n DEF HalvesHeard
  <2>2. Flows(conn'[agent].up, b, 0, 2 * 0) /\ Fills(conn'[agent].up, b, 0, 2 * 0)
    BY <1>5, <1>8, <1>n, SilentFlows, NothingMissing
  <2> QED
    BY <1>2, <1>5, <1>6, <2>1, <2>2 DEF SaidFlows
<1>14. TypedFlows(b)'
  <2>1. HalvesTaken(b)' = 0
    BY <1>2, <1>6, <1>n DEF HalvesTaken
  <2>2. \A c \in Conns : Flows(conn'[c].down, b, 0, 2 * 0) /\ Fills(conn'[c].down, b, 0, 2 * 0)
    BY <1>8, <1>n, SilentFlows, NothingMissing
  <2> QED
    BY <1>2, <1>6, <2>1, <2>2 DEF TypedFlows
<1>15. InNumber(b)'
  <2>1. InOrder(<<>>)
    BY DEF InOrder
  <2>2. CalmSocket(b)
    BY <1>2 DEF CalmSocket
  <2>3. InNumber(b)
    BY DEF Stream
  <2> QED
    BY <1>2, <1>6, <2>1, <2>2, <2>3, InNumberRests
<1> QED
  BY <1>10, <1>11, <1>12, <1>13, <1>14, <1>15 DEF Stream

\* What a browser types is message number typed[b] + 1.
LEMMA TypesFrame ==
  ASSUME LinkInv, NEW b \in Browsers, BrowserTypes(b)
  PROVE  LET m == M("message", b, typed[b] + 1, 0)
         IN  /\ m \in Messages /\ m.type = "message" /\ m.b = b /\ m.n = typed[b] + 1
             /\ conn' = Down(conn, agent, m) /\ typed[b] \in Nat
             /\ typed'[b] = typed[b] + 1 /\ \A x \in Browsers \ {b} : typed'[x] = typed[x]
             /\ UNCHANGED <<instance, late, agent, local, took, said>> /\ UNCHANGED <<heard, unpurged, browser>>
             /\ browser[b].socket # "none"
<1>1. typed[b] \in Nat /\ typed[b] + 1 \in 1..MaxMessages
  BY RelayLinkAssumption DEF RelayLinkAssumption, BrowserTypes, LinkInv, LinkTypes, LinkCounted
<1> DEFINE n == typed[b] + 1
           m == M("message", b, n, 0)
<1>2. m \in Messages /\ m.type = "message" /\ m.b = b /\ m.n = n
  BY <1>1, BrowserFrames DEF M
<1>3. /\ conn' = Down(conn, agent, m) /\ typed' = [typed EXCEPT ![b] = n]
      /\ UNCHANGED <<instance, late, agent, local, took, said>> /\ UNCHANGED <<heard, unpurged, browser>>
      /\ browser[b].socket # "none"
  BY DEF BrowserTypes, hubVars, appVars
<1>4. typed'[b] = n /\ \A x \in Browsers \ {b} : typed'[x] = typed[x]
  BY <1>3 DEF LinkInv, LinkTypes, LinkCounted
<1> QED
  BY <1>1, <1>2, <1>3, <1>4

LEMMA BrowserTypesBeside ==
  ASSUME LinkInv, Links, LinkInv', NEW b \in Browsers, BrowserTypes(b), NEW x \in Browsers \ {b}, Stream(x)
  PROVE  Stream(x)'
<1>1. PICK m \in Messages :
        /\ m.type = "message" /\ m.b = b
        /\ conn' = Down(conn, agent, m) /\ typed'[x] = typed[x]
        /\ UNCHANGED <<instance, late, agent, local, took, said>> /\ UNCHANGED <<heard, unpurged, browser>>
  BY TypesFrame
<1>2. ~Payload(m, x) /\ ~AsksToOpen(m, x) /\ m.type # "replaced"
  BY <1>1 DEF Payload, AsksToOpen
<1>3. CalmBrowser(x)
  BY <1>1 DEF CalmBrowser, CalmEntry
<1> QED
  BY <1>1, <1>2, <1>3, ToldStreams

LEMMA BrowserTypesStream ==
  ASSUME LinkInv, Links, LinkInv', NEW b \in Browsers, BrowserTypes(b), Stream(b)
  PROVE  Stream(b)'
<1>1. PICK m \in Messages :
        /\ m.type = "message" /\ m.b = b /\ m.n = typed[b] + 1
        /\ conn' = Down(conn, agent, m) /\ typed[b] \in Nat /\ typed'[b] = typed[b] + 1
        /\ UNCHANGED <<instance, late, agent, local, took, said>> /\ UNCHANGED <<heard, unpurged, browser>>
        /\ browser[b].socket # "none"
  BY TypesFrame
<1>2. /\ Unused(b) /\ OpenedOnce(b) /\ AtAgent(b) /\ SaidFlows(b) /\ TypedFlows(b) /\ InNumber(b) /\ Backed(b)
  BY BackedHolds DEF Stream, Links
<1>3. Payload(m, b) /\ ~AsksToOpen(m, b) /\ m.type # "replaced"
  BY <1>1 DEF Payload, AsksToOpen
<1>4. Beginning(m) = 2 * typed[b] + 1 /\ Ending(m) = 2 * typed'[b]
  BY <1>1, <1>3, Halves
<1>5. \A c \in Conns : /\ conn[c].up \in Seq(Messages) /\ conn[c].down \in Seq(Messages)
                       /\ conn'[c].up = conn[c].up /\ conn'[c].app = conn[c].app /\ conn'[c].of = conn[c].of
                       /\ conn'[c].hub = conn[c].hub /\ conn'[c].cut = conn[c].cut
                       /\ IF c = agent /\ conn[c].hub = "open" /\ ~conn[c].cut
                          THEN conn'[c].down = Append(conn[c].down, m) ELSE conn'[c] = conn[c]
  <2> SUFFICES ASSUME NEW c \in Conns
               PROVE  /\ conn[c].up \in Seq(Messages) /\ conn[c].down \in Seq(Messages)
                      /\ conn'[c].up = conn[c].up /\ conn'[c].app = conn[c].app /\ conn'[c].of = conn[c].of
                      /\ conn'[c].hub = conn[c].hub /\ conn'[c].cut = conn[c].cut
                      /\ IF c = agent /\ conn[c].hub = "open" /\ ~conn[c].cut
                         THEN conn'[c].down = Append(conn[c].down, m) ELSE conn'[c] = conn[c]
    OBVIOUS
  <2>1. conn'[c] = IF c = agent /\ conn[c].hub = "open" /\ ~conn[c].cut
                   THEN [conn[c] EXCEPT !.down = Append(@, m)] ELSE conn[c]
    BY <1>1, <1>3, HubTells
  <2> QED
    BY <2>1, LineIs DEF LineStates
<1>6. CalmSocket(b) /\ CalmEntry(b)
  BY <1>1 DEF CalmSocket, CalmEntry
<1>7. \A c \in Conns : Quieter(conn[c].up, conn'[c].up, b)
  BY <1>5, SameBeside DEF Beside
<1>8. \A c \in Conns : /\ Asks(conn'[c].down, "open", b) <=> Asks(conn[c].down, "open", b)
                       /\ OpensOnce(conn'[c].down, b)
  <2> SUFFICES ASSUME NEW c \in Conns
               PROVE  (Asks(conn'[c].down, "open", b) <=> Asks(conn[c].down, "open", b)) /\ OpensOnce(conn'[c].down, b)
    OBVIOUS
  <2>1. OpensOnce(conn[c].down, b)
    BY <1>2 DEF OpenedOnce
  <2>2. OpensOnce(Append(conn[c].down, m), b)
    BY <1>3, <1>5, <2>1, OpensOnceMore
  <2>3. Asks(Append(conn[c].down, m), "open", b) <=> Asks(conn[c].down, "open", b)
    BY <1>1, <1>5, AsksEffect
  <2> QED
    BY <1>5, <2>1, <2>2, <2>3
<1>9. Unused(b)'
  BY <1>1, <1>2, <1>5 DEF Unused
<1>10. OpenedOnce(b)'
  BY <1>1, <1>2, <1>8 DEF OpenedOnce
<1>11. CalmPlace(b)
  <2> SUFFICES ASSUME browser'[b].entered, ~unpurged'
               PROVE  /\ agent' = agent /\ conn'[agent].of = conn[agent].of
                      /\ conn'[agent].app = "connecting" => conn[agent].app = "connecting"
                      /\ \A i \in Instances : instance'[i].relay \notin {NoConn, agent} =>
                           \/ Unconnected(conn'[instance'[i].relay])
                           \/ instance'[i].relay = instance[i].relay /\ ~Unconnected(conn[instance[i].relay])
    BY DEF CalmPlace
  <2>1. agent \in Conns
    BY <1>1, <1>2 DEF Backed
  <2>2. \A i \in Instances : instance'[i].relay = instance[i].relay /\ instance[i].relay \in Conns \cup {NoConn}
    BY <1>1 DEF LinkInv, LinkTypes, InstanceStates
  <2> QED
    BY <1>1, <1>5, <2>1, <2>2
<1>12. AtAgent(b)'
  BY <1>2, <1>6, <1>7, <1>11, AtAgentRests
<1>13. SaidFlows(b)'
  <2> SUFFICES ASSUME browser'[b].entered, ~unpurged', browser'[b].socket = "open"
               PROVE  /\ browser'[b].chunks = {} \/ browser'[b].chunks = {<<Len(heard'[b]) + 1, 1>>}
                      /\ Flows(conn'[agent'].up, b, HalvesHeard(b)', 2 * said'[b])
                      /\ conn'[agent'].app = "open" /\ ~conn'[agent'].cut =>
                           Fills(conn'[agent'].up, b, HalvesHeard(b)', 2 * said'[b])
    BY DEF SaidFlows
  <2>1. agent \in Conns
    BY <1>1, <1>2 DEF Backed
  <2>2. HalvesHeard(b)' = HalvesHeard(b)
    BY <1>1 DEF HalvesHeard
  <2> QED
    BY <1>1, <1>2, <1>5, <2>1, <2>2 DEF SaidFlows
<1>14. TypedFlows(b)'
  <2> SUFFICES ASSUME NEW c \in Conns, Serves(c, b)'
               PROVE  /\ Flows(conn'[c].down, b, HalvesTaken(b)', 2 * typed'[b])
                      /\ c = agent' /\ conn'[c].hub = "open" /\ ~conn'[c].cut =>
                           Fills(conn'[c].down, b, HalvesTaken(b)', 2 * typed'[b])
    BY DEF TypedFlows
  <2>1. Serves(c, b)
    BY <1>1, <1>8 DEF Serves
  <2>2. HalvesTaken(b)' = HalvesTaken(b) /\ HalvesTaken(b) \in Int
    BY <1>1, <1>2, CountsHalves DEF HalvesTaken
  <2>3. /\ Flows(conn[c].down, b, HalvesTaken(b), 2 * typed[b])
        /\ c = agent /\ conn[c].hub = "open" /\ ~conn[c].cut => Fills(conn[c].down, b, HalvesTaken(b), 2 * typed[b])
    BY <1>2, <2>1 DEF TypedFlows
  <2>4. 2 * typed[b] \in Int /\ 2 * typed'[b] \in Int /\ 2 * typed[b] <= 2 * typed'[b]
    BY <1>1
  <2>5. CASE c = agent /\ conn[c].hub = "open" /\ ~conn[c].cut
    <3>1. /\ Flows(Append(conn[c].down, m), b, HalvesTaken(b), Ending(m))
          /\ Fills(Append(conn[c].down, m), b, HalvesTaken(b), Ending(m))
      BY <1>3, <1>4, <1>5, <2>2, <2>3, <2>4, <2>5, FlowsOn
    <3> QED
      BY <1>4, <1>5, <2>2, <2>5, <3>1
  <2>6. CASE ~(c = agent /\ conn[c].hub = "open" /\ ~conn[c].cut)
    <3>1. conn'[c] = conn[c] /\ agent' = agent /\ conn[c].down \in Seq(Messages)
      BY <1>1, <1>5, <2>6
    <3>2. Flows(conn[c].down, b, HalvesTaken(b), 2 * typed'[b])
      BY <2>2, <2>3, <2>4, <3>1, FlowsMore
    <3> QED
      BY <2>2, <2>6, <3>1, <3>2
  <2> QED
    BY <2>5, <2>6
<1>15. InNumber(b)'
  <2>1. ~unpurged' => InOrder(heard'[b])
    BY <1>1, <1>2 DEF InNumber
  <2> QED
    BY <1>2, <1>6, <2>1, InNumberRests
<1> QED
  BY <1>9, <1>10, <1>12, <1>13, <1>14, <1>15 DEF Stream

-----------------------------------------------------------------------------
(* A local socket opens, and the local server speaks                       *)

LEMMA InOrderIs ==
  ASSUME NEW S, NEW s \in Seq(S)
  PROVE  InOrder(s) <=> \A k \in 1..Len(s) : s[k] = k
<1>1. s = [k \in 1..Len(s) |-> s[k]]
  OBVIOUS
<1> QED
  BY <1>1 DEF InOrder

LEMMA InOrderOn ==
  ASSUME NEW S, NEW s \in Seq(S), NEW t \in Seq(S), InOrder(s), \A k \in 1..Len(t) : t[k] = Len(s) + k
  PROVE  InOrder(s \o t)
<1> DEFINE u == s \o t
<1>1. /\ u \in Seq(S) /\ Len(s) \in Nat /\ Len(t) \in Nat /\ Len(u) = Len(s) + Len(t)
      /\ (\A k \in 1..Len(s) : u[k] = s[k]) /\ \A k \in 1..Len(u) : k \in 1..Len(s) \/ u[k] = t[k - Len(s)]
  BY ConcatProperties
<1>2. \A k \in 1..Len(s) : s[k] = k
  BY InOrderIs
<1> HIDE DEF u
<1>3. ASSUME NEW k \in 1..Len(u) PROVE u[k] = k
  <2>1. CASE k \in 1..Len(s)
    BY <1>1, <1>2, <2>1
  <2>2. CASE k \notin 1..Len(s)
    <3>1. k - Len(s) \in 1..Len(t)
      BY <1>1, <2>2
    <3>2. t[k - Len(s)] = Len(s) + (k - Len(s))
      BY <3>1
    <3> QED
      BY <1>1, <2>2, <3>2
  <2> QED
    BY <2>1, <2>2
<1>4. InOrder(u)
  BY <1>1, <1>3, InOrderIs
<1> QED
  BY <1>4 DEF u

LEMMA LocalOpensStreams ==
  ASSUME LinkInv, Links, LinkInv', NEW b \in Browsers, LocalOpens(b), NEW x \in Browsers, Stream(x)
  PROVE  Stream(x)'
<1>1. UNCHANGED <<agent, browser, heard, unpurged, late, conn, instance, said, typed>>
  BY DEF LocalOpens, hubVars
<1>2. /\ local' = [local EXCEPT ![b].socket = "open", ![b].waiting = <<>>]
      /\ took' = [took EXCEPT ![b] = @ \o local[b].waiting]
      /\ local[b].socket = "connecting" /\ local[b].mapped
      /\ local \in [Browsers -> LocalStates] /\ took \in [Browsers -> Seq(1..MaxMessages)]
  BY DEF LocalOpens, LinkInv, LinkTypes, AppTyped
<1>3. CASE x # b
  <2>1. local'[x] = local[x] /\ took'[x] = took[x]
    BY <1>2, <1>3
  <2>2. CalmBrowser(x) /\ CalmLocal(x) /\ agent' = agent
    BY <1>1, <2>1 DEF CalmBrowser, CalmEntry, CalmLocal, CalmSocket
  <2>3. \A c \in Conns : Smooth(c, x)
    BY <1>1, SameSmooth
  <2> QED
    BY <1>1, <2>2, <2>3, SmoothRests
<1>4. CASE x = b
  <2>1. /\ local'[b].socket = "open" /\ local'[b].waiting = <<>> /\ local'[b].host = local[b].host
        /\ local'[b].mapped = local[b].mapped
        /\ took'[b] = took[b] \o local[b].waiting
    BY <1>2 DEF LocalStates
  <2>2. /\ Unused(b) /\ OpenedOnce(b) /\ AtAgent(b) /\ SaidFlows(b) /\ TypedFlows(b) /\ InNumber(b) /\ Backed(b)
    BY <1>4, BackedHolds DEF Stream, Links
  <2>3. /\ took[b] \in Seq(1..MaxMessages) /\ local[b].waiting \in Seq(1..MaxMessages)
        /\ Len(took[b]) \in Nat /\ Len(local[b].waiting) \in Nat
    BY <2>2, CountsHalves DEF Backed
  <2>4. Len(took'[b]) = Len(took[b]) + Len(local[b].waiting)
    BY <2>1, <2>3, ConcatProperties
  <2>5. HalvesTaken(b)' = HalvesTaken(b)
    <3>1. HalvesTaken(b)' = 2 * (Len(took'[b]) + Len(<<>>))
      BY <2>1 DEF HalvesTaken
    <3>2. \A k, l \in Nat : k + l \in Nat
      OBVIOUS
    <3>4. Len(took'[b]) \in Nat
      BY <2>3, <2>4, <3>2
    <3>5. Len(<<>>) = 0
      OBVIOUS
    <3>6. \A k \in Nat : k + 0 = k
      OBVIOUS
    <3>3. HalvesTaken(b)' = 2 * Len(took'[b])
      BY <3>1, <3>4, <3>5, <3>6
    <3> QED
      BY <2>4, <3>3 DEF HalvesTaken
  <2>6. Unused(b)'
    BY <1>1, <1>2, <2>1, <2>2 DEF Unused
  <2>7. OpenedOnce(b)'
    BY <1>1, <1>2, <2>2 DEF OpenedOnce
  <2>8. AtAgent(b)'
    BY <1>1, <1>2, <2>1, <2>2 DEF AtAgent
  <2>9. SaidFlows(b)'
    <3>1. HalvesHeard(b)' = HalvesHeard(b)
      BY <1>1 DEF HalvesHeard
    <3> QED
      BY <1>1, <2>2, <3>1 DEF SaidFlows
  <2>10. TypedFlows(b)'
    <3>1. \A c \in Conns : Serves(c, b)' => Serves(c, b)
      BY <1>1, <2>1 DEF Serves
    <3> QED
      BY <1>1, <2>2, <2>5, <3>1 DEF TypedFlows
  <2>11. InNumber(b)'
    <3>1. \A k \in 1..Len(<<>>) : FALSE
      OBVIOUS
    <3>2. InOrder(took'[b])
      BY <2>1, <2>2, <2>3, InOrderOn DEF InNumber
    <3> QED
      BY <1>1, <2>1, <2>2, <3>1, <3>2 DEF InNumber
  <2> QED
    BY <1>4, <2>6, <2>7, <2>8, <2>9, <2>10, <2>11 DEF Stream
<1> QED
  BY <1>3, <1>4

LEMMA CloseLocalCalm ==
  ASSUME LinkInv, NEW i, NEW b \in Browsers, local' = CloseLocal(i, b), took' = took, NEW x \in Browsers
  PROVE  CalmSocket(x)
<1>1. local \in [Browsers -> LocalStates] /\ (local[b].mapped => local[b].socket # "none")
  BY DEF LinkInv, LinkTypes, AppTyped, Hosted
<1>2. CASE local[b].mapped /\ local[b].host = i /\ x = b
  <2> DEFINE s == IF local[b].socket = "open" THEN "closing" ELSE "closed"
  <2>1. local' = [local EXCEPT ![b].mapped = FALSE, ![b].waiting = <<>>, ![b].socket = s] /\ s # "none"
    BY <1>1, <1>2 DEF CloseLocal
  <2> HIDE DEF s
  <2>2. ~local'[b].mapped
    BY <1>1, <2>1 DEF LocalStates
  <2>3. local'[b].waiting = <<>> /\ local'[b].socket # "none" /\ local'[b].host = local[b].host
    BY <1>1, <2>1 DEF LocalStates
  <2> QED
    BY <1>1, <1>2, <2>2, <2>3 DEF CalmSocket
<1>3. CASE ~(local[b].mapped /\ local[b].host = i) \/ x # b
  <2>1. local'[x] = local[x]
    <3>1. CASE x # b
      BY <3>1, CloseLocalIs
    <3>2. CASE ~(local[b].mapped /\ local[b].host = i)
      <4>1. local' = local
        BY <3>2 DEF CloseLocal
      <4> QED
        BY <4>1
    <3> QED
      BY <1>3, <3>1, <3>2
  <2> QED
    BY <2>1 DEF CalmSocket
<1> QED
  BY <1>2, <1>3

\* What a local server says is message number said[b] + 1, whole or in two pieces, or closes the socket.
LEMMA SaysFrames ==
  ASSUME LinkInv, NEW b \in Browsers, LocalSays(b)
  PROVE  /\ local[b].host \in Instances /\ local[b].socket # "none" /\ said[b] \in Nat /\ said'[b] = said[b] + 1
         /\ UNCHANGED <<hubVars, instance, took, typed>> /\ CalmSocket(b)
         /\ \E m \in Messages, ms \in Seq(Messages) :
              /\ conn' = Up(conn, local[b].host, ms) /\ m.b = b
              /\ \/ ms = <<m>> /\ m.type = "message" /\ m.n = said[b] + 1
                 \/ ms = <<m>> /\ m.type = "close"
                 \/ /\ m.type = "chunk" /\ m.n = said[b] + 1 /\ m.k = 1
                    /\ \E l \in Messages : ms = <<m, l>> /\ l.type = "chunk" /\ l.b = b /\ l.n = said[b] + 1 /\ l.k = 2
<1> DEFINE i == local[b].host
           n == said[b] + 1
           m0 == M("message", b, n, 0)
           m1 == M("chunk", b, n, 1)
           m2 == M("chunk", b, n, 2)
           m3 == M("close", b, 0, 0)
<1>0. i \in Instances /\ local[b].socket # "none"
  BY DEF LocalSays, LinkInv, LinkTypes, Hosted
<1>1. n \in 1..MaxMessages /\ said[b] \in Nat
  BY RelayLinkAssumption DEF RelayLinkAssumption, LocalSays, LinkInv, LinkTypes, AppTyped
<1>2. /\ UNCHANGED <<hubVars, instance, took, typed>> /\ took' = took /\ said' = [said EXCEPT ![b] = n]
      /\ \/ conn' = Up(conn, i, <<m0>>) /\ UNCHANGED local
         \/ conn' = Up(conn, i, <<m1, m2>>) /\ UNCHANGED local
         \/ conn' = Up(conn, i, <<m3>>) /\ local' = CloseLocal(i, b)
  BY DEF LocalSays
<1>3. /\ m0 \in Messages /\ m0.type = "message" /\ m0.b = b /\ m0.n = n
      /\ m1 \in Messages /\ m1.type = "chunk" /\ m1.b = b /\ m1.n = n /\ m1.k = 1
      /\ m2 \in Messages /\ m2.type = "chunk" /\ m2.b = b /\ m2.n = n /\ m2.k = 2
      /\ m3 \in Messages /\ m3.type = "close" /\ m3.b = b
  BY <1>1, BrowserFrames DEF M
<1>4. said'[b] = said[b] + 1
  BY <1>2 DEF LinkInv, LinkTypes, AppTyped
<1>5. CalmSocket(b)
  BY <1>2, CloseLocalCalm DEF CalmSocket
<1>n. n = said[b] + 1
  OBVIOUS
<1> HIDE DEF m0, m1, m2, m3, i, n
<1>6. <<m0>> \in Seq(Messages) /\ <<m1, m2>> \in Seq(Messages) /\ <<m3>> \in Seq(Messages)
  BY <1>3
<1>7. \E m \in Messages, ms \in Seq(Messages) :
        /\ conn' = Up(conn, i, ms) /\ m.b = b
        /\ \/ ms = <<m>> /\ m.type = "message" /\ m.n = n
           \/ ms = <<m>> /\ m.type = "close"
           \/ /\ m.type = "chunk" /\ m.n = n /\ m.k = 1
              /\ \E l \in Messages : ms = <<m, l>> /\ l.type = "chunk" /\ l.b = b /\ l.n = n /\ l.k = 2
  <2>1. CASE conn' = Up(conn, i, <<m0>>)
    BY <1>3, <1>6, <2>1
  <2>2. CASE conn' = Up(conn, i, <<m1, m2>>)
    BY <1>3, <1>6, <2>2
  <2>3. CASE conn' = Up(conn, i, <<m3>>)
    BY <1>3, <1>6, <2>3
  <2> QED
    BY <1>2, <2>1, <2>2, <2>3
<1> QED
  BY <1>0, <1>1, <1>2, <1>4, <1>5, <1>7 DEF i, n

LEMMA LocalSaysStream ==
  ASSUME LinkInv, Links, LinkInv', NEW b \in Browsers, LocalSays(b), Stream(b)
  PROVE  Stream(b)'
<1>0. /\ Unused(b) /\ OpenedOnce(b) /\ AtAgent(b) /\ SaidFlows(b) /\ TypedFlows(b) /\ InNumber(b) /\ Backed(b)
  BY BackedHolds DEF Stream, Links
<1>1. /\ local[b].host \in Instances /\ local[b].socket # "none" /\ said[b] \in Nat /\ said'[b] = said[b] + 1
      /\ UNCHANGED <<hubVars, instance, took, typed>> /\ CalmSocket(b)
  BY SaysFrames
<1>2. PICK m \in Messages, ms \in Seq(Messages) :
        /\ conn' = Up(conn, local[b].host, ms) /\ m.b = b
        /\ \/ ms = <<m>> /\ m.type = "message" /\ m.n = said[b] + 1
           \/ ms = <<m>> /\ m.type = "close"
           \/ /\ m.type = "chunk" /\ m.n = said[b] + 1 /\ m.k = 1
              /\ \E l \in Messages : ms = <<m, l>> /\ l.type = "chunk" /\ l.b = b /\ l.n = said[b] + 1 /\ l.k = 2
  BY SaysFrames
<1>u. UNCHANGED <<agent, browser, heard, unpurged>> /\ instance' = instance /\ typed' = typed
  BY <1>1 DEF hubVars
<1>r. PICK r \in Conns \cup {NoConn} : r = instance[local[b].host].relay
  BY <1>1 DEF LinkInv, LinkTypes, InstanceStates
<1>3. \A c \in Conns : /\ conn[c].up \in Seq(Messages)
                       /\ conn'[c].app = conn[c].app /\ conn'[c].of = conn[c].of /\ conn'[c].down = conn[c].down
                       /\ conn'[c].hub = conn[c].hub /\ conn'[c].cut = conn[c].cut
                       /\ IF c = r /\ conn[c].app = "open" /\ ~conn[c].cut
                          THEN conn'[c].up = conn[c].up \o ms ELSE conn'[c] = conn[c]
  <2>1. LinesOK(conn) /\ instance[local[b].host].relay \in Conns \cup {NoConn}
    BY <1>r DEF LinkInv, LinkTypes
  <2>2. \A c \in Conns : conn'[c] = IF c = r /\ conn[c].app = "open" /\ ~conn[c].cut
                                    THEN [conn[c] EXCEPT !.up = @ \o ms] ELSE conn[c]
    <3>1. PICK i \in Instances : i = local[b].host
      BY <1>1
    <3>2. conn' = Up(conn, i, ms) /\ r = instance[i].relay
      BY <1>2, <1>r, <3>1
    <3>3. \A c \in Conns : Up(conn, i, ms)[c] = IF c = instance[i].relay /\ conn[c].app = "open" /\ ~conn[c].cut
                                                 THEN [conn[c] EXCEPT !.up = @ \o ms] ELSE conn[c]
      BY <2>1, <3>1, UpEffect
    <3> QED
      BY <3>2, <3>3
  <2> SUFFICES ASSUME NEW c \in Conns
               PROVE  /\ conn[c].up \in Seq(Messages)
                      /\ conn'[c].app = conn[c].app /\ conn'[c].of = conn[c].of /\ conn'[c].down = conn[c].down
                      /\ conn'[c].hub = conn[c].hub /\ conn'[c].cut = conn[c].cut
                      /\ IF c = r /\ conn[c].app = "open" /\ ~conn[c].cut
                         THEN conn'[c].up = conn[c].up \o ms ELSE conn'[c] = conn[c]
    OBVIOUS
  <2> DEFINE u == conn[c].up \o ms
  <2>3. conn'[c] = IF c = r /\ conn[c].app = "open" /\ ~conn[c].cut THEN [conn[c] EXCEPT !.up = u] ELSE conn[c]
    BY <2>2
  <2>4. conn[c] \in LineStates
    BY LineIs
  <2>5. u = conn[c].up \o ms
    OBVIOUS
  <2> HIDE DEF u
  <2> QED
    BY <2>3, <2>4, <2>5 DEF LineStates
<1>4. browser[b].socket # "none" /\ local'[b].socket # "none" /\ local'[b].host = local[b].host
      /\ (local'[b].mapped => local[b].mapped)
  BY <1>0, <1>1 DEF Unused, CalmSocket
<1>5. Unused(b)'
  BY <1>4, <1>u DEF Unused
<1>6. \A c \in Conns : Quieter(conn[c].down, conn'[c].down, b)
  BY <1>3, SameBeside DEF Beside
<1>7. OpenedOnce(b)'
  BY <1>0, <1>1, <1>6, OpenedOnceRests
<1>p. CalmPlace(b) /\ CalmEntry(b)
  <2>1. CalmEntry(b)
    BY <1>u DEF CalmEntry
  <2> SUFFICES ASSUME browser'[b].entered, ~unpurged'
               PROVE  /\ agent' = agent /\ conn'[agent].of = conn[agent].of
                      /\ conn'[agent].app = "connecting" => conn[agent].app = "connecting"
                      /\ \A i \in Instances : instance'[i].relay \notin {NoConn, agent} =>
                           \/ Unconnected(conn'[instance'[i].relay])
                           \/ instance'[i].relay = instance[i].relay /\ ~Unconnected(conn[instance[i].relay])
    BY <2>1 DEF CalmPlace
  <2>2. agent \in Conns
    BY <1>0, <1>u DEF Backed
  <2>3. \A c \in Conns : Unconnected(conn[c]) => Unconnected(conn'[c])
    BY <1>3 DEF Unconnected
  <2>4. \A i \in Instances : instance'[i].relay = instance[i].relay /\ instance[i].relay \in Conns \cup {NoConn}
    BY <1>u DEF LinkInv, LinkTypes, InstanceStates
  <2> QED
    BY <1>3, <1>u, <2>2, <2>3, <2>4
\* The instance reaches the agent, or nobody.
<1>8. ASSUME browser[b].entered, ~unpurged
      PROVE  /\ agent \in Conns
             /\ \A c \in Conns \ {agent} : conn'[c] = conn[c]
             /\ conn[agent].app = "open" => r = agent
  <2>1. agent \in Conns
    BY <1>0, <1>8 DEF Backed
  <2>2. /\ local[b].host = conn[agent].of /\ conn[agent].app # "connecting"
        /\ r \notin {NoConn, agent} => Unconnected(conn[r])
    BY <1>0, <1>1, <1>8, <1>r DEF AtAgent
  <2>3. \A c \in Conns \ {agent} : conn'[c] = conn[c]
    BY <1>3, <2>2, NoNumber DEF Unconnected
  <2>4. conn[agent].app = "open" => r = agent
    <3>1. conn[agent].app # "closed" => instance[conn[agent].of].relay = agent
      BY <2>1 DEF LinkInv, Owners
    <3> QED
      BY <1>r, <2>2, <3>1
  <2> QED
    BY <2>1, <2>3, <2>4
<1>9. AtAgent(b)'
  <2>1. browser'[b].entered /\ ~unpurged' => \A c \in Conns \ {agent} : Quieter(conn[c].up, conn'[c].up, b)
    BY <1>8, <1>u, SameBeside DEF Beside
  <2> QED
    BY <1>0, <1>1, <1>p, <2>1, AtAgentRests
<1>10. SaidFlows(b)'
  <2> SUFFICES ASSUME browser'[b].entered, ~unpurged', browser'[b].socket = "open"
               PROVE  /\ browser'[b].chunks = {} \/ browser'[b].chunks = {<<Len(heard'[b]) + 1, 1>>}
                      /\ Flows(conn'[agent'].up, b, HalvesHeard(b)', 2 * said'[b])
                      /\ conn'[agent'].app = "open" /\ ~conn'[agent'].cut =>
                           Fills(conn'[agent'].up, b, HalvesHeard(b)', 2 * said'[b])
    BY DEF SaidFlows
  <2>1. /\ agent \in Conns /\ agent' = agent
        /\ conn[agent].app = "open" => r = agent
    BY <1>8, <1>u
  <2>2. HalvesHeard(b)' = HalvesHeard(b) /\ HalvesHeard(b) \in Int
    BY <1>0, <1>u, CountsHalves DEF HalvesHeard
  <2>3. PICK q \in Int : q = HalvesHeard(b)
    BY <2>2
  <2>4. PICK s \in Seq(Messages) : s = conn[agent].up
    BY <1>3, <2>1
  <2>5. PICK w \in Int : w = 2 * said[b]
    BY <1>1
  <2>6. PICK v \in Int : v = 2 * said'[b] /\ v = w + 2
    BY <1>1, <2>5
  <2>7. /\ browser[b].chunks = {} \/ browser[b].chunks = {<<Len(heard[b]) + 1, 1>>}
        /\ Flows(s, b, q, w)
        /\ conn[agent].app = "open" /\ ~conn[agent].cut => Fills(s, b, q, w)
    BY <1>0, <1>u, <2>3, <2>4, <2>5 DEF SaidFlows
  <2>8. CASE conn[agent].app = "open" /\ ~conn[agent].cut
    <3>1. conn'[agent].up = s \o ms
      BY <1>3, <2>1, <2>4, <2>8
    <3>2. Flows(s, b, q, w) /\ Fills(s, b, q, w)
      BY <2>7, <2>8
    <3>3. Flows(s \o ms, b, q, v) /\ Fills(s \o ms, b, q, v)
      <4>1. CASE ms = <<m>> /\ m.type = "message" /\ m.n = said[b] + 1
        <5>1. Payload(m, b)
          BY <1>2, <4>1 DEF Payload
        <5>2. Beginning(m) = w + 1 /\ Ending(m) = v
          BY <1>1, <2>5, <2>6, <4>1, <5>1, Halves
        <5>3. s \o ms = Append(s, m)
          BY <4>1, AppendTwo
        <5> QED
          BY <3>2, <5>1, <5>2, <5>3, FlowsOn
      <4>2. CASE ms = <<m>> /\ m.type = "close"
        <5>1. ~Payload(m, b) /\ Shuts(m, b)
          BY <1>2, <4>2 DEF Payload, Shuts
        <5>2. w <= v
          BY <2>6
        <5>3. s \o ms = Append(s, m)
          BY <4>2, AppendTwo
        <5> QED
          BY <3>2, <5>1, <5>2, <5>3, FlowsBeside, FillsOn
      <4>3. CASE /\ m.type = "chunk" /\ m.n = said[b] + 1 /\ m.k = 1
                 /\ \E l \in Messages : ms = <<m, l>> /\ l.type = "chunk" /\ l.b = b /\ l.n = said[b] + 1 /\ l.k = 2
        <5>1. PICK l \in Messages : ms = <<m, l>> /\ l.type = "chunk" /\ l.b = b /\ l.n = said[b] + 1 /\ l.k = 2
          BY <4>3
        <5>2. Payload(m, b) /\ Payload(l, b)
          BY <1>2, <4>3, <5>1 DEF Payload
        <5>3. Beginning(m) = w + 1 /\ Ending(m) = w + 1
          <6>1. Beginning(m) = 2 * m.n - 1 /\ Ending(m) = 2 * m.n - 1
            BY <4>3, <5>2, Halves
          <6> QED
            BY <1>1, <2>5, <4>3, <6>1
        <5>4. Beginning(l) = (w + 1) + 1 /\ Ending(l) = v
          <6>1. Beginning(l) = 2 * l.n /\ Ending(l) = 2 * l.n
            BY <5>1, <5>2, Halves
          <6> QED
            BY <1>1, <2>5, <2>6, <5>1, <6>1
        <5>5. PICK t \in Seq(Messages) : t = Append(s, m)
          BY AppendIs
        <5>6. s \o ms = Append(t, l) /\ w + 1 \in Int
          BY <5>1, <5>5, AppendTwo
        <5>7. Flows(t, b, q, w + 1) /\ Fills(t, b, q, w + 1)
          BY <3>2, <5>2, <5>3, <5>5, FlowsOn
        <5>8. Flows(Append(t, l), b, q, v) /\ Fills(Append(t, l), b, q, v)
          BY <5>2, <5>4, <5>6, <5>7, FlowsOn
        <5> QED
          BY <5>6, <5>8
      <4> QED
        BY <1>2, <4>1, <4>2, <4>3
    <3> QED
      BY <1>u, <2>1, <2>2, <2>3, <2>6, <2>7, <3>1, <3>3
  <2>9. CASE ~(conn[agent].app = "open" /\ ~conn[agent].cut)
    <3>1. conn'[agent] = conn[agent]
      BY <1>3, <2>1, <2>9
    <3>2. w <= v
      BY <2>6
    <3>3. Flows(s, b, q, v)
      BY <2>7, <3>2, FlowsMore
    <3> QED
      BY <1>u, <2>1, <2>2, <2>3, <2>4, <2>6, <2>7, <2>9, <3>1, <3>3
  <2> QED
    BY <2>8, <2>9
<1>11. TypedFlows(b)'
  <2>1. CalmDown(b)
    <3>1. \A c \in Conns : FlowsStill(conn[c].down, conn'[c].down, b) /\ FillsStill(conn[c].down, conn'[c].down, b)
      BY <1>3, SameBeside DEF Beside
    <3> QED
      BY <1>3, <1>u, <3>1 DEF CalmDown, TakesOn
  <2>2. CalmRelays /\ typed'[b] = typed[b]
    BY <1>u DEF CalmRelays
  <2> QED
    BY <1>0, <1>1, <1>6, <2>1, <2>2, TypedFlowsRests
<1>12. InNumber(b)'
  <2>1. ~unpurged' => InOrder(heard'[b])
    BY <1>0, <1>u DEF InNumber
  <2> QED
    BY <1>0, <1>1, <2>1, InNumberRests
<1> QED
  BY <1>5, <1>7, <1>9, <1>10, <1>11, <1>12 DEF Stream

-----------------------------------------------------------------------------
(* The hub hears something from an agent                                   *)

LEMMA HeardSmooth ==
  ASSUME LinkInv, NEW c \in Conns, FromAgent(c), NEW x, NEW d \in Conns,
         c = agent /\ browser'[x].entered /\ browser'[x].socket = "open" =>
           ~Payload(Head(conn[c].up), x) /\ ~Shuts(Head(conn[c].up), x)
  PROVE  Smooth(d, x)
<1>1. /\ conn[c].hub \in {"open", "closing"} /\ conn[c].up \in Seq(Messages) /\ conn[c].up # <<>>
      /\ conn'[c] = [conn[c] EXCEPT !.up = Tail(@), !.hub = IF Head(conn[c].up).type = Bye THEN "ended" ELSE @]
      /\ \A e \in Conns \ {c} : conn'[e] = conn[e]
  BY HeardEffect
<1>2. /\ conn'[c].app = conn[c].app /\ conn'[c].of = conn[c].of /\ conn'[c].down = conn[c].down
      /\ conn'[c].cut = conn[c].cut /\ conn'[c].up = Tail(conn[c].up) /\ conn'[c].hub \in {conn[c].hub, "ended"}
  BY <1>1, LineIs DEF LineStates
<1>3. CASE d # c
  BY <1>1, <1>3, SameSmooth
<1>4. CASE d = c
  <2>1. Quieter(conn[c].up, conn'[c].up, x) /\ Beside(conn[c].down, conn'[c].down, x)
    BY <1>1, <1>2, LessQuieter, SameBeside
  <2>2. c = agent /\ browser'[x].entered /\ browser'[x].socket = "open" => HearsOn(c, x)
    <3> SUFFICES ASSUME c = agent, browser'[x].entered, browser'[x].socket = "open" PROVE HearsOn(c, x)
      OBVIOUS
    <3>1. Beside(conn[c].up, Tail(conn[c].up), x)
      BY <1>1, LessQuieter
    <3> QED
      BY <1>2, <3>1 DEF HearsOn, Beside
  <2>3. ~Unconnected(conn[c])
    BY <1>1 DEF Unconnected
  <2> QED
    BY <1>2, <1>4, <2>1, <2>2, <2>3 DEF Smooth, Beside
<1> QED
  BY <1>3, <1>4

LEMMA HeardRests ==
  ASSUME LinkInv, Links, LinkInv', NEW c \in Conns, FromAgent(c), NEW x \in Browsers, Stream(x), CalmBrowser(x),
         browser'[x].entered /\ browser'[x].socket = "open" =>
           ~Payload(Head(conn[c].up), x) /\ ~Shuts(Head(conn[c].up), x)
  PROVE  Stream(x)'
<1>1. UNCHANGED <<agent, instance, local, took, said>>
  BY DEF FromAgent, appVars
<1>2. CalmLocal(x)
  BY <1>1 DEF CalmLocal, CalmSocket
<1>3. \A d \in Conns : Smooth(d, x)
  BY HeardSmooth
<1> QED
  BY <1>1, <1>2, <1>3, SmoothRests

LEMMA DeliverIs ==
  ASSUME HubTyped, NEW b \in Browsers, NEW n, Deliver(b, n), NEW x \in Browsers
  PROVE  heard'[x] = IF x = b /\ browser[b].socket = "open" THEN Append(heard[x], n) ELSE heard[x]
BY DEF Deliver, HubTyped

LEMMA ChunkIs ==
  ASSUME HubTyped, NEW m \in Messages, m.type = "chunk", Chunk(m), NEW x \in Browsers
  PROVE  /\ browser'[x].entered = browser[x].entered /\ browser'[x].socket = browser[x].socket
         /\ x # m.b => browser'[x] = browser[x] /\ heard'[x] = heard[x]
         /\ browser[m.b].socket # "open" => heard'[x] = heard[x]
         /\ LET pieces == browser[m.b].chunks \cup {<<m.n, m.k>>}
            IN  IF {<<m.n, 1>>, <<m.n, 2>>} \subseteq pieces
                THEN /\ browser'[m.b].chunks = {p \in pieces : p[1] # m.n}
                     /\ browser[m.b].socket = "open" => heard'[m.b] = Append(heard[m.b], m.n)
                ELSE browser'[m.b].chunks = pieces /\ heard'[m.b] = heard[m.b]
<1>1. m.b \in Browsers /\ browser \in [Browsers -> BrowserStates]
  BY DEF Messages, HubTyped
<1> DEFINE a == m.b
           pieces == browser[a].chunks \cup {<<m.n, m.k>>}
           left == {p \in pieces : p[1] # m.n}
           whole == {<<m.n, 1>>, <<m.n, 2>>} \subseteq pieces
           new == IF whole THEN left ELSE pieces
<1>2. browser' = [browser EXCEPT ![a].chunks = new]
  BY DEF Chunk
<1>3. IF whole THEN Deliver(a, m.n) ELSE heard' = heard
  BY DEF Chunk
<1>4. a \in Browsers /\ a = m.b
  BY <1>1
<1> HIDE DEF a, pieces, left, whole, new
<1>5. /\ browser'[x].entered = browser[x].entered /\ browser'[x].socket = browser[x].socket
      /\ x # a => browser'[x] = browser[x]
      /\ browser'[a].chunks = new
  <2>1. x # a => browser'[x] = browser[x]
    BY <1>1, <1>2
  <2>2. browser'[a] = [browser[a] EXCEPT !.chunks = new] /\ browser[a] \in BrowserStates
    BY <1>1, <1>2, <1>4
  <2>3. browser'[a].entered = browser[a].entered /\ browser'[a].socket = browser[a].socket /\ browser'[a].chunks = new
    BY ZenonT(60), <2>2 DEF BrowserStates
  <2> QED
    BY <2>1, <2>3
<1>6. /\ x # a \/ browser[a].socket # "open" => heard'[x] = heard[x]
      /\ whole /\ browser[a].socket = "open" => heard'[a] = Append(heard[a], m.n)
      /\ ~whole => heard'[a] = heard[a]
  BY <1>3, <1>4, DeliverIs
<1>7. /\ whole => browser'[a].chunks = left /\ (browser[a].socket = "open" => heard'[a] = Append(heard[a], m.n))
      /\ ~whole => browser'[a].chunks = pieces /\ heard'[a] = heard[a]
  BY <1>5, <1>6 DEF new
<1>8. /\ browser'[x].entered = browser[x].entered /\ browser'[x].socket = browser[x].socket
      /\ x # a => browser'[x] = browser[x] /\ heard'[x] = heard[x]
      /\ browser[a].socket # "open" => heard'[x] = heard[x]
  BY <1>5, <1>6
<1> QED
  BY <1>7, <1>8 DEF a, pieces, left, whole

LEMMA InOrderNext ==
  ASSUME NEW S, NEW s \in Seq(S), Len(s) + 1 \in S, InOrder(s)
  PROVE  InOrder(Append(s, Len(s) + 1)) /\ Len(Append(s, Len(s) + 1)) = Len(s) + 1
<1>1. PICK n \in Nat : n = Len(s)
  OBVIOUS
<1>2. \A k \in 1..n : s[k] = k
  BY <1>1, InOrderIs
<1>s. n + 1 \in S
  BY <1>1
<1>a. \A e \in S : Append(s, e) \in Seq(S)
  BY AppendProperties
<1>3. PICK t \in Seq(S) : t = Append(s, n + 1)
  BY <1>s, <1>a
<1>4. Len(t) = n + 1 /\ t[n + 1] = n + 1 /\ \A k \in 1..n : t[k] = s[k]
  BY <1>1, <1>3, AppendProperties
<1>5. \A k \in 1..Len(t) : k = n + 1 \/ k \in 1..n
  BY <1>1, <1>4
<1>6. InOrder(t)
  BY <1>2, <1>4, <1>5, InOrderIs
<1> QED
  BY <1>1, <1>3, <1>4, <1>6

\* A browser hears the half that comes next.
LEMMA HearsHalf ==
  ASSUME HubTyped, NEW b \in Browsers, NEW m \in Messages, Payload(m, b), browser[b].socket = "open",
         browser[b].chunks = {} \/ browser[b].chunks = {<<Len(heard[b]) + 1, 1>>},
         Beginning(m) = HalvesHeard(b) + 1,
         \/ m.type = "message" /\ Deliver(m.b, m.n) /\ UNCHANGED browser
         \/ m.type = "chunk" /\ Chunk(m)
  PROVE  /\ browser'[b].chunks = {} \/ browser'[b].chunks = {<<Len(heard'[b]) + 1, 1>>}
         /\ HalvesHeard(b)' = Ending(m)
         /\ InOrder(heard[b]) => InOrder(heard'[b])
<1>1. /\ m.b = b /\ m.n \in 1..MaxMessages /\ Beginning(m) \in Nat /\ Ending(m) \in Nat
      /\ m.type = "message" => Beginning(m) = 2 * m.n - 1 /\ Ending(m) = 2 * m.n
      /\ m.type = "chunk" /\ m.k = 1 => Beginning(m) = 2 * m.n - 1 /\ Ending(m) = 2 * m.n - 1
      /\ m.type = "chunk" /\ m.k # 1 => m.k = 2 /\ Beginning(m) = 2 * m.n /\ Ending(m) = 2 * m.n
  BY Halves DEF Payload
<1>2. heard[b] \in Seq(1..MaxMessages)
  BY DEF HubTyped
<1>3. PICK h \in Nat : h = Len(heard[b])
  BY <1>2, LenProperties
<1>n. PICK n \in Nat : n = m.n
  BY <1>1, RelayLinkAssumption
<1>4. /\ browser[b].chunks = {} => HalvesHeard(b) = 2 * h
      /\ browser[b].chunks # {} => HalvesHeard(b) = 2 * h + 1
  <2>1. HalvesHeard(b) = 2 * h + (IF browser[b].chunks = {} THEN 0 ELSE 1)
    BY <1>3 DEF HalvesHeard
  <2>2. 2 * h + 0 = 2 * h
    OBVIOUS
  <2> QED
    BY <2>1, <2>2
<1>5. /\ n = h + 1
      /\ browser[b].chunks # {} => m.type = "chunk" /\ m.k = 2
      /\ browser[b].chunks = {} => m.type = "message" \/ m.k = 1
  BY <1>1, <1>4, <1>n DEF Payload
<1>6. \/ m.type = "message" /\ browser[b].chunks = {} /\ Ending(m) = 2 * (h + 1)
      \/ m.type = "chunk" /\ m.k = 1 /\ browser[b].chunks = {} /\ Ending(m) = 2 * h + 1
      \/ m.type = "chunk" /\ m.k = 2 /\ browser[b].chunks = {<<h + 1, 1>>} /\ Ending(m) = 2 * (h + 1)
  BY <1>1, <1>3, <1>5, <1>n DEF Payload
<1>7. h + 1 \in 1..MaxMessages /\ m.n = h + 1
  BY <1>1, <1>5, <1>n
\* The message is whole.
<1>8. ASSUME heard'[b] = Append(heard[b], h + 1), browser'[b].chunks = {}, Ending(m) = 2 * (h + 1)
      PROVE  /\ browser'[b].chunks = {} \/ browser'[b].chunks = {<<Len(heard'[b]) + 1, 1>>}
             /\ HalvesHeard(b)' = Ending(m)
             /\ InOrder(heard[b]) => InOrder(heard'[b])
  <2>1. Len(heard'[b]) = h + 1
    BY <1>2, <1>3, <1>7, <1>8, AppendProperties
  <2>2. HalvesHeard(b)' = 2 * (h + 1)
    BY <1>8, <2>1 DEF HalvesHeard
  <2>3. InOrder(heard[b]) => InOrder(heard'[b])
    BY <1>2, <1>3, <1>7, <1>8, InOrderNext
  <2> QED
    BY <1>8, <2>2, <2>3
<1>9. CASE m.type = "message" /\ browser[b].chunks = {} /\ Ending(m) = 2 * (h + 1)
  <2>1. Deliver(b, h + 1) /\ browser' = browser
    BY <1>1, <1>7, <1>9
  <2>2. heard'[b] = Append(heard[b], h + 1)
    BY <2>1, DeliverIs
  <2> QED
    BY <1>8, <1>9, <2>1, <2>2
<1>10. CASE m.type = "chunk" /\ m.k = 1 /\ browser[b].chunks = {} /\ Ending(m) = 2 * h + 1
  <2> DEFINE pieces == browser[b].chunks \cup {<<h + 1, 1>>}
  <2>1. IF {<<h + 1, 1>>, <<h + 1, 2>>} \subseteq pieces
        THEN /\ browser'[b].chunks = {p \in pieces : p[1] # h + 1}
             /\ browser[b].socket = "open" => heard'[b] = Append(heard[b], h + 1)
        ELSE browser'[b].chunks = pieces /\ heard'[b] = heard[b]
    <3>1. Chunk(m)
      BY <1>10
    <3>2. LET new == browser[m.b].chunks \cup {<<m.n, m.k>>}
          IN  IF {<<m.n, 1>>, <<m.n, 2>>} \subseteq new
              THEN /\ browser'[m.b].chunks = {p \in new : p[1] # m.n}
                   /\ browser[m.b].socket = "open" => heard'[m.b] = Append(heard[m.b], m.n)
              ELSE browser'[m.b].chunks = new /\ heard'[m.b] = heard[m.b]
      BY <1>10, <3>1, ChunkIs
    <3>3. m.b = b /\ m.n = h + 1 /\ m.k = 1
      BY <1>1, <1>7, <1>10
    <3> HIDE DEF Chunk
    <3> QED
      BY <3>2, <3>3
  <2>2. pieces = {<<h + 1, 1>>}
    BY <1>10
  <2>3. <<h + 1, 2>> # <<h + 1, 1>>
    OBVIOUS
  <2> HIDE DEF pieces
  <2>4. browser'[b].chunks = {<<h + 1, 1>>} /\ heard'[b] = heard[b]
    BY <2>1, <2>2, <2>3
  <2>5. HalvesHeard(b)' = 2 * h + 1
    BY <1>3, <2>4 DEF HalvesHeard
  <2> QED
    BY <1>3, <1>10, <2>4, <2>5
<1>11. CASE m.type = "chunk" /\ m.k = 2 /\ browser[b].chunks = {<<h + 1, 1>>} /\ Ending(m) = 2 * (h + 1)
  <2> DEFINE pieces == browser[b].chunks \cup {<<h + 1, 2>>}
  <2>1. IF {<<h + 1, 1>>, <<h + 1, 2>>} \subseteq pieces
        THEN /\ browser'[b].chunks = {p \in pieces : p[1] # h + 1}
             /\ browser[b].socket = "open" => heard'[b] = Append(heard[b], h + 1)
        ELSE browser'[b].chunks = pieces /\ heard'[b] = heard[b]
    <3>1. Chunk(m)
      BY <1>11
    <3>2. LET new == browser[m.b].chunks \cup {<<m.n, m.k>>}
          IN  IF {<<m.n, 1>>, <<m.n, 2>>} \subseteq new
              THEN /\ browser'[m.b].chunks = {p \in new : p[1] # m.n}
                   /\ browser[m.b].socket = "open" => heard'[m.b] = Append(heard[m.b], m.n)
              ELSE browser'[m.b].chunks = new /\ heard'[m.b] = heard[m.b]
      BY <1>11, <3>1, ChunkIs
    <3>3. m.b = b /\ m.n = h + 1 /\ m.k = 2
      BY <1>1, <1>7, <1>11
    <3> HIDE DEF Chunk
    <3> QED
      BY <3>2, <3>3
  <2>2. pieces = {<<h + 1, 1>>, <<h + 1, 2>>}
    BY <1>11
  <2>3. \A p \in {<<h + 1, 1>>, <<h + 1, 2>>} : p[1] = h + 1
    OBVIOUS
  <2> HIDE DEF pieces
  <2>4. browser'[b].chunks = {} /\ heard'[b] = Append(heard[b], h + 1)
    BY <2>1, <2>2, <2>3
  <2> QED
    BY <1>8, <1>11, <2>4
<1> QED
  BY <1>6, <1>9, <1>10, <1>11

LEMMA HearsStream ==
  ASSUME LinkInv, Links, LinkInv', NEW c \in Conns, FromAgent(c), NEW b \in Browsers, Stream(b),
         NEW m \in Messages, m = Head(conn[c].up), Payload(m, b),
         browser'[b].entered = browser[b].entered, browser'[b].socket = browser[b].socket,
         browser[b].entered, browser[b].socket = "open",
         \/ m.type = "message" /\ Deliver(m.b, m.n) /\ UNCHANGED browser
         \/ m.type = "chunk" /\ Chunk(m)
  PROVE  Stream(b)'
<1>0. /\ Unused(b) /\ OpenedOnce(b) /\ AtAgent(b) /\ SaidFlows(b) /\ TypedFlows(b) /\ InNumber(b) /\ Backed(b)
  BY BackedHolds DEF Stream, Links
<1>1. /\ conn[c].hub \in {"open", "closing"} /\ conn[c].up \in Seq(Messages) /\ conn[c].up # <<>>
      /\ conn'[c] = [conn[c] EXCEPT !.up = Tail(@), !.hub = IF Head(conn[c].up).type = Bye THEN "ended" ELSE @]
      /\ \A d \in Conns \ {c} : conn'[d] = conn[d]
  BY HeardEffect
<1>2. /\ conn'[c].app = conn[c].app /\ conn'[c].of = conn[c].of /\ conn'[c].down = conn[c].down
      /\ conn'[c].cut = conn[c].cut /\ conn'[c].up = Tail(conn[c].up) /\ conn'[c].hub = conn[c].hub
  <2>1. m.type # Bye
    BY DEF Payload, Bye
  <2> QED
    BY <1>1, <2>1, LineIs DEF LineStates
<1>u. UNCHANGED <<agent, instance, local, took, said, typed, unpurged>>
  BY DEF FromAgent, appVars
<1>3. \A d \in Conns : /\ conn'[d].app = conn[d].app /\ conn'[d].of = conn[d].of /\ conn'[d].down = conn[d].down
                       /\ conn'[d].cut = conn[d].cut /\ conn'[d].hub = conn[d].hub
                       /\ Quieter(conn[d].up, conn'[d].up, b) /\ Beside(conn[d].down, conn'[d].down, b)
  <2>1. Quieter(conn[c].up, Tail(conn[c].up), b)
    BY <1>1, LessQuieter
  <2> QED
    BY <1>1, <1>2, <2>1, SameBeside DEF Beside
<1>4. CalmSocket(b) /\ CalmEntry(b) /\ CalmRelays
  BY <1>u DEF CalmSocket, CalmEntry, CalmRelays
<1>5. \A d \in Conns : Quieter(conn[d].up, conn'[d].up, b) /\ Quieter(conn[d].down, conn'[d].down, b)
  BY <1>3 DEF Beside
<1>6. Unused(b)'
  BY <1>0, <1>5, <1>u DEF Unused, Quieter
<1>7. OpenedOnce(b)'
  BY <1>0, <1>4, <1>5, OpenedOnceRests
<1>8. AtAgent(b)'
  <2>1. CalmPlace(b)
    <3> SUFFICES ASSUME browser'[b].entered, ~unpurged'
                 PROVE  /\ agent' = agent /\ conn'[agent].of = conn[agent].of
                        /\ conn'[agent].app = "connecting" => conn[agent].app = "connecting"
                        /\ \A i \in Instances : instance'[i].relay \notin {NoConn, agent} =>
                             \/ Unconnected(conn'[instance'[i].relay])
                             \/ instance'[i].relay = instance[i].relay /\ ~Unconnected(conn[instance[i].relay])
      BY DEF CalmPlace
    <3>1. agent \in Conns
      BY <1>0, <1>u DEF Backed
    <3>2. \A i \in Instances : instance'[i].relay = instance[i].relay /\ instance[i].relay \in Conns \cup {NoConn}
      BY <1>u DEF LinkInv, LinkTypes, InstanceStates
    <3>3. \A d \in Conns : Unconnected(conn[d]) => Unconnected(conn'[d])
      BY <1>3 DEF Unconnected
    <3> QED
      BY <1>3, <1>u, <3>1, <3>2, <3>3
  <2> QED
    BY <1>0, <1>4, <1>5, <2>1, AtAgentRests
<1>9. TypedFlows(b)'
  <2>1. CalmDown(b)
    BY <1>3, <1>u DEF CalmDown, TakesOn, Beside
  <2> QED
    BY <1>0, <1>4, <1>5, <1>u, <2>1, TypedFlowsRests
\* The agent alone speaks, and what it says comes next.
<1>10. ASSUME ~unpurged
       PROVE  /\ c = agent
              /\ browser[b].chunks = {} \/ browser[b].chunks = {<<Len(heard[b]) + 1, 1>>}
              /\ Flows(conn[c].up, b, HalvesHeard(b), 2 * said[b])
              /\ conn[c].app = "open" /\ ~conn[c].cut => Fills(conn[c].up, b, HalvesHeard(b), 2 * said[b])
              /\ HalvesHeard(b) \in Int /\ 2 * said[b] \in Int
              /\ Beginning(m) = HalvesHeard(b) + 1
              /\ browser'[b].chunks = {} \/ browser'[b].chunks = {<<Len(heard'[b]) + 1, 1>>}
              /\ HalvesHeard(b)' = Ending(m)
              /\ InOrder(heard[b]) => InOrder(heard'[b])
  <2>1. c = agent
    <3>1. Speaks(conn[c].up, b)
      BY <1>1, SpeaksEffect
    <3> QED
      BY <1>0, <1>10, <3>1 DEF AtAgent
  <2>2. /\ browser[b].chunks = {} \/ browser[b].chunks = {<<Len(heard[b]) + 1, 1>>}
        /\ Flows(conn[c].up, b, HalvesHeard(b), 2 * said[b])
        /\ conn[c].app = "open" /\ ~conn[c].cut => Fills(conn[c].up, b, HalvesHeard(b), 2 * said[b])
    BY <1>0, <1>10, <2>1 DEF SaidFlows
  <2>3. HalvesHeard(b) \in Int /\ 2 * said[b] \in Int
    BY <1>0, CountsHalves DEF Backed
  <2>4. Beginning(m) = HalvesHeard(b) + 1
    BY <1>1, <2>2, <2>3, HeadFlows
  <2>5. HubTyped
    BY DEF LinkInv, LinkTypes
  <2>6. /\ browser'[b].chunks = {} \/ browser'[b].chunks = {<<Len(heard'[b]) + 1, 1>>}
        /\ HalvesHeard(b)' = Ending(m)
        /\ InOrder(heard[b]) => InOrder(heard'[b])
    BY <2>2, <2>4, <2>5, HearsHalf
  <2> QED
    BY <2>1, <2>2, <2>3, <2>4, <2>6
<1>11. SaidFlows(b)'
  <2> SUFFICES ASSUME browser'[b].entered, ~unpurged', browser'[b].socket = "open"
               PROVE  /\ browser'[b].chunks = {} \/ browser'[b].chunks = {<<Len(heard'[b]) + 1, 1>>}
                      /\ Flows(conn'[agent'].up, b, HalvesHeard(b)', 2 * said'[b])
                      /\ conn'[agent'].app = "open" /\ ~conn'[agent'].cut =>
                           Fills(conn'[agent'].up, b, HalvesHeard(b)', 2 * said'[b])
    BY DEF SaidFlows
  <2>1. c = agent /\ Beginning(m) = HalvesHeard(b) + 1 /\ HalvesHeard(b)' = Ending(m)
        /\ (browser'[b].chunks = {} \/ browser'[b].chunks = {<<Len(heard'[b]) + 1, 1>>})
    BY <1>10, <1>u
  <2>2. PICK q \in Int : q = HalvesHeard(b)
    BY <1>10, <1>u
  <2>3. PICK w \in Int : w = 2 * said[b]
    BY <1>10, <1>u
  <2>4. PICK r \in Int : r = Ending(m) /\ q <= r
    <3>1. Beginning(m) \in Nat /\ Ending(m) \in Nat /\ Beginning(m) <= Ending(m)
      BY Halves
    <3> QED
      BY <2>1, <2>2, <3>1
  <2>5. Flows(conn[c].up, b, q, w) /\ (conn[c].app = "open" /\ ~conn[c].cut => Fills(conn[c].up, b, q, w))
    BY <1>10, <1>u, <2>2, <2>3
  <2>6. ~Shuts(Head(conn[c].up), b) /\ Payload(Head(conn[c].up), b) /\ r = Ending(Head(conn[c].up))
    BY <2>4 DEF Shuts, Payload
  <2>7. Flows(Tail(conn[c].up), b, r, w)
    <3>1. r = (IF Payload(Head(conn[c].up), b) THEN Ending(Head(conn[c].up)) ELSE q)
      BY <2>6
    <3> QED
      BY <1>1, <2>5, <2>6, <3>1, TailFlows
  <2>8. conn[c].app = "open" /\ ~conn[c].cut => Fills(Tail(conn[c].up), b, r, w)
    BY <1>1, <2>4, <2>5, <2>6, TailFills
  <2> QED
    BY <1>2, <1>u, <2>1, <2>3, <2>4, <2>7, <2>8
<1>12. InNumber(b)'
  <2>1. ~unpurged' => InOrder(heard'[b])
    BY <1>0, <1>10, <1>u DEF InNumber
  <2> QED
    BY <1>0, <1>4, <2>1, InNumberRests
<1> QED
  BY <1>6, <1>7, <1>8, <1>9, <1>11, <1>12 DEF Stream

LEMMA FromAgentStreams ==
  ASSUME LinkInv, Links, LinkInv', NEW c \in Conns, FromAgent(c), NEW x \in Browsers, Stream(x)
  PROVE  Stream(x)'
<1>1. conn[c].up \in Seq(Messages) /\ conn[c].up # <<>>
  BY HeardEffect
<1>2. PICK m \in Messages : m = Head(conn[c].up)
  BY <1>1, TailIs
<1>t. HubTyped
  BY DEF LinkInv, LinkTypes
<1>u. UNCHANGED <<unpurged, typed>>
  BY DEF FromAgent
<1>3. ASSUME browser'[x] = browser[x], heard'[x] = heard[x], browser[x].entered => ~Payload(m, x) /\ ~Shuts(m, x)
      PROVE  Stream(x)'
  <2>1. CalmBrowser(x)
    BY <1>3, <1>u DEF CalmBrowser, CalmEntry
  <2>2. browser'[x].entered /\ browser'[x].socket = "open" =>
           ~Payload(Head(conn[c].up), x) /\ ~Shuts(Head(conn[c].up), x)
    BY <1>2, <1>3
  <2> QED
    BY <2>1, <2>2, HeardRests
<1>4. ASSUME heard'[x] = heard[x], browser'[x].entered => browser[x].entered, browser'[x].socket # "open",
             browser'[x].socket = "none" => browser[x].socket = "none"
      PROVE  Stream(x)'
  <2>1. CalmBrowser(x)
    BY <1>4, <1>u DEF CalmBrowser, CalmEntry
  <2> QED
    BY <1>4, <2>1, HeardRests
<1>5. CASE TellsState(m) /\ UNCHANGED <<browser, heard>>
  <2>1. ~Payload(m, x) /\ ~Shuts(m, x)
    BY <1>5 DEF Payload, Shuts, TellsState
  <2> QED
    BY <1>3, <1>5, <2>1
<1>6. CASE /\ m.type = Bye \/ (m.type \in {"message", "chunk", "close"} /\ ~(m.b \in Browsers /\ browser[m.b].entered))
           /\ UNCHANGED <<browser, heard>>
  <2>1. browser[x].entered => ~Payload(m, x) /\ ~Shuts(m, x)
    BY <1>6 DEF Payload, Shuts, Bye
  <2> QED
    BY <1>3, <1>6, <2>1
<1>7. CASE /\ m.type = "close" /\ m.b \in Browsers
           /\ browser' = [browser EXCEPT ![m.b].socket = IF @ = "open" THEN "closing" ELSE @]
           /\ UNCHANGED heard
  <2> DEFINE a == m.b
             s == IF browser[a].socket = "open" THEN "closing" ELSE browser[a].socket
  <2>1. browser' = [browser EXCEPT ![a].socket = s] /\ a \in Browsers /\ a = m.b
    BY <1>7, <1>t DEF HubTyped
  <2>2. s # "open" /\ (s = "none" => browser[a].socket = "none")
    OBVIOUS
  <2> HIDE DEF a, s
  <2>3. /\ x # a => browser'[x] = browser[x]
        /\ browser'[a].socket = s /\ browser'[a].entered = browser[a].entered
    BY <1>t, <2>1 DEF HubTyped, BrowserStates
  <2>4. CASE x = a
    BY <1>4, <1>7, <2>2, <2>3, <2>4
  <2>5. CASE x # a
    <3>1. ~Payload(m, x) /\ ~Shuts(m, x)
      BY <2>1, <2>5 DEF Payload, Shuts
    <3> QED
      BY <1>3, <1>7, <2>3, <2>5, <3>1
  <2> QED
    BY <2>4, <2>5
<1>8. CASE /\ m.b \in Browsers /\ browser[m.b].entered
           /\ \/ m.type = "message" /\ Deliver(m.b, m.n) /\ UNCHANGED browser
              \/ m.type = "chunk" /\ Chunk(m)
  <2>1. /\ browser'[x].entered = browser[x].entered /\ browser'[x].socket = browser[x].socket
        /\ x # m.b => browser'[x] = browser[x] /\ heard'[x] = heard[x]
        /\ browser[m.b].socket # "open" => heard'[x] = heard[x]
    <3>1. CASE m.type = "message" /\ Deliver(m.b, m.n) /\ UNCHANGED browser
      BY <1>8, <1>t, <3>1, DeliverIs
    <3>2. CASE m.type = "chunk" /\ Chunk(m)
      BY <1>t, <3>2, ChunkIs
    <3> QED
      BY <1>8, <3>1, <3>2
  <2>2. CASE x # m.b
    <3>1. ~Payload(m, x) /\ ~Shuts(m, x)
      BY <2>2 DEF Payload, Shuts
    <3> QED
      BY <1>3, <2>1, <2>2, <3>1
  <2>3. CASE x = m.b /\ browser[m.b].socket # "open"
    BY <1>4, <2>1, <2>3
  <2>4. CASE x = m.b /\ browser[m.b].socket = "open"
    <3>1. Payload(m, x)
      BY <1>8, <2>4 DEF Payload
    <3>2. \/ m.type = "message" /\ Deliver(m.b, m.n) /\ UNCHANGED browser
          \/ m.type = "chunk" /\ Chunk(m)
      BY <1>8
    <3> QED
      BY <1>2, <1>8, <2>1, <2>4, <3>1, <3>2, HearsStream
  <2> QED
    BY <2>2, <2>3, <2>4
<1> QED
  BY <1>2, <1>5, <1>6, <1>7, <1>8 DEF FromAgent

-----------------------------------------------------------------------------
(* An instance hears something from the hub                                *)

TakenAs(i, c) ==
  /\ Takes(i, c) /\ \A d \in Conns \ {c} : conn'[d] = conn[d]
  /\ conn'[c].of = i /\ conn'[c].hub = conn[c].hub /\ conn'[c].cut = conn[c].cut /\ conn'[c].app = "open"
  /\ conn'[c].down = Tail(conn[c].down)
\* What is not the acceptance is heard over an open connection, without an answer.
HeardAs(i, c) ==
  /\ TakenAs(i, c) /\ conn'[c].up = conn[c].up /\ conn[c].app = "open"
  /\ UNCHANGED <<hubVars, typed, said, instance>>

LEMMA TakenRests ==
  ASSUME LinkInv, Links, LinkInv', NEW i \in Instances, NEW c \in Conns, TakenAs(i, c),
         UNCHANGED <<hubVars, typed>>, \A j \in Instances : instance'[j].relay = instance[j].relay,
         NEW x \in Browsers, Stream(x), CalmLocal(x), Beside(conn[c].up, conn'[c].up, x),
         Serves(c, x)' => ~Payload(Head(conn[c].down), x) /\ ~Shuts(Head(conn[c].down), x)
  PROVE  Stream(x)'
<1>1. /\ Takes(i, c) /\ \A d \in Conns \ {c} : conn'[d] = conn[d]
      /\ conn'[c].of = i /\ conn'[c].hub = conn[c].hub /\ conn'[c].cut = conn[c].cut /\ conn'[c].app = "open"
      /\ conn'[c].down = Tail(conn[c].down)
  BY DEF TakenAs
<1>2. \A d \in Conns : Smooth(d, x)
  BY <1>1, TakesSmooth
<1>3. agent' = agent /\ CalmBrowser(x)
  BY DEF hubVars, CalmBrowser, CalmEntry
<1> QED
  BY <1>2, <1>3, SmoothRests

LEMMA HeardIs ==
  ASSUME LinkInv, NEW i \in Instances, NEW c \in Conns, HeardAs(i, c)
  PROVE  /\ c = instance[i].relay /\ conn[c].of = i /\ conn[c].down \in Seq(Messages) /\ conn[c].down # <<>>
         /\ conn'[c].down = Tail(conn[c].down)
         /\ \A d \in Conns \ {c} : conn'[d] = conn[d]
         /\ \A d \in Conns : conn'[d].up = conn[d].up /\ conn'[d].app = conn[d].app /\ conn'[d].of = conn[d].of
                             /\ conn'[d].hub = conn[d].hub /\ conn'[d].cut = conn[d].cut
         /\ UNCHANGED <<agent, browser, heard, unpurged>> /\ typed' = typed /\ said' = said /\ instance' = instance
<1>1. Takes(i, c) /\ conn[c].of = i
  BY TakenEffect DEF HeardAs, TakenAs
<1>2. conn[c].down \in Seq(Messages)
  BY LineIs DEF LineStates
<1>3. /\ \A d \in Conns \ {c} : conn'[d] = conn[d]
      /\ conn'[c].of = i /\ conn'[c].hub = conn[c].hub /\ conn'[c].cut = conn[c].cut /\ conn'[c].app = "open"
      /\ conn'[c].down = Tail(conn[c].down) /\ conn'[c].up = conn[c].up /\ conn[c].app = "open"
      /\ UNCHANGED <<hubVars, typed, said, instance>>
  BY DEF HeardAs, TakenAs
<1>4. \A d \in Conns : conn'[d].up = conn[d].up /\ conn'[d].app = conn[d].app /\ conn'[d].of = conn[d].of
                       /\ conn'[d].hub = conn[d].hub /\ conn'[d].cut = conn[d].cut
  BY <1>1, <1>3
<1> QED
  BY <1>1, <1>2, <1>3, <1>4 DEF Takes, hubVars

\* Its local server is asked for.
LEMMA OpensStream ==
  ASSUME LinkInv, Links, LinkInv', NEW i \in Instances, NEW c \in Conns, HeardAs(i, c), took' = took,
         NEW b \in Browsers, Stream(b), AsksToOpen(Head(conn[c].down), b),
         local'[b] = [host |-> i, mapped |-> TRUE, socket |-> "connecting", waiting |-> <<>>]
  PROVE  Stream(b)'
<1>0. /\ Unused(b) /\ OpenedOnce(b) /\ AtAgent(b) /\ SaidFlows(b) /\ TypedFlows(b) /\ InNumber(b) /\ Backed(b) /\ Asked
  BY BackedHolds DEF Stream, Links
<1>1. /\ c = instance[i].relay /\ conn[c].of = i /\ conn[c].down \in Seq(Messages) /\ conn[c].down # <<>>
      /\ conn'[c].down = Tail(conn[c].down)
      /\ \A d \in Conns \ {c} : conn'[d] = conn[d]
      /\ \A d \in Conns : conn'[d].up = conn[d].up /\ conn'[d].app = conn[d].app /\ conn'[d].of = conn[d].of
                          /\ conn'[d].hub = conn[d].hub /\ conn'[d].cut = conn[d].cut
      /\ UNCHANGED <<agent, browser, heard, unpurged>> /\ typed' = typed /\ said' = said /\ instance' = instance
  BY HeardIs
<1>2. /\ local'[b].mapped
      /\ local'[b].host = i /\ local'[b].socket = "connecting" /\ local'[b].waiting = <<>>
  <2>1. local'[b].mapped
    OBVIOUS
  <2>2. local'[b].host = i /\ local'[b].socket = "connecting" /\ local'[b].waiting = <<>>
    OBVIOUS
  <2> QED
    BY <2>1, <2>2
<1>3. Asks(conn[c].down, "open", b) /\ ~Asks(Tail(conn[c].down), "open", b)
      /\ ~Payload(Head(conn[c].down), b) /\ ~Shuts(Head(conn[c].down), b)
  <2>1. Asks(conn[c].down, "open", b)
    BY <1>1, AsksEffect DEF AsksToOpen
  <2>2. ~Asks(Tail(conn[c].down), "open", b)
    BY <1>0, <1>1, OpensOnceLess DEF OpenedOnce
  <2> QED
    BY <2>1, <2>2 DEF AsksToOpen, Payload, Shuts
<1>4. local[b].socket = "none" /\ local[b].waiting = <<>> /\ said[b] = 0 /\ took[b] = <<>>
      /\ (\A d \in Conns : ~Speaks(conn[d].up, b)) /\ browser[b].socket # "none"
  BY <1>0, <1>3 DEF OpenedOnce, Unused, Asked
<1>5. \A d \in Conns : ~Asks(conn'[d].down, "open", b)
  BY <1>0, <1>1, <1>3 DEF OpenedOnce
<1>6. Unused(b)'
  BY <1>1, <1>2, <1>4 DEF Unused
<1>7. OpenedOnce(b)'
  <2>1. \A d \in Conns : OpensOnce(conn'[d].down, b)
    BY <1>0, <1>1, OpensOnceLess DEF OpenedOnce
  <2> QED
    BY <1>5, <2>1 DEF OpenedOnce
<1>8. AtAgent(b)'
  <2> SUFFICES ASSUME browser'[b].entered, ~unpurged'
               PROVE  /\ local'[b].host = conn'[agent'].of /\ conn'[agent'].app # "connecting"
                      /\ instance'[local'[b].host].relay = agent'
                      /\ \A d \in Conns \ {agent'} : ~Speaks(conn'[d].up, b)
    BY DEF AtAgent
  <2>1. c = agent
    BY <1>0, <1>1, <1>3 DEF Asked
  <2>2. conn[c].app = "open"
    BY DEF HeardAs
  <2> QED
    BY <1>1, <1>2, <1>4, <2>1, <2>2
<1>9. SaidFlows(b)'
  <2>1. HalvesHeard(b)' = HalvesHeard(b)
    BY <1>1 DEF HalvesHeard
  <2>2. browser'[b].entered /\ ~unpurged' => agent \in Conns
    BY <1>0, <1>1 DEF Backed
  <2> QED
    BY <1>0, <1>1, <2>1, <2>2 DEF SaidFlows
<1>10. TypedFlows(b)'
  <2> SUFFICES ASSUME NEW d \in Conns, Serves(d, b)'
               PROVE  /\ Flows(conn'[d].down, b, HalvesTaken(b)', 2 * typed'[b])
                      /\ d = agent' /\ conn'[d].hub = "open" /\ ~conn'[d].cut =>
                           Fills(conn'[d].down, b, HalvesTaken(b)', 2 * typed'[b])
    BY DEF TypedFlows
  <2>1. d = c
    BY <1>1, <1>2, <1>5 DEF Serves
  <2>2. HalvesTaken(b)' = HalvesTaken(b)
    BY <1>2, <1>4 DEF HalvesTaken
  <2>3. PICK q \in Int : q = HalvesTaken(b)
    BY <1>0, CountsHalves
  <2>4. PICK w \in Int : w = 2 * typed[b]
    BY <1>0 DEF Backed
  <2>5. /\ Flows(conn[c].down, b, q, w)
        /\ c = agent /\ conn[c].hub = "open" /\ ~conn[c].cut => Fills(conn[c].down, b, q, w)
    BY <1>0, <1>3, <2>3, <2>4 DEF TypedFlows, Serves
  <2>6. Beside(conn[c].down, Tail(conn[c].down), b)
    BY <1>1, <1>3, LessQuieter
  <2>7. /\ Flows(Tail(conn[c].down), b, q, w)
        /\ c = agent /\ conn[c].hub = "open" /\ ~conn[c].cut => Fills(Tail(conn[c].down), b, q, w)
    BY <2>5, <2>6 DEF Beside, FlowsStill, FillsStill
  <2> QED
    BY <1>1, <2>1, <2>2, <2>3, <2>4, <2>7
<1>11. InNumber(b)'
  <2>1. \A k \in 1..Len(<<>>) : FALSE
    OBVIOUS
  <2>2. InOrder(took'[b]) /\ (~unpurged' => InOrder(heard'[b]))
    BY <1>0, <1>1 DEF InNumber
  <2> QED
    BY <1>2, <2>1, <2>2 DEF InNumber
<1> QED
  BY <1>6, <1>7, <1>8, <1>9, <1>10, <1>11 DEF Stream

\* A message for a local socket is the next: it is passed on, or kept until the socket is open.
LEMMA PassedOn ==
  ASSUME NEW b \in Browsers, Backed(b), InNumber(b), NEW m \in Messages, Payload(m, b), m.type = "message",
         Beginning(m) = HalvesTaken(b) + 1, local[b] \in LocalStates, local[b].mapped, ~unpurged' => InOrder(heard'[b]),
         \/ local[b].socket = "open" /\ took'[b] = Append(took[b], m.n) /\ local'[b] = local[b]
         \/ /\ local[b].socket = "connecting" /\ took'[b] = took[b]
            /\ local'[b] = [local[b] EXCEPT !.waiting = Append(@, m.n)]
  PROVE  /\ local'[b].host = local[b].host /\ local'[b].mapped /\ local'[b].socket = local[b].socket
         /\ HalvesTaken(b)' = Ending(m) /\ InNumber(b)'
<1>1. m.n \in 1..MaxMessages /\ Beginning(m) = 2 * m.n - 1 /\ Ending(m) = 2 * m.n
  BY Halves
<1>n. PICK n \in Nat : n = m.n
  BY <1>1, RelayLinkAssumption
<1>2. took[b] \in Seq(1..MaxMessages) /\ local[b].waiting \in Seq(1..MaxMessages)
  BY DEF Backed
<1>t. PICK t \in Nat : t = Len(took[b])
  BY <1>2, LenProperties
<1>w. PICK w \in Nat : w = Len(local[b].waiting)
  BY <1>2, LenProperties
<1>3. n = t + w + 1
  <2>1. HalvesTaken(b) = 2 * (t + w)
    BY <1>t, <1>w DEF HalvesTaken
  <2>2. 2 * n - 1 = 2 * (t + w) + 1
    BY <1>1, <1>n, <2>1
  <2> QED
    BY <2>2
<1>4. CASE local[b].socket = "open" /\ took'[b] = Append(took[b], m.n) /\ local'[b] = local[b]
  <2>1. local[b].waiting = <<>>
    BY <1>4 DEF InNumber
  <2>2. w = 0
    BY <1>w, <2>1
  <2>3. m.n = Len(took[b]) + 1
    BY <1>3, <1>n, <1>t, <2>2
  <2>4. InOrder(took'[b]) /\ Len(took'[b]) = t + 1
    <3>1. InOrder(took[b])
      BY DEF InNumber
    <3>2. Len(took[b]) + 1 \in 1..MaxMessages
      BY <1>1, <2>3
    <3> QED
      BY <1>2, <1>4, <1>t, <2>3, <3>1, <3>2, InOrderNext
  <2>5. HalvesTaken(b)' = Ending(m)
    <3>1. HalvesTaken(b)' = 2 * (Len(took'[b]) + Len(local[b].waiting))
      BY <1>4 DEF HalvesTaken
    <3>2. HalvesTaken(b)' = 2 * ((t + 1) + 0)
      BY <1>w, <2>2, <2>4, <3>1
    <3> QED
      BY <1>1, <1>3, <1>n, <2>2, <3>2
  <2>6. InNumber(b)'
    <3>1. \A k \in 1..Len(<<>>) : FALSE
      OBVIOUS
    <3> QED
      BY <1>4, <2>1, <2>4, <3>1 DEF InNumber
  <2> QED
    BY <1>4, <2>5, <2>6
<1>5. CASE /\ local[b].socket = "connecting" /\ took'[b] = took[b]
           /\ local'[b] = [local[b] EXCEPT !.waiting = Append(@, m.n)]
  <2>1. PICK v \in Seq(1..MaxMessages) : v = Append(local[b].waiting, n)
    <3>1. \A e \in 1..MaxMessages : Append(local[b].waiting, e) \in Seq(1..MaxMessages)
      BY <1>2, AppendProperties
    <3> QED
      BY <1>1, <1>n, <3>1
  <2>2. Len(v) = w + 1 /\ v[w + 1] = n /\ \A k \in 1..w : v[k] = local[b].waiting[k]
    BY <1>1, <1>2, <1>n, <1>w, <2>1, AppendProperties
  <2>3. local'[b] = [local[b] EXCEPT !.waiting = v]
    BY <1>5, <1>n, <2>1
  <2>4. local'[b].host = local[b].host /\ local'[b].socket = local[b].socket /\ local'[b].waiting = v
    BY <2>3 DEF LocalStates
  <2>5. local'[b].mapped
    BY <2>3 DEF LocalStates
  <2>6. HalvesTaken(b)' = Ending(m)
    <3>1. HalvesTaken(b)' = 2 * (Len(took[b]) + Len(v))
      BY <1>5, <2>4 DEF HalvesTaken
    <3>2. HalvesTaken(b)' = 2 * (t + (w + 1))
      BY <1>t, <2>2, <3>1
    <3> QED
      BY <1>1, <1>3, <1>n, <3>2
  <2>7. \A k \in 1..Len(v) : v[k] = Len(took[b]) + k
    <3>1. \A k \in 1..w : local[b].waiting[k] = t + k
      BY <1>t, <1>w DEF InNumber
    <3>2. \A k \in 1..Len(v) : k = w + 1 \/ k \in 1..w
      BY <2>2
    <3>3. v[w + 1] = t + (w + 1)
      BY <1>3, <2>2
    <3> QED
      BY <1>t, <2>2, <3>1, <3>2, <3>3
  <2>8. InNumber(b)'
    <3>1. InOrder(took'[b]) /\ \A k \in 1..Len(local'[b].waiting) : local'[b].waiting[k] = Len(took'[b]) + k
      BY <1>5, <2>4, <2>7 DEF InNumber
    <3>2. local'[b].socket = "connecting"
      BY <1>5, <2>4
    <3> QED
      BY <3>1, <3>2 DEF InNumber
  <2> QED
    BY <2>4, <2>5, <2>6, <2>8
<1> QED
  BY <1>4, <1>5

LEMMA TakesStream ==
  ASSUME LinkInv, Links, LinkInv', NEW i \in Instances, NEW c \in Conns, HeardAs(i, c),
         NEW b \in Browsers, Stream(b), NEW m \in Messages, m = Head(conn[c].down), Payload(m, b), m.type = "message",
         local[b].mapped, local[b].host = i,
         \/ local[b].socket = "open" /\ took'[b] = Append(took[b], m.n) /\ local'[b] = local[b]
         \/ /\ local[b].socket = "connecting" /\ took'[b] = took[b]
            /\ local'[b] = [local[b] EXCEPT !.waiting = Append(@, m.n)]
  PROVE  Stream(b)'
<1>0. /\ Unused(b) /\ OpenedOnce(b) /\ AtAgent(b) /\ SaidFlows(b) /\ TypedFlows(b) /\ InNumber(b) /\ Backed(b)
  BY BackedHolds DEF Stream, Links
<1>1. /\ c = instance[i].relay /\ conn[c].of = i /\ conn[c].down \in Seq(Messages) /\ conn[c].down # <<>>
      /\ conn'[c].down = Tail(conn[c].down)
      /\ \A d \in Conns \ {c} : conn'[d] = conn[d]
      /\ \A d \in Conns : conn'[d].up = conn[d].up /\ conn'[d].app = conn[d].app /\ conn'[d].of = conn[d].of
                          /\ conn'[d].hub = conn[d].hub /\ conn'[d].cut = conn[d].cut
      /\ UNCHANGED <<agent, browser, heard, unpurged>> /\ typed' = typed /\ said' = said /\ instance' = instance
  BY HeardIs
<1>2. PICK q \in Int : q = HalvesTaken(b)
  BY <1>0, CountsHalves
<1>3. PICK w \in Int : w = 2 * typed[b]
  BY <1>0 DEF Backed
<1>4. /\ Flows(conn[c].down, b, q, w)
      /\ c = agent /\ conn[c].hub = "open" /\ ~conn[c].cut => Fills(conn[c].down, b, q, w)
  BY <1>0, <1>1, <1>2, <1>3 DEF TypedFlows, Serves
<1>5. Beginning(m) = q + 1
  BY <1>1, <1>4, HeadFlows
<1>6. /\ local'[b].host = local[b].host /\ local'[b].mapped /\ local'[b].socket = local[b].socket
      /\ HalvesTaken(b)' = Ending(m) /\ InNumber(b)'
  <2>1. Beginning(m) = HalvesTaken(b) + 1 /\ local[b] \in LocalStates
    BY <1>2, <1>5 DEF LinkInv, LinkTypes, AppTyped
  <2>2. ~unpurged' => InOrder(heard'[b])
    BY <1>0, <1>1 DEF InNumber
  <2> QED
    BY <1>0, <2>1, <2>2, PassedOn
<1>7. local[b].socket # "none" /\ local'[b].socket # "none"
  BY <1>6
<1>q. \A d \in Conns : Quieter(conn[d].down, conn'[d].down, b)
  BY <1>1, LessQuieter, SameBeside DEF Beside
<1>a. \A d \in Conns : ~Asks(conn[d].down, "open", b) /\ ~Asks(conn'[d].down, "open", b)
  BY <1>0, <1>7, <1>q DEF OpenedOnce, Quieter
<1>8. Unused(b)'
  BY <1>0, <1>1, <1>7, <1>q DEF Unused, Quieter
<1>9. OpenedOnce(b)'
  BY <1>0, <1>a, <1>q DEF OpenedOnce, Quieter
<1>10. AtAgent(b)'
  <2> SUFFICES ASSUME browser'[b].entered, ~unpurged'
               PROVE  /\ local'[b].host = conn'[agent'].of /\ conn'[agent'].app # "connecting"
                      /\ instance'[local'[b].host].relay \notin {NoConn, agent'} =>
                           Unconnected(conn'[instance'[local'[b].host].relay])
                      /\ \A d \in Conns \ {agent'} : ~Speaks(conn'[d].up, b)
    BY DEF AtAgent
  <2>1. /\ local[b].host = conn[agent].of /\ conn[agent].app # "connecting"
        /\ c \notin {NoConn, agent} => Unconnected(conn[c])
        /\ \A d \in Conns \ {agent} : ~Speaks(conn[d].up, b)
    BY <1>0, <1>1, <1>7 DEF AtAgent
  <2>2. agent \in Conns
    BY <1>0, <1>1 DEF Backed
  <2>3. conn[c].app = "open"
    BY DEF HeardAs
  <2>4. c = agent
    BY <2>1, <2>3, NoNumber DEF Unconnected
  <2> QED
    BY <1>1, <1>6, <2>1, <2>2, <2>4
<1>11. SaidFlows(b)'
  <2>1. HalvesHeard(b)' = HalvesHeard(b)
    BY <1>1 DEF HalvesHeard
  <2>2. browser'[b].entered /\ ~unpurged' => agent \in Conns
    BY <1>0, <1>1 DEF Backed
  <2> QED
    BY <1>0, <1>1, <2>1, <2>2 DEF SaidFlows
<1>12. TypedFlows(b)'
  <2> SUFFICES ASSUME NEW d \in Conns, Serves(d, b)'
               PROVE  /\ Flows(conn'[d].down, b, HalvesTaken(b)', 2 * typed'[b])
                      /\ d = agent' /\ conn'[d].hub = "open" /\ ~conn'[d].cut =>
                           Fills(conn'[d].down, b, HalvesTaken(b)', 2 * typed'[b])
    BY DEF TypedFlows
  <2>1. d = c
    BY <1>1, <1>6, <1>a DEF Serves
  <2>2. PICK r \in Int : r = Ending(m) /\ q <= r
    <3>1. Beginning(m) \in Nat /\ Ending(m) \in Nat /\ Beginning(m) <= Ending(m)
      BY Halves
    <3> QED
      BY <1>5, <3>1
  <2>3. ~Shuts(Head(conn[c].down), b) /\ Payload(Head(conn[c].down), b) /\ r = Ending(Head(conn[c].down))
    BY <2>2 DEF Shuts, Payload
  <2>4. Flows(Tail(conn[c].down), b, r, w)
    <3>1. r = (IF Payload(Head(conn[c].down), b) THEN Ending(Head(conn[c].down)) ELSE q)
      BY <2>3
    <3> QED
      BY <1>1, <1>4, <2>3, <3>1, TailFlows
  <2>5. c = agent /\ conn[c].hub = "open" /\ ~conn[c].cut => Fills(Tail(conn[c].down), b, r, w)
    BY <1>1, <1>4, <2>2, <2>3, TailFills
  <2> QED
    BY <1>1, <1>3, <1>6, <2>1, <2>2, <2>4, <2>5
<1> QED
  BY <1>6, <1>8, <1>9, <1>10, <1>11, <1>12 DEF Stream

\* What is not for a local socket of the instance is passed over.
LEMMA PassedOver ==
  ASSUME LinkInv, Links, LinkInv', NEW i \in Instances, NEW c \in Conns, HeardAs(i, c),
         NEW x \in Browsers, Stream(x), CalmSocket(x),
         local'[x].mapped => local[x].mapped /\ local'[x].host = local[x].host,
         Payload(Head(conn[c].down), x) \/ Shuts(Head(conn[c].down), x) => ~(local'[x].mapped /\ local[x].host = i)
  PROVE  Stream(x)'
<1>0. OpenedOnce(x) /\ Backed(x)
  BY BackedHolds DEF Stream, Links
<1>1. /\ c = instance[i].relay /\ conn[c].of = i /\ conn[c].down \in Seq(Messages) /\ conn[c].down # <<>>
      /\ conn'[c].down = Tail(conn[c].down) /\ said' = said /\ instance' = instance
  BY HeardIs
<1>2. ASSUME Serves(c, x)', Payload(Head(conn[c].down), x) \/ Shuts(Head(conn[c].down), x) PROVE FALSE
  <2>1. CASE Asks(conn'[c].down, "open", x)
    <3>1. Asks(conn[c].down, "open", x)
      BY <1>1, <2>1, AsksEffect
    <3>2. OpensOnce(conn[c].down, x)
      BY <1>0 DEF OpenedOnce
    <3> QED
      BY <1>1, <1>2, <3>1, <3>2, OpensOnceLess
  <2>2. CASE local'[x].mapped /\ instance'[local'[x].host].relay = c
    <3>1. local[x].mapped /\ local'[x].host = local[x].host /\ local[x].host # i
      BY <1>2, <2>2
    <3>2. PICK h \in Instances : h = local[x].host
      BY <1>0, <3>1 DEF Backed
    <3>3. instance[h].relay = c /\ h # i
      BY <1>1, <2>2, <3>1, <3>2
    <3> QED
      BY <1>1, <3>2, <3>3, NoNumber DEF LinkInv, Owners
  <2> QED
    BY <1>2, <2>1, <2>2 DEF Serves
<1>3. CalmLocal(x)
  BY <1>1 DEF CalmLocal
<1>4. Beside(conn[c].up, conn'[c].up, x) /\ TakenAs(i, c) /\ UNCHANGED <<hubVars, typed>>
  BY SameBeside DEF HeardAs
<1>5. \A j \in Instances : instance'[j].relay = instance[j].relay
  BY <1>1
<1>6. Serves(c, x)' => ~Payload(Head(conn[c].down), x) /\ ~Shuts(Head(conn[c].down), x)
  BY <1>2
<1> QED
  BY <1>3, <1>4, <1>5, <1>6, TakenRests

LEMMA HeardTaken ==
  ASSUME LinkInv, NEW i \in Instances, NEW c \in Conns, Takes(i, c), conn' = Taken(c)
  PROVE  TakenAs(i, c) /\ conn'[c].up = conn[c].up
<1>1. /\ Taken(c)[c] = [conn[c] EXCEPT !.app = "open", !.down = Tail(@)]
      /\ \A d \in Conns \ {c} : Taken(c)[d] = conn[d]
      /\ conn[c].of = i
  BY TakenEffect
<1>2. conn[c] \in LineStates
  BY LineIs
<1> QED
  BY <1>1, <1>2 DEF TakenAs, LineStates

LEMMA FromHubStreams ==
  ASSUME LinkInv, Links, LinkInv', NEW i \in Instances, FromHub(i), NEW x \in Browsers, Stream(x)
  PROVE  Stream(x)'
<1>u. UNCHANGED <<hubVars, typed>> /\ said' = said
  BY DEF FromHub
<1>i. instance \in [Instances -> InstanceStates] /\ local \in [Browsers -> LocalStates]
      /\ took \in [Browsers -> Seq(1..MaxMessages)]
  BY DEF LinkInv, LinkTypes, AppTyped
<1>1. PICK c \in Conns : c = instance[i].relay /\ c # NoConn /\ conn[c].down # <<>>
  BY <1>i DEF FromHub, InstanceStates
<1>2. PICK m \in Messages : m = Head(conn[c].down)
  <2>1. conn[c].down \in Seq(Messages)
    BY LineIs DEF LineStates
  <2> QED
    BY <1>1, <2>1, TailIs
<1>3. CASE m.type \in {Bye, "replaced"}
  <2> DEFINE n == AfterClose(i, m.type = "replaced")
  <2>1. conn' = AppClosed(conn, c) /\ instance' = [instance EXCEPT ![i] = n] /\ local' = Drop(local, i) /\ took' = took
    BY <1>1, <1>2, <1>3 DEF FromHub, Bye
  <2>2. n.relay = NoConn
    BY <1>i DEF AfterClose, InstanceStates
  <2> HIDE DEF n
  <2>3. instance'[i].relay = NoConn /\ \A j \in Instances \ {i} : instance'[j] = instance[j]
    BY <1>i, <2>1, <2>2
  <2>4. conn' = IF instance[i].relay = NoConn THEN conn ELSE AppClosed(conn, instance[i].relay)
    BY <1>1, <2>1
  <2> QED
    BY <1>u, <2>1, <2>3, <2>4, LeavesStreams
<1>4. CASE m.type \notin {Bye, "replaced"}
  <2>1. Takes(i, c)
    BY <1>1, <1>2, <1>4 DEF Takes
  <2>2. m.type # "accepted" => conn[c].app = "open" /\ [conn EXCEPT ![c].down = Tail(@)] = Taken(c)
    BY <1>2, <2>1, TakenEffect
  <2>3. conn' = Taken(c) => TakenAs(i, c) /\ conn'[c].up = conn[c].up
    BY <2>1, HeardTaken
  <2>4. CASE m.type = "accepted"
    <3> DEFINE f == Frame(IF instance[i].runs THEN "running" ELSE "other")
    <3>1. f \in Messages /\ f.type \in {"running", "other"}
      BY FramesAreMessages DEF FrameTypes, Bye
    <3>2. conn' = Up(Taken(c), i, <<f>>) /\ UNCHANGED <<instance, local, took>>
      BY <1>1, <1>2, <2>4 DEF FromHub, Accepted, Taken, Bye
    <3> HIDE DEF f
    <3>3. <<f>> \in Seq(Messages) /\ ~Payload(f, x) /\ ~AsksToOpen(f, x)
      BY <3>1 DEF Payload, AsksToOpen
    <3>4. TakenAs(i, c) /\ conn'[c].up = IF conn[c].cut THEN conn[c].up ELSE conn[c].up \o <<f>>
      <4>1. /\ \A d \in Conns \ {c} : conn'[d] = conn[d]
            /\ conn'[c].of = i /\ conn'[c].hub = conn[c].hub /\ conn'[c].cut = conn[c].cut /\ conn'[c].app = "open"
            /\ conn'[c].down = Tail(conn[c].down)
            /\ conn'[c].up = IF conn[c].cut THEN conn[c].up ELSE conn[c].up \o <<f>>
        BY <2>1, <3>2, <3>3, TakesEffect
      <4> QED
        BY <2>1, <4>1 DEF TakenAs
    <3>5. Aside(<<f>>, x)
      BY <3>1, <3>3, AsideIs
    <3>6. Beside(conn[c].up, conn'[c].up, x)
      <4>1. conn[c].up \in Seq(Messages)
        BY LineIs DEF LineStates
      <4> QED
        BY <3>4, <3>5, <4>1, SameBeside DEF Aside
    <3>7. CalmLocal(x)
      BY <1>u, <3>2 DEF CalmLocal, CalmSocket
    <3>8. ~Payload(Head(conn[c].down), x) /\ ~Shuts(Head(conn[c].down), x)
      BY <1>2, <2>4 DEF Payload, Shuts
    <3>9. \A j \in Instances : instance'[j].relay = instance[j].relay
      BY <3>2
    <3> QED
      BY <1>u, <3>4, <3>6, <3>7, <3>8, <3>9, TakenRests
  <2>5. CASE m.type = "command"
    <3>1. conn' = Taken(c) /\ instance' = [instance EXCEPT ![i].command = TRUE] /\ UNCHANGED <<local, took>>
      BY <1>1, <1>2, <2>2, <2>5 DEF FromHub, Bye
    <3>2. \A j \in Instances : instance'[j].relay = instance[j].relay
      BY <1>i, <3>1 DEF InstanceStates
    <3>3. TakenAs(i, c) /\ Beside(conn[c].up, conn'[c].up, x)
      BY <2>3, <3>1, SameBeside
    <3>4. CalmLocal(x)
      BY <1>u, <3>1 DEF CalmLocal, CalmSocket
    <3>5. ~Payload(Head(conn[c].down), x) /\ ~Shuts(Head(conn[c].down), x)
      BY <1>2, <2>5 DEF Payload, Shuts
    <3> QED
      BY <1>u, <3>2, <3>3, <3>4, <3>5, TakenRests
  <2>6. CASE m.type = "close"
    <3>1. conn' = Taken(c) /\ UNCHANGED <<instance, took>> /\ local' = CloseLocal(i, m.b) /\ m.b \in Browsers
      BY <1>1, <1>2, <2>2, <2>6 DEF FromHub, Bye, Messages
    <3>2. HeardAs(i, c)
      BY <1>u, <2>2, <2>3, <2>6, <3>1 DEF HeardAs
    <3>3. PICK b \in Browsers : b = m.b
      BY <3>1
    <3>4. CalmSocket(x)
      BY <3>1, <3>3, CloseLocalCalm
    <3>5. /\ x # b => local'[x] = local[x]
          /\ local'[b].mapped <=> local[b].mapped /\ local[b].host # i
          /\ local'[b].host = local[b].host
      BY <3>1, <3>3, CloseLocalIs
    <3>6. local'[x].mapped => local[x].mapped /\ local'[x].host = local[x].host
      BY <3>5
    <3>7. Payload(Head(conn[c].down), x) \/ Shuts(Head(conn[c].down), x) => ~(local'[x].mapped /\ local[x].host = i)
      BY <1>2, <2>6, <3>3, <3>5 DEF Payload, Shuts
    <3> QED
      BY <3>2, <3>4, <3>6, <3>7, PassedOver
  <2>7. CASE m.type = "message"
    <3>1. /\ conn' = Taken(c) /\ UNCHANGED instance /\ m.b \in Browsers
          /\ IF local[m.b].mapped /\ local[m.b].host = i /\ local[m.b].socket = "open"
             THEN took' = [took EXCEPT ![m.b] = Append(@, m.n)] /\ UNCHANGED local
             ELSE /\ UNCHANGED took
                  /\ IF local[m.b].mapped /\ local[m.b].host = i /\ local[m.b].socket = "connecting"
                     THEN KeptUntilOpen(m.b, m.n) ELSE UNCHANGED local
      BY <1>1, <1>2, <2>2, <2>7 DEF FromHub, Bye, Messages
    <3>2. HeardAs(i, c)
      BY <1>u, <2>2, <2>3, <2>7, <3>1 DEF HeardAs
    <3>3. PICK b \in Browsers : b = m.b
      BY <3>1
    <3>4. ASSUME local'[x] = local[x], took'[x] = took[x], x = b => ~(local[x].mapped /\ local[x].host = i)
          PROVE  Stream(x)'
      <4>1. CalmSocket(x)
        BY <3>4 DEF CalmSocket
      <4>2. local'[x].mapped => local[x].mapped /\ local'[x].host = local[x].host
        BY <3>4
      <4>3. Payload(Head(conn[c].down), x) \/ Shuts(Head(conn[c].down), x) => ~(local'[x].mapped /\ local[x].host = i)
        BY <1>2, <2>7, <3>3, <3>4 DEF Payload, Shuts
      <4> QED
        BY <3>2, <4>1, <4>2, <4>3, PassedOver
    <3>5. CASE local[b].mapped /\ local[b].host = i /\ local[b].socket = "open"
      <4> DEFINE t == Append(took[b], m.n)
      <4>1. took' = [took EXCEPT ![b] = t] /\ local' = local
        BY <3>1, <3>3, <3>5
      <4>2. t = Append(took[b], m.n)
        OBVIOUS
      <4> HIDE DEF t
      <4>3. took'[b] = t /\ \A y \in Browsers \ {b} : took'[y] = took[y]
        BY <1>i, <4>1
      <4>4. CASE x # b
        BY <3>4, <4>1, <4>3, <4>4
      <4>5. CASE x = b
        <5>1. Payload(m, x) /\ local'[x] = local[x] /\ took'[x] = Append(took[x], m.n)
          BY <2>7, <3>3, <4>1, <4>2, <4>3, <4>5 DEF Payload
        <5> QED
          BY <1>2, <2>7, <3>2, <3>5, <4>5, <5>1, TakesStream
      <4> QED
        BY <4>4, <4>5
    <3>6. CASE local[b].mapped /\ local[b].host = i /\ local[b].socket = "connecting"
      <4> DEFINE w == [local[b] EXCEPT !.waiting = Append(@, m.n)]
      <4>1. took' = took /\ local' = [local EXCEPT ![b] = w]
        BY <1>i, <3>1, <3>3, <3>6 DEF KeptUntilOpen
      <4>2. w = [local[b] EXCEPT !.waiting = Append(@, m.n)]
        OBVIOUS
      <4> HIDE DEF w
      <4>3. local'[b] = w /\ \A y \in Browsers \ {b} : local'[y] = local[y]
        BY <1>i, <4>1
      <4>4. CASE x # b
        BY <3>4, <4>1, <4>3, <4>4
      <4>5. CASE x = b
        <5>1. Payload(m, x) /\ took'[x] = took[x]
          BY <2>7, <3>3, <4>1, <4>5 DEF Payload
        <5>2. local'[x] = [local[x] EXCEPT !.waiting = Append(@, m.n)]
          BY <4>2, <4>3, <4>5
        <5> QED
          BY <1>2, <2>7, <3>2, <3>6, <4>5, <5>1, <5>2, TakesStream
      <4> QED
        BY <4>4, <4>5
    <3>7. CASE ~(local[b].mapped /\ local[b].host = i /\ local[b].socket \in {"open", "connecting"})
      <4>1. took' = took /\ local' = local
        BY <3>1, <3>3, <3>7
      <4>2. x = b => ~(local[x].mapped /\ local[x].host = i)
        <5>1. local[x].mapped => local[x].socket \in {"connecting", "open"}
          BY DEF Stream, InNumber
        <5> QED
          BY <3>7, <5>1
      <4> QED
        BY <3>4, <4>1, <4>2
    <3> QED
      BY <3>5, <3>6, <3>7
  <2>8. CASE m.type = "open"
    <3>1. PICK b \in Browsers : b = m.b
      BY <2>8 DEF Messages
    <3> DEFINE new == [host |-> i, mapped |-> TRUE, socket |-> "connecting", waiting |-> <<>>]
               ms == <<M("close", b, 0, 0)>>
    <3>2. /\ UNCHANGED <<instance, took>>
          /\ \/ conn' = Taken(c) /\ local' = [local EXCEPT ![b] = new]
             \/ conn' = Up(Taken(c), i, ms) /\ UNCHANGED local
      BY <1>1, <1>2, <2>2, <2>8, <3>1 DEF FromHub, OpenLocal, Bye
    <3>3. ms \in Seq(Messages) /\ Aside(ms, x)
      BY CloseAside
    <3>4. ~Payload(Head(conn[c].down), x) /\ ~Shuts(Head(conn[c].down), x)
      BY <1>2, <2>8 DEF Payload, Shuts
    <3>n. new = [host |-> i, mapped |-> TRUE, socket |-> "connecting", waiting |-> <<>>]
      OBVIOUS
    <3>5. \A j \in Instances : instance'[j].relay = instance[j].relay
      BY <3>2
    <3> HIDE DEF new, ms
    <3>6. CASE conn' = Taken(c) /\ local' = [local EXCEPT ![b] = new]
      <4>1. HeardAs(i, c)
        BY <1>u, <2>2, <2>3, <2>8, <3>2, <3>6 DEF HeardAs
      <4>2. local'[b] = new /\ \A y \in Browsers \ {b} : local'[y] = local[y]
        BY <1>i, <3>6
      <4>3. CASE x = b
        <5>1. AsksToOpen(Head(conn[c].down), x)
          BY <1>2, <2>8, <3>1, <4>3 DEF AsksToOpen
        <5>2. local'[x] = [host |-> i, mapped |-> TRUE, socket |-> "connecting", waiting |-> <<>>] /\ took' = took
          BY <3>2, <3>n, <4>2, <4>3
        <5> QED
          BY <4>1, <5>1, <5>2, OpensStream
      <4>4. CASE x # b
        <5>1. CalmLocal(x)
          BY <1>u, <3>2, <4>2, <4>4 DEF CalmLocal, CalmSocket
        <5>2. TakenAs(i, c) /\ Beside(conn[c].up, conn'[c].up, x)
          BY <4>1, SameBeside DEF HeardAs
        <5> QED
          BY <1>u, <3>4, <3>5, <5>1, <5>2, TakenRests
      <4> QED
        BY <4>3, <4>4
    <3>7. CASE conn' = Up(Taken(c), i, ms) /\ UNCHANGED local
      <4>1. TakenAs(i, c) /\ conn'[c].up = IF conn[c].cut THEN conn[c].up ELSE conn[c].up \o ms
        <5>1. /\ \A d \in Conns \ {c} : conn'[d] = conn[d]
              /\ conn'[c].of = i /\ conn'[c].hub = conn[c].hub /\ conn'[c].cut = conn[c].cut /\ conn'[c].app = "open"
              /\ conn'[c].down = Tail(conn[c].down)
              /\ conn'[c].up = IF conn[c].cut THEN conn[c].up ELSE conn[c].up \o ms
          BY <2>1, <3>3, <3>7, TakesEffect
        <5> QED
          BY <2>1, <5>1 DEF TakenAs
      <4>2. Beside(conn[c].up, conn'[c].up, x)
        <5>1. conn[c].up \in Seq(Messages)
          BY LineIs DEF LineStates
        <5> QED
          BY <3>3, <4>1, <5>1, SameBeside DEF Aside
      <4>3. CalmLocal(x)
        BY <1>u, <3>2, <3>7 DEF CalmLocal, CalmSocket
      <4> QED
        BY <1>u, <3>4, <3>5, <4>1, <4>2, <4>3, TakenRests
    <3> QED
      BY <3>2, <3>6, <3>7
  <2> QED
    BY <1>1, <1>2, <1>4, <2>4, <2>5, <2>6, <2>7, <2>8 DEF FromHub
<1> QED
  BY <1>3, <1>4

-----------------------------------------------------------------------------
(* The streams are prefixes                                                *)

LEMMA InitStreams == LinkInit => Streams
<1> SUFFICES ASSUME LinkInit, NEW b \in Browsers PROVE Stream(b)
  BY DEF Streams
<1>1. /\ browser[b].socket = "none" /\ ~browser[b].entered
      /\ heard[b] = <<>> /\ took[b] = <<>> /\ typed[b] = 0 /\ said[b] = 0
      /\ local[b].socket = "none" /\ ~local[b].mapped /\ local[b].waiting = <<>>
  BY DEF LinkInit, NoLocal
<1>2. \A c \in Conns : conn[c].up = <<>> /\ conn[c].down = <<>>
  BY DEF LinkInit, Closed
<1>3. ~Speaks(<<>>, b) /\ ~Asks(<<>>, "open", b) /\ OpensOnce(<<>>, b)
  BY DEF Speaks, Asks, OpensOnce
<1>4. Unused(b) /\ OpenedOnce(b)
  BY <1>1, <1>2, <1>3 DEF Unused, OpenedOnce
<1>5. AtAgent(b) /\ SaidFlows(b)
  BY <1>1 DEF AtAgent, SaidFlows
<1>6. TypedFlows(b)
  BY <1>1, <1>2, <1>3 DEF TypedFlows, Serves
<1>7. InNumber(b)
  <2>1. Len(<<>>) = 0 /\ <<>> \in Seq(1..MaxMessages) /\ (\A k \in 1..Len(<<>>) : FALSE)
    OBVIOUS
  <2>2. InOrder(<<>>)
    BY <2>1, InOrderIs
  <2> QED
    BY <1>1, <2>1, <2>2 DEF InNumber
<1> QED
  BY <1>4, <1>5, <1>6, <1>7 DEF Stream

\* An instance loses its connection of itself, or quits.
LEMMA EndsStreams ==
  ASSUME LinkInv, Links, LinkInv', NEW i \in Instances, HandshakeTimesOut(i) \/ Quit(i), NEW x \in Browsers, Stream(x)
  PROVE  Stream(x)'
<1>1. PICK n : /\ instance' = [instance EXCEPT ![i] = n] /\ n.relay = NoConn
               /\ conn' = IF instance[i].relay = NoConn THEN conn ELSE AppClosed(conn, instance[i].relay)
               /\ UNCHANGED <<hubVars, took, said, typed>> /\ (local' = local \/ local' = Drop(local, i))
  <2>1. CASE HandshakeTimesOut(i)
    <3> DEFINE n == AfterClose(i, FALSE)
    <3>1. n.relay = NoConn
      BY DEF AfterClose, LinkInv, LinkTypes, InstanceStates
    <3>2. /\ instance' = [instance EXCEPT ![i] = n] /\ instance[i].relay # NoConn
          /\ conn' = AppClosed(conn, instance[i].relay) /\ UNCHANGED <<hubVars, local, took, said, typed>>
      BY <2>1 DEF HandshakeTimesOut
    <3> QED
      BY <3>1, <3>2
  <2>2. CASE Quit(i)
    <3>1. NewInstance.relay = NoConn
      BY DEF NewInstance
    <3> QED
      BY <2>2, <3>1 DEF Quit
  <2> QED
    BY <2>1, <2>2
<1>2. instance'[i].relay = NoConn /\ \A j \in Instances \ {i} : instance'[j] = instance[j]
  BY <1>1 DEF LinkInv, LinkTypes
<1> QED
  BY <1>1, <1>2, LeavesStreams

LEMMA NextStreams == LinkInv /\ Links /\ Streams /\ LinkNext => Streams'
<1> SUFFICES ASSUME LinkInv, Links, LinkNext, NEW x \in Browsers, Stream(x) PROVE Stream(x)'
  BY DEF Streams
<1>0. LinkInv'
  BY NextLink
<1>1. ASSUME NEW c \in Conns, HubStep(c) \/ Cut(c) PROVE Stream(x)'
  <2>1. CASE Attach(c)
    BY <1>0, <2>1, AttachStreams
  <2>2. CASE HubClosed(c)
    BY <1>0, <2>2, HubClosedStreams
  <2>3. CASE FromAgent(c)
    BY <1>0, <2>3, FromAgentStreams
  <2>4. CASE Cut(c)
    BY <1>0, <2>4, CutStreams
  <2> QED
    BY <1>1, <2>1, <2>2, <2>3, <2>4 DEF HubStep
<1>2. ASSUME NEW i \in Instances,
             AppStep(i) \/ Start(i) \/ HandshakeTimesOut(i) \/ CommandDone(i) \/ Switch(i) \/ Quit(i)
      PROVE  Stream(x)'
  <2>1. CASE FromHub(i)
    BY <1>0, <2>1, FromHubStreams
  <2>2. CASE HandshakeTimesOut(i) \/ Quit(i)
    BY <1>0, <2>2, EndsStreams
  <2>3. CASE Reconnect(i) \/ Start(i)
    <3>1. instance[i].relay = NoConn /\ ~instance[i].fired
      BY <2>3 DEF Reconnect, Start, LinkInv, Waits
    <3>2. Connect(i) /\ UNCHANGED <<hubVars, local, took, said, typed>>
      BY <2>3 DEF Reconnect, Start
    <3> QED
      BY <1>0, <3>1, <3>2, ConnectStreams
  <2>4. CASE CommandDone(i) \/ Switch(i)
    <3>1. PICK runs \in BOOLEAN : SetService(i, runs)
      BY <2>4 DEF CommandDone, Switch
    <3> QED
      BY <1>0, <3>1, SetServiceStreams
  <2> QED
    BY <1>2, <2>1, <2>2, <2>3, <2>4 DEF AppStep
<1>3. ASSUME NEW b \in Browsers,
             \/ ChunkTimeout(b) \/ BrowserOpens(b) \/ BrowserTypes(b) \/ BrowserClosed(b)
             \/ LocalOpens(b) \/ LocalSays(b) \/ LocalClosed(b)
      PROVE  Stream(x)'
  <2>1. CASE ChunkTimeout(b)
    BY <1>0, <2>1, ChunkTimeoutStreams
  <2>2. CASE BrowserOpens(b)
    BY <1>0, <2>2, BrowserOpensStream, BrowserOpensBeside
  <2>3. CASE BrowserTypes(b)
    BY <1>0, <2>3, BrowserTypesStream, BrowserTypesBeside
  <2>4. CASE BrowserClosed(b)
    BY <1>0, <2>4, BrowserClosedStreams
  <2>5. CASE LocalOpens(b)
    BY <1>0, <2>5, LocalOpensStreams
  <2>6. CASE LocalSays(b)
    BY <1>0, <2>6, LocalSaysStream, LocalSaysBeside
  <2>7. CASE LocalClosed(b)
    BY <1>0, <2>7, LocalClosedStreams
  <2> QED
    BY <1>3, <2>1, <2>2, <2>3, <2>4, <2>5, <2>6, <2>7
<1>4. ASSUME StartCommand PROVE Stream(x)'
  BY <1>0, <1>4, StartCommandStreams
<1> QED
  BY <1>1, <1>2, <1>3, <1>4 DEF LinkNext

\* What a browser and its local server have heard of each other is what the
\* other has said, from the first message on, whole, in order and without gaps,
\* whatever was lost, replaced or cut (relay-client.mjs, relay-server.mjs: the
\* forwarding, the pieces of large messages and what waits for the local socket),
\* unless the hub has kept the browsers of a connection that was closing.
THEOREM StreamsHold == Spec => []StreamsArePrefixes
<1> DEFINE I == HubLinkInv /\ Links /\ Streams
<1>1. Init => I
  <2> SUFFICES ASSUME Init PROVE I
    OBVIOUS
  <2>1. HubLinkInv /\ LinkInit
    BY InitLink DEF Init, HubLinkInv
  <2> QED
    BY <2>1, InitLinks, InitStreams
<1>2. I /\ [Next]_vars => I'
  <2>1. HubLinkInv /\ [Next]_vars => HubLinkInv'
    BY NextLink, StutterLink DEF Next, vars, HubLinkInv
  <2>2. Links /\ UNCHANGED linkVars => Links'
    BY DEF linkVars, Links, Hosts, Asked, Reached, HasLocal
  <2>3. Streams /\ UNCHANGED linkVars => Streams'
    <3> SUFFICES ASSUME UNCHANGED linkVars, NEW b \in Browsers, Stream(b) PROVE Stream(b)'
      BY DEF Streams
    <3>1. UNCHANGED <<agent, browser, heard, unpurged, conn, instance, local, took, said, typed>>
      BY DEF linkVars
    <3>2. Unused(b)' /\ OpenedOnce(b)' /\ AtAgent(b)'
      BY <3>1 DEF Stream, Unused, OpenedOnce, AtAgent
    <3>3. SaidFlows(b)'
      BY <3>1 DEF Stream, SaidFlows, HalvesHeard
    <3>4. TypedFlows(b)'
      BY <3>1 DEF Stream, TypedFlows, Serves, HalvesTaken
    <3>5. InNumber(b)'
      BY <3>1 DEF Stream, InNumber
    <3> QED
      BY <3>2, <3>3, <3>4, <3>5 DEF Stream
  <2> QED
    BY <2>1, <2>2, <2>3, NextLinks, NextStreams DEF Next, vars, HubLinkInv
<1>3. I => StreamsArePrefixes
  BY DEF StreamsArePrefixes, Streams, Stream, InNumber
<1> QED
  BY <1>1, <1>2, <1>3, PTL DEF Spec

=============================================================================
