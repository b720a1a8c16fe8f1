------------------------ MODULE ProxyConnection_proofs ------------------------
(***************************************************************************)
(* No connection of ProxyConnection leads into the host's network, for any *)
(* number of connections, listeners, errors and chunks.  The daemon looks  *)
(* the namespace up and dials in two steps, and a stop may come between    *)
(* them; what saves it is an invariant that relates the three pieces of    *)
(* state a stop changes in one section under the mutex: every listener but *)
(* the live one is cancelled, and the instance of the live one is known.   *)
(***************************************************************************)
EXTENDS ProxyConnection, TLAPS

TypeOK ==
    /\ known \in BOOLEAN /\ backoff \in BOOLEAN
    /\ opened \in 0 .. MaxListeners /\ live \in {0, opened}
    /\ cancelled \subseteq 1 .. opened
    /\ errors \in Nat
    /\ conn \in [Conns -> Conn]

\* A listener that is not live has its context cancelled; the instance of the
\* live one is known.
LiveOrCancelled ==
    /\ live # 0 => known /\ live \notin cancelled
    /\ \A l \in 1 .. opened : l = live \/ l \in cancelled

\* A connection that was not given the namespace's name cannot dial any more.
NamedOrCancelled(c) ==
    /\ conn[c].at # "none" => conn[c].of \in 1 .. opened
    /\ conn[c].at = "dial" => conn[c].netns \/ Cancelled(c)
    /\ conn[c].peer # "host"

ProxyInv == TypeOK /\ LiveOrCancelled /\ \A c \in Conns : NamedOrCancelled(c)

-----------------------------------------------------------------------------
LEMMA InitInv == Init => ProxyInv
<1>1. NoConn \in Conn
  <2>1. [d \in Dirs |-> NoFlow] \in [Dirs -> Flow] /\ [d \in Dirs |-> "none"] \in [Dirs -> CopierStates]
    BY DEF NoFlow, Flow, CopierStates
  <2>2. 0 \in 0 .. MaxListeners /\ 0 \in 0 .. 2
    BY BoundsAssumption
  <2> QED
    BY <2>1, <2>2 DEF NoConn, Conn
<1>2. Init => TypeOK
  <2>1. Init => known \in BOOLEAN /\ backoff \in BOOLEAN
    BY DEF Init
  <2>2. Init => conn \in [Conns -> Conn]
    BY <1>1 DEF Init
  <2>3. Init => opened \in 0 .. MaxListeners /\ live \in {0, opened} /\ cancelled \subseteq 1 .. opened /\ errors \in Nat
    BY BoundsAssumption DEF Init
  <2> QED
    BY <2>1, <2>2, <2>3 DEF TypeOK
<1>3. Init => LiveOrCancelled /\ \A c \in Conns : NamedOrCancelled(c)
  BY DEF Init, LiveOrCancelled, NamedOrCancelled, NoConn
<1> QED
  BY <1>2, <1>3 DEF ProxyInv

\* A step that gives one connection another record of the right type keeps the
\* invariant if the record does.
LEMMA OneConn ==
  ASSUME ProxyInv, UNCHANGED listenVars, NEW c \in Conns, NEW r \in Conn,
         conn' = [conn EXCEPT ![c] = r],
         r.at # "none" => r.of \in 1 .. opened,
         r.at = "dial" => r.netns \/ r.of \in cancelled,
         r.peer # "host"
  PROVE  ProxyInv'
<1>1. TypeOK' /\ conn'[c] = r /\ \A b \in Conns : b # c => conn'[b] = conn[b]
  BY DEF ProxyInv, TypeOK, listenVars
<1>2. LiveOrCancelled'
  BY DEF ProxyInv, LiveOrCancelled, listenVars
<1>3. \A b \in Conns : NamedOrCancelled(b)'
  BY <1>1 DEF ProxyInv, NamedOrCancelled, Cancelled, listenVars
<1> QED
  BY <1>1, <1>2, <1>3 DEF ProxyInv

\* In particular if it keeps its place, its listener, its name and its peer.
LEMMA SamePlace ==
  ASSUME ProxyInv, UNCHANGED listenVars, NEW c \in Conns, NEW r \in Conn,
         conn' = [conn EXCEPT ![c] = r],
         r.at = conn[c].at, r.of = conn[c].of, r.netns = conn[c].netns, r.peer = conn[c].peer
  PROVE  ProxyInv'
<1>1. NamedOrCancelled(c)
  BY DEF ProxyInv
<1> QED
  BY <1>1, OneConn DEF NamedOrCancelled, Cancelled

\* A change of its copiers, its flows, its signals, its socat or its client
\* leaves a connection where it is.
LEMMA InnerChange ==
  ASSUME ProxyInv, UNCHANGED listenVars, NEW c \in Conns,
         \/ \E k \in [Dirs -> CopierStates] : \E i \in 0 .. 2 :
               conn' = [conn EXCEPT ![c] = [conn[c] EXCEPT !.copier = k, !.done = i]]
         \/ \E f \in [Dirs -> Flow] : conn' = [conn EXCEPT ![c] = [conn[c] EXCEPT !.flow = f]]
         \/ \E s \in {"killed", "reaped", "exited"} :
               conn' = [conn EXCEPT ![c] = [conn[c] EXCEPT !.socat = s]]
         \/ \E how \in {"shut", "gone"} :
               conn' = [conn EXCEPT ![c] = [conn[c] EXCEPT !.client = how]]
  PROVE  ProxyInv'
<1>0. conn[c] \in Conn
  BY DEF ProxyInv, TypeOK
<1>1. ASSUME NEW k \in [Dirs -> CopierStates], NEW i \in 0 .. 2,
             conn' = [conn EXCEPT ![c] = [conn[c] EXCEPT !.copier = k, !.done = i]]
      PROVE  ProxyInv'
  <2> DEFINE r == [conn[c] EXCEPT !.copier = k, !.done = i]
  <2>1. /\ r \in Conn /\ r.at = conn[c].at /\ r.of = conn[c].of
        /\ r.netns = conn[c].netns /\ r.peer = conn[c].peer
    BY <1>0 DEF Conn
  <2> QED
    BY <1>1, <2>1, SamePlace
<1>2. ASSUME NEW f \in [Dirs -> Flow],
             conn' = [conn EXCEPT ![c] = [conn[c] EXCEPT !.flow = f]]
      PROVE  ProxyInv'
  <2> DEFINE r == [conn[c] EXCEPT !.flow = f]
  <2>1. /\ r \in Conn /\ r.at = conn[c].at /\ r.of = conn[c].of
        /\ r.netns = conn[c].netns /\ r.peer = conn[c].peer
    BY <1>0 DEF Conn
  <2> QED
    BY <1>2, <2>1, SamePlace
<1>3. ASSUME NEW s \in {"killed", "reaped", "exited"},
             conn' = [conn EXCEPT ![c] = [conn[c] EXCEPT !.socat = s]]
      PROVE  ProxyInv'
  <2> DEFINE r == [conn[c] EXCEPT !.socat = s]
  <2>1. /\ r \in Conn /\ r.at = conn[c].at /\ r.of = conn[c].of
        /\ r.netns = conn[c].netns /\ r.peer = conn[c].peer
    BY <1>0 DEF Conn
  <2> QED
    BY <1>3, <2>1, SamePlace
<1>4. ASSUME NEW how \in {"shut", "gone"},
             conn' = [conn EXCEPT ![c] = [conn[c] EXCEPT !.client = how]]
      PROVE  ProxyInv'
  <2> DEFINE r == [conn[c] EXCEPT !.client = how]
  <2>1. /\ r \in Conn /\ r.at = conn[c].at /\ r.of = conn[c].of
        /\ r.netns = conn[c].netns /\ r.peer = conn[c].peer
    BY <1>0 DEF Conn
  <2> QED
    BY <1>4, <2>1, SamePlace
<1> QED
  BY <1>1, <1>2, <1>3, <1>4

-----------------------------------------------------------------------------
(* The listener *)

\* A new listener is the live one, and not cancelled.
LEMMA ListenStep == ProxyInv /\ Listen => ProxyInv'
<1> SUFFICES ASSUME ProxyInv, Listen
             PROVE  ProxyInv'
  OBVIOUS
<1>1. TypeOK'
  <2>1. MaxListeners \in Nat /\ opened \in Nat /\ opened < MaxListeners
    BY BoundsAssumption DEF ProxyInv, TypeOK, Listen
  <2>2. opened' \in 0 .. MaxListeners /\ 1 .. opened \subseteq 1 .. opened'
    BY <2>1 DEF Listen
  <2> QED
    BY <2>2 DEF ProxyInv, TypeOK, Listen
<1>2. LiveOrCancelled'
  BY DEF ProxyInv, TypeOK, LiveOrCancelled, Listen
<1>3. \A c \in Conns : NamedOrCancelled(c)'
  BY DEF ProxyInv, TypeOK, NamedOrCancelled, Cancelled, Listen
<1> QED
  BY <1>1, <1>2, <1>3 DEF ProxyInv

\* A stop cancels the live listener; connections nobody accepted are reset.
LEMMA StopStep == ProxyInv /\ (StopInstance \/ StopPort) => ProxyInv'
<1> SUFFICES ASSUME ProxyInv, StopInstance \/ StopPort
             PROVE  ProxyInv'
  OBVIOUS
<1>1. /\ live # 0 /\ live' = 0 /\ opened' = opened
      /\ cancelled' = cancelled \cup {live} /\ known' \in BOOLEAN
      /\ conn' = Reset /\ UNCHANGED <<backoff, errors>>
  BY DEF StopInstance, StopPort, ProxyInv, TypeOK
<1>2. ASSUME NEW c \in Conns
      PROVE  /\ conn'[c] \in Conn
             /\ conn'[c].of = conn[c].of /\ conn'[c].netns = conn[c].netns
             /\ conn'[c].peer = conn[c].peer
             /\ conn'[c].at = conn[c].at \/ (conn[c].at = "queued" /\ conn'[c].at = "reset")
  <2>1. conn[c] \in Conn
    BY DEF ProxyInv, TypeOK
  <2>2. conn'[c] = IF conn[c].at = "queued" THEN [conn[c] EXCEPT !.at = "reset"] ELSE conn[c]
    BY <1>1 DEF Reset
  <2>3. CASE conn[c].at = "queued"
    BY <2>1, <2>2, <2>3 DEF Conn
  <2>4. CASE conn[c].at # "queued"
    BY <2>1, <2>2, <2>4
  <2> QED
    BY <2>3, <2>4
<1>3. TypeOK'
  BY <1>1, <1>2 DEF ProxyInv, TypeOK, Reset
<1>4. LiveOrCancelled'
  BY <1>1 DEF ProxyInv, TypeOK, LiveOrCancelled
<1>5. \A c \in Conns : NamedOrCancelled(c)'
  BY <1>1, <1>2 DEF ProxyInv, NamedOrCancelled, Cancelled
<1> QED
  BY <1>3, <1>4, <1>5 DEF ProxyInv

LEMMA AcceptStep ==
  ASSUME ProxyInv, NEW c \in Conns, Connect(c) \/ Accept(c)
  PROVE  ProxyInv'
<1>1. conn[c] \in Conn /\ NamedOrCancelled(c)
  BY DEF ProxyInv, TypeOK
<1>2. CASE Connect(c)
  <2> DEFINE r == [conn[c] EXCEPT !.at = "queued", !.of = live]
  <2>1. conn' = [conn EXCEPT ![c] = r] /\ UNCHANGED listenVars
    BY <1>2 DEF Connect
  <2>2. live \in 1 .. opened /\ r \in Conn /\ r.at = "queued" /\ r.of = live /\ r.peer = conn[c].peer
    <3>1. live \in 1 .. opened /\ live \in 0 .. MaxListeners
      BY <1>2, BoundsAssumption DEF Connect, ProxyInv, TypeOK
    <3> QED
      BY <1>1, <3>1 DEF Conn
  <2> QED
    BY <1>1, <2>1, <2>2, OneConn DEF NamedOrCancelled
<1>3. CASE Accept(c)
  <2> DEFINE r == [conn[c] EXCEPT !.at = "accepted"]
  <2>1. conn' = [conn EXCEPT ![c] = r] /\ UNCHANGED listenVars
    BY <1>3 DEF Accept
  <2>2. r \in Conn /\ r.at = "accepted" /\ r.of = conn[c].of /\ r.peer = conn[c].peer
    BY <1>1 DEF Conn
  <2> QED
    BY <1>1, <1>3, <2>1, <2>2, OneConn DEF NamedOrCancelled, Accept
<1> QED
  BY <1>2, <1>3

LEMMA BackoffStep == ProxyInv /\ (AcceptError \/ EndBackoff) => ProxyInv'
<1> SUFFICES ASSUME ProxyInv, AcceptError \/ EndBackoff
             PROVE  ProxyInv'
  OBVIOUS
<1>1. /\ UNCHANGED <<known, live, opened, cancelled, conn>>
      /\ backoff' \in BOOLEAN /\ errors' \in Nat
  <2>1. AcceptError => UNCHANGED <<known, live, opened, cancelled, conn>> /\ backoff' = TRUE /\ errors' = errors + 1
    BY DEF AcceptError
  <2>2. EndBackoff => UNCHANGED <<known, live, opened, cancelled, conn, errors>> /\ backoff' = FALSE
    BY DEF EndBackoff
  <2>3. errors \in Nat /\ errors + 1 \in Nat
    BY DEF ProxyInv, TypeOK
  <2> QED
    BY <2>1, <2>2, <2>3
<1> QED
  BY <1>1 DEF ProxyInv, TypeOK, LiveOrCancelled, NamedOrCancelled, Cancelled

-----------------------------------------------------------------------------
(* handleConn *)

\* The name is missing only if the instance's listeners are all cancelled.
LEMMA LookupStep ==
  ASSUME ProxyInv, NEW c \in Conns, Lookup(c)
  PROVE  ProxyInv'
<1> DEFINE r == [conn[c] EXCEPT !.at = "dial", !.netns = known]
<1>1. conn[c] \in Conn /\ NamedOrCancelled(c) /\ LiveOrCancelled /\ known \in BOOLEAN
  BY DEF ProxyInv, TypeOK
<1>2. conn' = [conn EXCEPT ![c] = r] /\ UNCHANGED listenVars
  BY DEF Lookup
<1>3. /\ r \in Conn /\ r.at = "dial" /\ r.of = conn[c].of /\ r.netns = known
      /\ r.peer = conn[c].peer
  BY <1>1 DEF Conn
<1>4. conn[c].of \in 1 .. opened /\ r.peer # "host"
  BY <1>1, <1>3 DEF Lookup, NamedOrCancelled
<1>5. known \/ conn[c].of \in cancelled
  BY <1>1, <1>4 DEF LiveOrCancelled
<1> HIDE DEF r
<1> QED
  BY <1>2, <1>3, <1>4, <1>5, OneConn

\* A dial under a live context has the name, and gets into the namespace.
LEMMA DialStep ==
  ASSUME ForkFails = FALSE, ProxyInv, NEW c \in Conns, Dial(c)
  PROVE  ProxyInv'
<1>1. conn[c] \in Conn /\ NamedOrCancelled(c) /\ conn[c].at = "dial" /\ UNCHANGED listenVars
  BY DEF ProxyInv, TypeOK, Dial
<1>2. CASE Cancelled(c)
  <2> DEFINE r == [conn[c] EXCEPT !.at = "returned"]
  <2>1. conn' = [conn EXCEPT ![c] = r]
    BY <1>2 DEF Dial
  <2>2. r \in Conn /\ r.at = "returned" /\ r.of = conn[c].of /\ r.peer = conn[c].peer
    BY <1>1 DEF Conn
  <2> QED
    BY <1>1, <2>1, <2>2, OneConn DEF NamedOrCancelled
<1>3. CASE ~Cancelled(c)
  <2>1. Reached(c) = {"namespace"}
    BY <1>1, <1>3 DEF Reached, NamedOrCancelled
  <2> DEFINE r == [conn[c] EXCEPT !.at = "copying", !.peer = "namespace", !.socat = "running",
                                  !.copier = [d \in Dirs |-> "read"]]
  <2>2. conn' = [conn EXCEPT ![c] = r]
    BY <1>3, <2>1 DEF Dial
  <2>3. r \in Conn /\ r.at = "copying" /\ r.of = conn[c].of /\ r.peer = "namespace"
    BY <1>1 DEF Conn, CopierStates
  <2> QED
    BY <1>1, <2>2, <2>3, OneConn DEF NamedOrCancelled
<1> QED
  BY <1>2, <1>3

LEMMA SelectStep ==
  ASSUME ProxyInv, NEW c \in Conns, Select(c)
  PROVE  ProxyInv'
<1>1. conn[c] \in Conn /\ NamedOrCancelled(c) /\ conn[c].at = "copying" /\ UNCHANGED listenVars
  BY DEF ProxyInv, TypeOK, Select
<1>2. PICK left \in {conn[c].done - 1, conn[c].done} :
         /\ left >= 0
         /\ conn' = [conn EXCEPT ![c].at = "returned", ![c].done = left,
                                 ![c].socat = IF @ = "running" THEN "killed" ELSE @]
  BY DEF Select
<1> DEFINE r == [conn[c] EXCEPT !.at = "returned", !.done = left,
                                !.socat = IF @ = "running" THEN "killed" ELSE @]
<1>3. left \in 0 .. 2
  BY <1>1, <1>2 DEF Conn
<1>4. conn' = [conn EXCEPT ![c] = r]
  BY <1>2
<1>5. r \in Conn /\ r.at = "returned" /\ r.of = conn[c].of /\ r.peer = conn[c].peer
  BY <1>1, <1>3 DEF Conn
<1> QED
  BY <1>1, <1>4, <1>5, OneConn DEF NamedOrCancelled

-----------------------------------------------------------------------------
(* Copying, processes and clients: the connection stays where it is *)

LEMMA CopierStep ==
  ASSUME ProxyInv, NEW c \in Conns, NEW d \in Dirs,
         Copier(c, d) \/ Send(c, d) \/ Take(c, d)
  PROVE  ProxyInv'
<1>1. conn[c] \in Conn /\ UNCHANGED listenVars
  BY DEF ProxyInv, TypeOK, Copier, Read, Write, EndCopy, Signal, Send, Take
<1>2. conn[c].flow \in [Dirs -> Flow] /\ conn[c].copier \in [Dirs -> CopierStates]
  BY <1>1 DEF Conn
<1>3. CASE Write(c, d)
  <2> DEFINE f == [conn[c].flow EXCEPT ![d].copied = @ + 1]
             k == [conn[c].copier EXCEPT ![d] = "read"]
             r == [conn[c] EXCEPT !.copier = k, !.flow = f]
  <2>1. f \in [Dirs -> Flow] /\ k \in [Dirs -> CopierStates]
    BY <1>2 DEF Flow, CopierStates
  <2>2. conn' = [conn EXCEPT ![c] = r]
    BY <1>3 DEF Write
  <2> HIDE DEF f, k
  <2>3. /\ r \in Conn /\ r.at = conn[c].at /\ r.of = conn[c].of
        /\ r.netns = conn[c].netns /\ r.peer = conn[c].peer
    BY <1>1, <2>1 DEF Conn
  <2> HIDE DEF r
  <2> QED
    BY <1>1, <2>2, <2>3, SamePlace
<1>4. CASE Send(c, d)
  <2> DEFINE f == [conn[c].flow EXCEPT ![d].sent = @ + 1]
  <2>1. f \in [Dirs -> Flow]
    BY <1>2 DEF Flow
  <2>2. conn' = [conn EXCEPT ![c] = [conn[c] EXCEPT !.flow = f]]
    BY <1>4 DEF Send
  <2> HIDE DEF f
  <2> QED
    BY <1>1, <2>1, <2>2, InnerChange
<1>5. CASE Take(c, d)
  <2> DEFINE f == [conn[c].flow EXCEPT ![d].taken = @ + 1]
  <2>1. f \in [Dirs -> Flow]
    BY <1>2 DEF Flow
  <2>2. conn' = [conn EXCEPT ![c] = [conn[c] EXCEPT !.flow = f]]
    BY <1>5 DEF Take
  <2> HIDE DEF f
  <2> QED
    BY <1>1, <2>1, <2>2, InnerChange
<1>6. CASE EndCopy(c, d)
  <2> DEFINE k == [conn[c].copier EXCEPT ![d] = "signal"]
  <2>1. k \in [Dirs -> CopierStates]
    BY <1>2 DEF CopierStates
  <2>2. conn' = [conn EXCEPT ![c] = [conn[c] EXCEPT !.copier = k, !.done = conn[c].done]]
    BY <1>1, <1>6 DEF EndCopy, Conn
  <2>3. conn[c].done \in 0 .. 2
    BY <1>1 DEF Conn
  <2> HIDE DEF k
  <2> QED
    BY <1>1, <2>1, <2>2, <2>3, InnerChange
<1>7. CASE Signal(c, d)
  <2> DEFINE k == [conn[c].copier EXCEPT ![d] = "ended"]
  <2>1. k \in [Dirs -> CopierStates]
    BY <1>2 DEF CopierStates
  <2>2. conn' = [conn EXCEPT ![c] = [conn[c] EXCEPT !.copier = k, !.done = conn[c].done + 1]]
    BY <1>7 DEF Signal
  <2>3. conn[c].done + 1 \in 0 .. 2
    BY <1>1, <1>7 DEF Conn, Signal
  <2> HIDE DEF k
  <2> QED
    BY <1>1, <2>1, <2>2, <2>3, InnerChange
<1>8. CASE Read(c, d)
  <2> DEFINE k == [conn[c].copier EXCEPT ![d] = "write"]
  <2>1. k \in [Dirs -> CopierStates]
    BY <1>2 DEF CopierStates
  <2>2. conn' = [conn EXCEPT ![c] = [conn[c] EXCEPT !.copier = k, !.done = conn[c].done]]
    BY <1>1, <1>8 DEF Read, Conn
  <2>3. conn[c].done \in 0 .. 2
    BY <1>1 DEF Conn
  <2> HIDE DEF k
  <2> QED
    BY <1>1, <2>1, <2>2, <2>3, InnerChange
<1> QED
  BY <1>3, <1>4, <1>5, <1>6, <1>7, <1>8 DEF Copier

LEMMA ProcessStep ==
  ASSUME ProxyInv, NEW c \in Conns,
         \/ Process(c) \/ SocatExits(c)
         \/ ClientCloses(c, "shut") \/ ClientCloses(c, "gone")
  PROVE  ProxyInv'
<1>1. conn[c] \in Conn /\ UNCHANGED listenVars
  BY DEF ProxyInv, TypeOK, Process, KillOnCancel, Wait, SocatExits, ClientCloses
<1>2. CASE Process(c) \/ SocatExits(c)
  <2>1. PICK s \in {"killed", "reaped", "exited"} : conn' = [conn EXCEPT ![c].socat = s]
    BY <1>2 DEF Process, KillOnCancel, Wait, SocatExits
  <2>2. [conn[c] EXCEPT !.socat = s] \in Conn
    BY <1>1 DEF Conn
  <2> QED
    BY <1>1, <2>1, <2>2, SamePlace DEF Conn
<1>3. CASE ClientCloses(c, "shut") \/ ClientCloses(c, "gone")
  <2>1. PICK how \in {"shut", "gone"} : conn' = [conn EXCEPT ![c].client = how]
    BY <1>3 DEF ClientCloses
  <2> DEFINE r == [conn[c] EXCEPT !.client = how]
  <2>2. /\ r \in Conn /\ r.at = conn[c].at /\ r.of = conn[c].of
        /\ r.netns = conn[c].netns /\ r.peer = conn[c].peer
    BY <1>1 DEF Conn
  <2>3. conn' = [conn EXCEPT ![c] = r]
    BY <2>1
  <2> HIDE DEF r
  <2> QED
    BY <1>1, <2>2, <2>3, SamePlace
<1> QED
  BY <1>2, <1>3

-----------------------------------------------------------------------------
LEMMA StepInv ==
  ASSUME ForkFails = FALSE, ProxyInv, [Next]_vars
  PROVE  ProxyInv'
<1>1. CASE Listen \/ StopInstance \/ StopPort \/ AcceptError \/ EndBackoff
  BY <1>1, ListenStep, StopStep, BackoffStep
<1>2. ASSUME NEW c \in Conns,
             \/ Connect(c) \/ Accept(c) \/ Handler(c) \/ Process(c) \/ SocatExits(c)
             \/ ClientCloses(c, "shut") \/ ClientCloses(c, "gone")
             \/ \E d \in Dirs : Copier(c, d) \/ Send(c, d) \/ Take(c, d)
      PROVE  ProxyInv'
  BY <1>2, AcceptStep, LookupStep, DialStep, SelectStep, ProcessStep, CopierStep DEF Handler
<1>3. CASE UNCHANGED vars
  BY <1>3 DEF vars, ProxyInv, TypeOK, LiveOrCancelled, NamedOrCancelled, Cancelled
<1> QED
  BY <1>1, <1>2, <1>3 DEF Next

\* So long as nsenter starts, a connection leads into its instance's namespace
\* or nowhere, for any number of connections and however StopInstance, StopPort
\* and new listeners come between Accept, the look-up and the dial (handleConn):
\* the two steps need no lock, because the stop cancels the context in the
\* section that forgets the name.
THEOREM NeverTheHostsNetwork ==
  ASSUME ForkFails = FALSE
  PROVE  Spec => []OnlyOwnNamespace
<1>1. ProxyInv /\ [Next]_vars => ProxyInv'
  BY StepInv
<1>2. ProxyInv => OnlyOwnNamespace
  BY DEF ProxyInv, NamedOrCancelled, OnlyOwnNamespace
<1> QED
  BY <1>1, <1>2, InitInv, PTL DEF Spec
=============================================================================
