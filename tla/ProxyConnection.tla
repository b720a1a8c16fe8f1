--------------------------- MODULE ProxyConnection ---------------------------
(***************************************************************************)
(* The connections of one forwarded port (internal/proxy/proxy.go): serve  *)
(* accepts on the listener, handleConn runs a goroutine per connection     *)
(* that starts socat inside the instance's namespace, and two goroutines   *)
(* copy, one per direction.  StopInstance may come at any time, and a scan *)
(* may listen again afterwards; every listener has a context of its own.   *)
(*                                                                         *)
(* Data is counted in chunks; sockets and pipes keep their order.  The     *)
(* client, socat and the service socat connects to are external: a client  *)
(* may half-close or leave, a reader may stop reading for ever, socat may  *)
(* exit at any time.                                                       *)
(***************************************************************************)
EXTENDS Integers

CONSTANTS
    Conns,         \* connections of clients
    MaxListeners,  \* bound on the listeners opened, one after the other
    MaxErrors,     \* bound on the transient errors of Accept
    MaxChunks,     \* bound on the chunks sent in one direction
    Room,          \* chunks a socket or pipe holds
    ForkFails      \* TRUE: starting nsenter may fail

ASSUME BoundsAssumption ==
    /\ {MaxListeners, MaxErrors, MaxChunks} \subseteq Nat /\ Room \in Nat \ {0}
    /\ ForkFails \in BOOLEAN

VARIABLES
    known,      \* Manager.instances has an entry for the instance
    live,       \* the listener that accepts, 0 for none
    opened,     \* number of listeners opened so far
    cancelled,  \* listeners whose context is done
    backoff,    \* serve waits after an Accept error
    errors,
    conn        \* the connections

vars == <<known, live, opened, cancelled, backoff, errors, conn>>
listenVars == <<known, live, opened, cancelled, backoff, errors>>

Listeners == 1 .. MaxListeners

\* "up" is from the client to the service.  sent: written by its source;
\* copied: passed on by the copying goroutine; taken: read at the other end.
Dirs == {"up", "down"}
Flow == [sent : Nat, copied : Nat, taken : Nat]

\* A copying goroutine: "read" and "write" are io.Copy, with a chunk in its
\* buffer in "write"; "signal" is past CloseWrite and sends on done.
CopierStates == {"none", "read", "write", "signal", "ended"}

\* handleConn and what surrounds it.
Conn == [at : {"none", "queued", "reset", "accepted", "dial", "copying", "returned"},
         of : 0 .. MaxListeners,                     \* the listener
         netns : BOOLEAN,                            \* nsName # ""
         peer : {"none", "namespace", "host"},       \* where dst leads
         client : {"open", "shut", "gone"},
         socat : {"none", "running", "exited", "killed", "reaped"},
         copier : [Dirs -> CopierStates],
         done : 0 .. 2,                              \* signals in the channel
         flow : [Dirs -> Flow]]

NoFlow == [sent |-> 0, copied |-> 0, taken |-> 0]
NoConn == [at |-> "none", of |-> 0, netns |-> FALSE, peer |-> "none", client |-> "open",
           socat |-> "none", copier |-> [d \in Dirs |-> "none"], done |-> 0,
           flow |-> [d \in Dirs |-> NoFlow]]

Init ==
    /\ known = FALSE /\ live = 0 /\ opened = 0 /\ cancelled = {}
    /\ backoff = FALSE /\ errors = 0
    /\ conn = [c \in Conns |-> NoConn]

Cancelled(c) == conn[c].of \in cancelled

-----------------------------------------------------------------------------
(* The listener *)

\* ForwardWithMetadata.
Listen ==
    /\ live = 0 /\ opened < MaxListeners
    /\ known' = TRUE
    /\ live' = opened + 1 /\ opened' = opened + 1 /\ backoff' = FALSE
    /\ UNCHANGED <<cancelled, errors, conn>>

Reset == [c \in Conns |-> IF conn[c].at = "queued" THEN [conn[c] EXCEPT !.at = "reset"] ELSE conn[c]]

\* Mutant: the listener is closed, its context is not cancelled.
LaxStopInstance ==
    /\ live # 0
    /\ known' = FALSE /\ live' = 0 /\ conn' = Reset
    /\ UNCHANGED <<opened, cancelled, backoff, errors>>

\* One section under the mutex; the kernel resets what was not accepted.
StopInstance ==
    /\ live # 0
    /\ cancelled' = cancelled \cup {live}
    /\ known' = FALSE /\ live' = 0 /\ conn' = Reset
    /\ UNCHANGED <<opened, backoff, errors>>

\* StopPort: as StopInstance, but the instance stays known.
StopPort ==
    /\ live # 0
    /\ cancelled' = cancelled \cup {live}
    /\ live' = 0 /\ conn' = Reset
    /\ UNCHANGED <<known, opened, backoff, errors>>

Connect(c) ==
    /\ conn[c].at = "none" /\ live # 0
    /\ conn' = [conn EXCEPT ![c].at = "queued", ![c].of = live]
    /\ UNCHANGED listenVars

Accept(c) ==
    /\ live # 0 /\ ~backoff /\ conn[c].at = "queued"
    /\ conn' = [conn EXCEPT ![c].at = "accepted"]
    /\ UNCHANGED listenVars

\* Too many open files, say: Accept waits for a connection before it fails.
AcceptError ==
    /\ live # 0 /\ ~backoff /\ errors < MaxErrors
    /\ \E c \in Conns : conn[c].at = "queued"
    /\ backoff' = TRUE /\ errors' = errors + 1
    /\ UNCHANGED <<known, live, opened, cancelled, conn>>

EndBackoff ==
    /\ live # 0 /\ backoff
    /\ backoff' = FALSE
    /\ UNCHANGED <<known, live, opened, cancelled, errors, conn>>

-----------------------------------------------------------------------------
(* handleConn *)

\* The namespace's name comes from the map as it is by now.
Lookup(c) ==
    /\ conn[c].at = "accepted"
    /\ conn' = [conn EXCEPT ![c].at = "dial", ![c].netns = known]
    /\ UNCHANGED listenVars

\* Where a dial gets to: into the namespace by nsenter and socat; into the
\* host's network without a name, or if nsenter cannot be started.
Reached(c) ==
    (IF conn[c].netns THEN {"namespace"} ELSE {"host"})
        \cup (IF ForkFails THEN {"host"} ELSE {})

\* Either dial fails once the context is done.
Dial(c) ==
    /\ conn[c].at = "dial"
    /\ IF Cancelled(c) THEN conn' = [conn EXCEPT ![c].at = "returned"]
       ELSE \E peer \in Reached(c) :
               conn' = [conn EXCEPT ![c].at = "copying", ![c].peer = peer,
                                    ![c].socat = IF peer = "namespace" THEN "running" ELSE "none",
                                    ![c].copier = [d \in Dirs |-> "read"]]
    /\ UNCHANGED listenVars

\* The select, and the deferred Close of both ends, which kills socat.
Select(c) ==
    /\ conn[c].at = "copying"
    /\ \E left \in {conn[c].done - 1} \cup (IF Cancelled(c) THEN {conn[c].done} ELSE {}) :
          /\ left >= 0
          /\ conn' = [conn EXCEPT ![c].at = "returned", ![c].done = left,
                                  ![c].socat = IF @ = "running" THEN "killed" ELSE @]
    /\ UNCHANGED listenVars

-----------------------------------------------------------------------------
(* The copying goroutines *)

\* What is written and not yet passed on; what is passed on and not yet read.
Waiting(c, d) == conn[c].flow[d].sent - conn[c].flow[d].copied
Ahead(c, d) == conn[c].flow[d].copied - conn[c].flow[d].taken

\* The far ends of the pipes to socat; the host's network is never full or gone.
StdinOpen(c) == conn[c].peer = "host" \/ conn[c].socat = "running"

\* A write of direction d fails.
Broken(c, d) == IF d = "up" THEN ~StdinOpen(c) ELSE conn[c].client = "gone"

\* A read of direction d returns EOF or an error.
Ended(c, d) ==
    IF d = "up" THEN conn[c].client # "open" /\ Waiting(c, d) = 0
    ELSE \/ conn[c].socat \in {"exited", "killed"} /\ Waiting(c, d) = 0
         \/ conn[c].socat = "reaped"

\* Mutant: one loop for both directions, which answers first.
OneLoopRead(c, d) ==
    /\ conn[c].at = "copying" /\ conn[c].copier[d] = "read"
    /\ d = "up" => Waiting(c, "down") = 0
    /\ Waiting(c, d) > 0 /\ ~Ended(c, d)
    /\ conn' = [conn EXCEPT ![c].copier[d] = "write"]
    /\ UNCHANGED listenVars

Read(c, d) ==
    /\ conn[c].at = "copying" /\ conn[c].copier[d] = "read"
    /\ Waiting(c, d) > 0 /\ ~Ended(c, d)
    /\ conn' = [conn EXCEPT ![c].copier[d] = "write"]
    /\ UNCHANGED listenVars

\* The receiver has room for the chunk, whatever has become of its source.
Write(c, d) ==
    /\ conn[c].at = "copying" /\ conn[c].copier[d] = "write"
    /\ Ahead(c, d) < Room /\ ~Broken(c, d)
    /\ conn' = [conn EXCEPT ![c].copier[d] = "read", ![c].flow[d].copied = @ + 1]
    /\ UNCHANGED listenVars

\* io.Copy returns: end of its input, a failing write, or both ends closed.
\* CloseWrite follows.
EndCopy(c, d) ==
    /\ \/ conn[c].copier[d] = "read" /\ (Ended(c, d) \/ conn[c].at = "returned")
       \/ conn[c].copier[d] = "write" /\ (Broken(c, d) \/ conn[c].at = "returned")
    /\ conn' = [conn EXCEPT ![c].copier[d] = "signal"]
    /\ UNCHANGED listenVars

\* Mutant: done has no buffer.
UnbufferedSignal(c, d) ==
    /\ conn[c].copier[d] = "signal" /\ conn[c].done = 0 /\ conn[c].at = "copying"
    /\ conn' = [conn EXCEPT ![c].copier[d] = "ended", ![c].done = @ + 1]
    /\ UNCHANGED listenVars

Signal(c, d) ==
    /\ conn[c].copier[d] = "signal" /\ conn[c].done < 2
    /\ conn' = [conn EXCEPT ![c].copier[d] = "ended", ![c].done = @ + 1]
    /\ UNCHANGED listenVars

-----------------------------------------------------------------------------
(* socat and its watcher *)

\* exec.CommandContext
KillOnCancel(c) ==
    /\ conn[c].socat = "running" /\ Cancelled(c)
    /\ conn' = [conn EXCEPT ![c].socat = "killed"]
    /\ UNCHANGED listenVars

\* cmd.Wait closes the read end of the pipe, read to its end or not.
Wait(c) ==
    /\ conn[c].socat \in {"exited", "killed"}
    /\ conn' = [conn EXCEPT ![c].socat = "reaped"]
    /\ UNCHANGED listenVars

\* External: the service has closed, or there never was one.
SocatExits(c) ==
    /\ conn[c].socat = "running"
    /\ conn' = [conn EXCEPT ![c].socat = "exited"]
    /\ UNCHANGED listenVars

-----------------------------------------------------------------------------
(* The client and the service *)

\* A client that has connected, accepted by serve or not.
MaySend(c, d) ==
    IF d = "up" THEN conn[c].at \notin {"none", "reset", "returned"} /\ conn[c].client = "open"
    ELSE conn[c].socat = "running"

Send(c, d) ==
    /\ MaySend(c, d) /\ conn[c].flow[d].sent < MaxChunks /\ Waiting(c, d) < Room
    /\ conn' = [conn EXCEPT ![c].flow[d].sent = @ + 1]
    /\ UNCHANGED listenVars

\* A chunk reaches the service, or the client (what a client reads after
\* handleConn has returned is left out).
Take(c, d) ==
    /\ conn[c].at = "copying" /\ Ahead(c, d) > 0
    /\ IF d = "up" THEN StdinOpen(c) ELSE conn[c].client # "gone"
    /\ conn' = [conn EXCEPT ![c].flow[d].taken = @ + 1]
    /\ UNCHANGED listenVars

\* "shut": the client has no more to say and waits for the answer.
ClientCloses(c, how) ==
    /\ conn[c].at \notin {"none", "reset", "returned"} /\ conn[c].client \notin {"gone", how}
    /\ conn' = [conn EXCEPT ![c].client = how]
    /\ UNCHANGED listenVars

-----------------------------------------------------------------------------
Handler(c) == Lookup(c) \/ Dial(c) \/ Select(c)
Copier(c, d) == Read(c, d) \/ Write(c, d) \/ EndCopy(c, d) \/ Signal(c, d)
Process(c) == KillOnCancel(c) \/ Wait(c)

Next ==
    \/ Listen \/ StopInstance \/ StopPort \/ AcceptError \/ EndBackoff
    \/ \E c \in Conns :
          \/ Connect(c) \/ Accept(c) \/ Handler(c) \/ Process(c) \/ SocatExits(c)
          \/ ClientCloses(c, "shut") \/ ClientCloses(c, "gone")
          \/ \E d \in Dirs : Copier(c, d) \/ Send(c, d) \/ Take(c, d)

Spec == Init /\ [][Next]_vars

\* The daemon's goroutines go on; clients, services and readers need not.
FairSpec ==
    /\ Spec
    /\ WF_vars(EndBackoff)
    /\ \A c \in Conns :
          /\ WF_vars(Accept(c)) /\ WF_vars(Handler(c))
          /\ WF_vars(KillOnCancel(c)) /\ WF_vars(Wait(c))
          /\ \A d \in Dirs : WF_vars(Copier(c, d))

-----------------------------------------------------------------------------
(* Properties *)

\* A connection leads into the namespace of its instance or nowhere, however
\* StopInstance, StopPort and a new listener come between Accept, the look-up of
\* the name and the dial (handleConn): the context that is cancelled before
\* the name is forgotten keeps it off the host's network.
OnlyOwnNamespace == \A c \in Conns : conn[c].peer # "host"

Released(c) ==
    /\ conn[c].at \in {"reset", "returned"}
    /\ conn[c].socat \in {"none", "reaped"}
    /\ \A d \in Dirs : conn[c].copier[d] \in {"none", "ended"}

\* A copying goroutine blocked in its Write.
Stalled(c, d) == conn[c].copier[d] = "write" /\ Ahead(c, d) = Room

\* Nothing of a connection stays, neither goroutine nor process, when its
\* forward is stopped; nor when socat exits or the client leaves, unless the
\* other end has stopped reading for ever with a chunk in flight (handleConn,
\* nsConn.Close).
ConnectionsEnd ==
    \A c \in Conns :
        /\ Cancelled(c) ~> Released(c)
        /\ <>[]Stalled(c, "down") \/ (conn[c].socat \in {"exited", "killed", "reaped"} ~> Released(c))
        /\ <>[]Stalled(c, "up") \/
              (conn[c].client = "gone" ~> Released(c) \/ conn[c].client # "gone")

\* The directions do not wait for each other: what one end has sent is passed
\* on as long as its own receiver has room, though the other one is stuck.
DirectionsFlow ==
    \A c \in Conns, d \in Dirs :
        conn[c].at = "copying" /\ Waiting(c, d) > 0 ~>
            Waiting(c, d) = 0 \/ Ahead(c, d) = Room \/ conn[c].at # "copying"

\* What a client sent before its half-close reaches the service, unless the
\* forward is stopped or socat ends by itself: "signal EOF to the destination so
\* it can terminate cleanly" (handleConn).
HalfCloseDelivers ==
    \A c \in Conns :
        conn[c].client = "shut" /\ conn[c].socat = "killed" /\ ~Cancelled(c)
            => conn[c].flow["up"].taken = conn[c].flow["up"].sent
=============================================================================
