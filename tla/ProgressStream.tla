---------------------------- MODULE ProgressStream ----------------------------
(***************************************************************************)
(* The way of a progress event: from a plugin's handler (pkg/pluginsdk)    *)
(* through the pipe to RunStream (internal/plugin/exec.go), through a      *)
(* channel of bounded size to the HTTP handler (internal/api), and over    *)
(* the connection to the client (internal/client), who concludes from the  *)
(* events how the operation ended.                                         *)
(*                                                                         *)
(* One request is modelled: a create with a workload, which validates,     *)
(* deploys and, if that fails, tears down again; a delete, which tears     *)
(* down as well as it can and goes on; or one that runs no plugin.  What a *)
(* phase emits is one event here.  A client that asks for no stream gets   *)
(* one answer when the operation has ended.  External: what a plugin's     *)
(* handler emits and returns, the processes it starts, the client's pace.  *)
(***************************************************************************)
EXTENDS Naturals, Sequences

CONSTANTS
    Kinds,      \* the requests considered
    Capacity,   \* of the progress channel, 16 in the code
    PipeRoom,   \* lines the plugin's stdout pipe holds
    WireRoom,   \* lines the connection to the client holds
    MaxLines    \* bound on the lines a handler emits

ASSUME KindsAssumption == Kinds \subseteq {"create", "delete", "plain"}
ASSUME RoomAssumption ==
    {Capacity, PipeRoom, WireRoom} \subseteq Nat \ {0} /\ MaxLines \in Nat

VARIABLES
    op,       \* the operation's goroutine
    plugin,   \* the plugin's process
    helper,   \* a process it started holds its output open
    pipe,     \* its stdout
    scanner,  \* RunStream's reading goroutine
    late,     \* the command's deadline has passed
    done,     \* the request's context is done
    ch,       \* the progress channel
    dropped,  \* Emit has dropped an event
    serving,  \* the HTTP handler has not returned
    wire,     \* the response, as far as it is under way
    client

opVars == <<op, plugin, helper, pipe, scanner, late>>
vars == <<opVars, done, ch, dropped, serving, wire, client>>

\* Lines: "step" is an event of a status other than "error", "hollow" an error
\* with an empty message; "wide" and "huge" are longer than the client's scanner
\* (64 KiB) and RunStream's (1 MiB) take.
Lines == {"step", "error", "hollow", "wide", "huge"}

\* wrote and passed count the lines the plugin wrote and RunStream delivered.
Op == [kind : Kinds, stream : BOOLEAN, hook : {"deploy", "teardown"},
       failed : BOOLEAN, closed : BOOLEAN,
       at : {"validate", "host", "run", "read", "deployed", "torn", "destroy", "report",
             "close", "end"},
       wrote : Nat, passed : Nat]
Plugin == [at : {"none", "running", "writing", "exited", "failed", "killed"}, left : 0 .. MaxLines]
Client == [at : {"reading", "stalled", "gone", "ok", "error"}, sawError : BOOLEAN]

Init ==
    /\ op \in [kind : Kinds, stream : BOOLEAN, hook : {"deploy"}, failed : {FALSE},
               closed : {FALSE}, at : {"validate"}, wrote : {0}, passed : {0}]
    /\ plugin = [at |-> "none", left |-> 0] /\ helper = FALSE
    /\ pipe = <<>> /\ scanner = "off" /\ late = FALSE /\ done = FALSE
    /\ ch = <<>> /\ dropped = FALSE /\ serving = TRUE /\ wire = <<>>
    /\ client = [at |-> "reading", sawError |-> FALSE]

Gone == plugin.at \in {"exited", "failed", "killed"}

Quiet == UNCHANGED <<ch, dropped>>

\* Mutant: Emit waits for room.
BlockingEmit(e) ==
    \/ ~op.stream /\ Quiet
    \/ op.stream /\ Len(ch) < Capacity /\ ch' = Append(ch, e) /\ UNCHANGED dropped

\* ProgressReporter.Emit; there is no reporter without a stream.
Emit(e) ==
    \/ ~op.stream /\ Quiet
    \/ op.stream /\ Len(ch) < Capacity /\ ch' = Append(ch, e) /\ UNCHANGED dropped
    \/ op.stream /\ Len(ch) = Capacity /\ dropped' = TRUE /\ UNCHANGED ch

Goto(step) == op' = [op EXCEPT !.at = step]

-----------------------------------------------------------------------------
(* The operation *)

\* start, stop, snapshot, revert and clone run no plugin.
Plain ==
    /\ op.at = "validate" /\ op.kind = "plain"
    /\ Emit("step")
    /\ \E failed \in BOOLEAN : op' = [op EXCEPT !.at = "report", !.failed = failed]
    /\ UNCHANGED <<plugin, helper, pipe, scanner, late, done, serving, wire, client>>

\* runValidate of a create; a failure ends the create.  A delete has none.
Validate ==
    /\ op.at = "validate"
    /\ \/ op.kind = "create" /\ Emit("step") /\ Goto("host")
       \/ op.kind = "create" /\ Emit("error") /\ op' = [op EXCEPT !.at = "report", !.failed = TRUE]
       \/ op.kind = "delete" /\ Emit("step") /\ op' = [op EXCEPT !.at = "run", !.hook = "teardown"]
    /\ UNCHANGED <<plugin, helper, pipe, scanner, late, done, serving, wire, client>>

\* The create makes its dataset and starts dockerd, or fails.
MakeHost ==
    /\ op.at = "host" /\ op.kind = "create"
    /\ \/ ~done /\ Goto("run")
       \/ op' = [op EXCEPT !.at = "report", !.failed = TRUE]
    /\ Quiet
    /\ UNCHANGED <<plugin, helper, pipe, scanner, late, done, serving, wire, client>>

\* Where runDeploy and runTeardown go on, and what they emit if the run failed.
After(hook, failed) ==
    /\ IF failed THEN Emit("error") ELSE Quiet
    /\ op' = [op EXCEPT
                !.at = IF hook = "teardown" THEN "torn" ELSE IF failed THEN "run" ELSE "deployed",
                !.hook = IF failed THEN "teardown" ELSE @]

\* RunStream starts the command; it fails without a usable plugin and once the
\* context is done.
StartPlugin ==
    /\ op.at = "run"
    /\ \/ /\ ~done
          /\ plugin' = [at |-> "running", left |-> MaxLines]
          /\ scanner' = "on" /\ late' = FALSE
          /\ op' = [op EXCEPT !.at = "read", !.wrote = 0, !.passed = 0]
          /\ Quiet
       \/ After(op.hook, TRUE) /\ UNCHANGED <<plugin, scanner, late>>
    /\ UNCHANGED <<helper, pipe, done, serving, wire, client>>

\* One line, and the events callback.  A line of more than 1 MiB ends the
\* scanner; the plugin gets on only if what is left of it fits into the pipe.
ScanLine ==
    /\ scanner = "on" /\ pipe # <<>>
    /\ pipe' = Tail(pipe)
    /\ IF Head(pipe) = "huge"
       THEN /\ scanner' = "overrun" /\ Quiet /\ UNCHANGED op
            /\ plugin' \in {plugin, [plugin EXCEPT !.at = IF @ = "writing" THEN "running" ELSE @]}
       ELSE /\ Emit(Head(pipe)) /\ op' = [op EXCEPT !.passed = @ + 1]
            /\ UNCHANGED <<scanner, plugin>>
    /\ UNCHANGED <<helper, late, done, serving, wire, client>>

\* End of file: nobody holds the other end of the pipe.
ScanEnd ==
    /\ scanner = "on" /\ pipe = <<>> /\ Gone /\ ~helper
    /\ scanner' = "off"
    /\ UNCHANGED <<op, plugin, helper, pipe, late, done, ch, dropped, serving, wire, client>>

\* Mutant: RunStream waits for the process only.
HastyWaitPlugin ==
    /\ op.at = "read" /\ Gone
    /\ After(op.hook, plugin.at # "exited")
    /\ pipe' = <<>> /\ scanner' = "off"
    /\ UNCHANGED <<plugin, helper, late, done, serving, wire, client>>

\* wg.Wait, then cmd.Wait, which closes the pipe and also waits for stderr.
WaitPlugin ==
    /\ op.at = "read" /\ scanner # "on" /\ Gone /\ ~helper
    /\ After(op.hook, plugin.at # "exited")
    /\ pipe' = <<>>
    /\ UNCHANGED <<plugin, helper, scanner, late, done, serving, wire, client>>

\* The create has its workload: the entry is saved as running, or is not.
Deployed ==
    /\ op.at = "deployed"
    /\ \E failed \in BOOLEAN : op' = [op EXCEPT !.at = "report", !.failed = failed]
    /\ Quiet
    /\ UNCHANGED <<plugin, helper, pipe, scanner, late, done, serving, wire, client>>

\* After a failed deploy the create has failed, however the teardown went.
Torn ==
    /\ op.at = "torn"
    /\ op' = [op EXCEPT !.at = IF op.kind = "delete" THEN "host" ELSE "report",
                        !.failed = op.kind = "create"]
    /\ Quiet
    /\ UNCHANGED <<plugin, helper, pipe, scanner, late, done, serving, wire, client>>

\* The rest of a delete: dockerd ...
StopDockerd ==
    /\ op.at = "host" /\ op.kind = "delete"
    /\ Emit("step") /\ Goto("destroy")
    /\ UNCHANGED <<plugin, helper, pipe, scanner, late, done, serving, wire, client>>

\* ... and the dataset and the entry, either of which may fail.
DestroyDataset ==
    /\ op.at = "destroy"
    /\ \/ ~done /\ Emit("step")
          /\ \E failed \in BOOLEAN : op' = [op EXCEPT !.at = "report", !.failed = failed]
       \/ Emit("error") /\ op' = [op EXCEPT !.at = "report", !.failed = TRUE]
    /\ UNCHANGED <<plugin, helper, pipe, scanner, late, done, serving, wire, client>>

\* Mutant: the handler's goroutine ignores the error.
SilentReport ==
    /\ op.at = "report" /\ op.stream /\ Quiet /\ Goto("close")
    /\ UNCHANGED <<plugin, helper, pipe, scanner, late, done, serving, wire, client>>

\* The goroutine of the HTTP handler adds a last event after an error ...
Report ==
    /\ op.at = "report" /\ op.stream
    /\ IF op.failed THEN Emit("error") ELSE Quiet
    /\ Goto("close")
    /\ UNCHANGED <<plugin, helper, pipe, scanner, late, done, serving, wire, client>>

\* Mutant: without closing the channel.
UnclosedClose ==
    /\ op.at = "close" /\ Goto("end")
    /\ UNCHANGED <<plugin, helper, pipe, scanner, late, done, ch, dropped, serving, wire, client>>

\* ... and closes the channel.
Close ==
    /\ op.at = "close"
    /\ op' = [op EXCEPT !.at = "end", !.closed = TRUE]
    /\ UNCHANGED <<plugin, helper, pipe, scanner, late, done, ch, dropped, serving, wire, client>>

\* Without a stream the handler itself runs the operation, and answers with a
\* status code: runOrStream and its like.
Respond ==
    /\ op.at = "report" /\ ~op.stream
    /\ wire' = IF client.at = "gone" THEN wire ELSE Append(wire, IF op.failed THEN "error" ELSE "step")
    /\ Goto("end") /\ serving' = FALSE
    /\ UNCHANGED <<plugin, helper, pipe, scanner, late, done, ch, dropped, client>>

Operation ==
    \/ Plain \/ Validate \/ MakeHost \/ StartPlugin \/ WaitPlugin \/ Deployed \/ Torn \/ StopDockerd
    \/ DestroyDataset \/ Report \/ Close \/ Respond

-----------------------------------------------------------------------------
(* The plugin's process: the SDK's runStreaming and Progress *)

Write(line) ==
    /\ Len(pipe) < PipeRoom
    /\ pipe' = Append(pipe, line)
    /\ op' = [op EXCEPT !.wrote = @ + 1]

\* Step, Done, Fail, Complete: the handler emits what it likes.
PluginEmits(line) ==
    /\ plugin.at = "running" /\ plugin.left > 0 /\ Write(line)
    /\ plugin' = [at |-> IF line = "huge" THEN "writing" ELSE "running", left |-> plugin.left - 1]
    /\ UNCHANGED <<helper, scanner, late, done, ch, dropped, serving, wire, client>>

\* It returns nil: the runner emits a "complete" and exits with 0.
PluginSucceeds ==
    /\ plugin.at = "running" /\ Write("step")
    /\ plugin' = [plugin EXCEPT !.at = "exited"]
    /\ UNCHANGED <<helper, scanner, late, done, ch, dropped, serving, wire, client>>

\* It returns an error, emitted or not: exit code 1.
PluginFails ==
    /\ plugin.at = "running"
    /\ plugin' = [plugin EXCEPT !.at = "failed"]
    /\ UNCHANGED <<op, helper, pipe, scanner, late, done, ch, dropped, serving, wire, client>>

HelperStarts ==
    /\ plugin.at = "running" /\ ~helper /\ helper' = TRUE
    /\ UNCHANGED <<op, plugin, pipe, scanner, late, done, ch, dropped, serving, wire, client>>

HelperExits ==
    /\ helper /\ helper' = FALSE
    /\ UNCHANGED <<op, plugin, pipe, scanner, late, done, ch, dropped, serving, wire, client>>

Deadline ==
    /\ op.at = "read" /\ ~late /\ late' = TRUE
    /\ UNCHANGED <<op, plugin, helper, pipe, scanner, done, ch, dropped, serving, wire, client>>

\* Mutant: only a request that ends kills the command.
PatientKill ==
    /\ plugin.at \in {"running", "writing"} /\ done
    /\ plugin' = [plugin EXCEPT !.at = "killed"]
    /\ UNCHANGED <<op, helper, pipe, scanner, late, done, ch, dropped, serving, wire, client>>

\* exec.CommandContext, under the command's timeout and the request's context
Kill ==
    /\ plugin.at \in {"running", "writing"} /\ (late \/ done)
    /\ plugin' = [plugin EXCEPT !.at = "killed"]
    /\ UNCHANGED <<op, helper, pipe, scanner, late, done, ch, dropped, serving, wire, client>>

-----------------------------------------------------------------------------
(* The HTTP handler: streamProgress *)

\* A write to a client that has gone fails, and the loop goes on.
Forward ==
    /\ serving /\ ch # <<>>
    /\ ch' = Tail(ch)
    /\ IF client.at \in {"gone", "error"} THEN UNCHANGED wire
       ELSE Len(wire) < WireRoom /\ wire' = Append(wire, Head(ch))
    /\ UNCHANGED <<opVars, done, dropped, serving, client>>

EndStream ==
    /\ serving /\ ch = <<>> /\ op.closed
    /\ serving' = FALSE
    /\ UNCHANGED <<opVars, done, ch, dropped, wire, client>>

\* The server's five-minute timeout
RequestTimeout ==
    /\ serving /\ ~done /\ done' = TRUE
    /\ UNCHANGED <<opVars, ch, dropped, serving, wire, client>>

-----------------------------------------------------------------------------
(* The client: streamRequest, or do *)

\* A line its scanner does not take ends the request with an error.  What it
\* keeps is the message of the last error event, and whether that is empty.
ClientReads ==
    /\ client.at = "reading" /\ wire # <<>>
    /\ wire' = Tail(wire)
    /\ IF Head(wire) = "wide"
       THEN client' = [client EXCEPT !.at = "error"] /\ done' = TRUE
       ELSE /\ client' = [client EXCEPT !.sawError =
                             (@ /\ Head(wire) # "hollow") \/ Head(wire) = "error"]
            /\ UNCHANGED done
    /\ UNCHANGED <<opVars, ch, dropped, serving>>

ClientConcludes ==
    /\ client.at = "reading" /\ wire = <<>> /\ ~serving
    /\ client' = [client EXCEPT !.at = IF client.sawError THEN "error" ELSE "ok"]
    /\ UNCHANGED <<opVars, done, ch, dropped, serving, wire>>

ClientStalls ==
    /\ client.at = "reading" /\ client' = [client EXCEPT !.at = "stalled"]
    /\ UNCHANGED <<opVars, done, ch, dropped, serving, wire>>

ClientResumes ==
    /\ client.at = "stalled" /\ client' = [client EXCEPT !.at = "reading"]
    /\ UNCHANGED <<opVars, done, ch, dropped, serving, wire>>

\* The server notices and ends the request's context.
ClientLeaves ==
    /\ client.at \in {"reading", "stalled"} /\ serving
    /\ client' = [client EXCEPT !.at = "gone"] /\ done' = TRUE /\ wire' = <<>>
    /\ UNCHANGED <<opVars, ch, dropped, serving>>

-----------------------------------------------------------------------------
Daemon == Operation \/ ScanLine \/ ScanEnd \/ Kill \/ Forward \/ EndStream

Next ==
    \/ Daemon
    \/ \E line \in Lines : PluginEmits(line)
    \/ PluginSucceeds \/ PluginFails \/ HelperStarts \/ HelperExits
    \/ Deadline \/ RequestTimeout
    \/ ClientReads \/ ClientConcludes \/ ClientStalls \/ ClientResumes \/ ClientLeaves

Spec == Init /\ [][Next]_vars

\* The daemon's goroutines go on, deadlines come, and a client that has not
\* stalled reads.  Plugins may hang and helpers live for ever.
FairSpec ==
    /\ Spec
    /\ WF_vars(Operation) /\ WF_vars(ScanLine \/ ScanEnd) /\ WF_vars(Kill)
    /\ WF_vars(Forward \/ EndStream) /\ WF_vars(Deadline)
    /\ WF_vars(ClientReads \/ ClientConcludes)

-----------------------------------------------------------------------------
(* Properties *)

\* A client that has read the stream to its end without an "error" event may
\* believe the operation succeeded, unless events were dropped: whatever step
\* failed, and whatever the plugin wrote, some event says so (runOrStream,
\* streamRequest).
HonestSuccess == client.at = "ok" /\ ~dropped => ~op.failed

\* "Returns an error if the operation failed" (client.go): also when the channel
\* was full while the client did not read.
FailureReported == client.at = "ok" => ~op.failed

\* When RunStream returns, every line the plugin wrote before it exited or
\* was killed has been delivered, the final event included, unless one
\* was too long (the order of wg.Wait and cmd.Wait in RunStream).
LinesDelivered ==
    [][op.at = "read" /\ op'.at # "read" /\ scanner # "overrun" => op.passed = op.wrote]_vars

\* No pace of the client, no hanging or blocked plugin keeps an operation from
\* ending; only a process that holds the plugin's output open for ever does
\* (RunStream has no WaitDelay, and Emit never blocks).
OperationEnds == <>(op.at = "end") \/ <>[]helper

\* A client that does not leave, and does not stall again and again, learns how
\* the operation ended, unless such a process lives for ever.
ReaderLearns ==
    <>(client.at \in {"ok", "error", "gone"}) \/ []<>(client.at = "stalled") \/ <>[]helper
=============================================================================
