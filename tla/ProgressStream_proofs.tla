------------------------- MODULE ProgressStream_proofs -------------------------
(***************************************************************************)
(* What the client of ProgressStream may conclude, for any capacity of the *)
(* channel, the pipe and the connection and any number of lines.  PipeInv  *)
(* counts the lines between the plugin and RunStream; EndInv follows the   *)
(* last event from the operation's goroutine to the client, through a      *)
(* channel and a connection that keep its place behind all others.         *)
(***************************************************************************)
EXTENDS ProgressStream, SequenceTheorems, TLAPS

StreamTypeOK ==
    /\ op \in Op /\ plugin \in Plugin /\ helper \in BOOLEAN
    /\ pipe \in Seq(Lines) /\ scanner \in {"off", "on", "overrun"}
    /\ late \in BOOLEAN /\ done \in BOOLEAN
    /\ ch \in Seq(Lines) /\ dropped \in BOOLEAN
    /\ serving \in BOOLEAN /\ wire \in Seq(Lines)
    /\ client \in Client

\* No line is lost between the plugin and a scanner that has not given up, and
\* nothing is written outside of a run.
PipeInv ==
    /\ scanner = "on" => op.at = "read"
    /\ op.at # "read" => pipe = <<>> /\ plugin.at \notin {"running", "writing"}
    /\ op.at = "read" /\ scanner # "overrun" => op.wrote = op.passed + Len(pipe)
    /\ op.at = "read" /\ scanner = "off" => pipe = <<>> /\ Gone

\* The last event that is still under way, or the last the client has read, is
\* an error.
LastError ==
    IF ch # <<>> THEN ch[Len(ch)] = "error"
    ELSE IF wire # <<>> THEN wire[Len(wire)] = "error"
    ELSE client.sawError

EndInv ==
    /\ op.closed => op.at = "end"
    /\ ~serving => op.at = "end" /\ ch = <<>>
    /\ ~op.stream => ch = <<>>
    /\ client.at = "ok" => ~serving
    /\ op.at \in {"close", "end"} /\ op.failed /\ ~dropped /\ client.at \notin {"gone", "error"} =>
          LastError /\ client.at # "ok"

StreamInv == StreamTypeOK /\ PipeInv /\ EndInv

-----------------------------------------------------------------------------
(* Sequences of lines *)

LEMMA AppendLast ==
  ASSUME NEW s \in Seq(Lines), NEW e \in Lines
  PROVE  /\ Append(s, e) \in Seq(Lines) /\ Append(s, e) # <<>>
         /\ Len(Append(s, e)) = Len(s) + 1 /\ Len(s) \in Nat
         /\ Append(s, e)[Len(Append(s, e))] = e
BY LenProperties

LEMMA TailLast ==
  ASSUME NEW s \in Seq(Lines), s # <<>>
  PROVE  /\ Head(s) \in Lines /\ Tail(s) \in Seq(Lines)
         /\ Len(s) \in Nat /\ Len(Tail(s)) = Len(s) - 1
         /\ Tail(s) # <<>> => Tail(s)[Len(Tail(s))] = s[Len(s)]
         /\ Tail(s) = <<>> => s[Len(s)] = Head(s)
<1>1. Head(s) \in Lines /\ Tail(s) \in Seq(Lines) /\ Len(Tail(s)) = Len(s) - 1
      /\ \A i \in 1 .. Len(Tail(s)) : Tail(s)[i] = s[i + 1]
  BY HeadTailProperties
<1>2. Len(s) \in Nat \ {0} /\ Head(s) = s[1]
  BY EmptySeq
<1>3. ASSUME Tail(s) # <<>>
      PROVE  Tail(s)[Len(Tail(s))] = s[Len(s)]
  <2>1. Len(Tail(s)) \in Nat \ {0}
    BY <1>1, <1>3, EmptySeq
  <2>2. Len(Tail(s)) \in 1 .. Len(Tail(s)) /\ Len(Tail(s)) + 1 = Len(s)
    BY <1>1, <1>2, <2>1
  <2> QED
    BY <1>1, <2>2
<1>4. ASSUME Tail(s) = <<>>
      PROVE  s[Len(s)] = Head(s)
  <2>0. Len(Tail(s)) = 0
    BY <1>4, EmptySeq
  <2>1. Len(s) \in Nat /\ Len(Tail(s)) = Len(s) - 1
    BY <1>1, <1>2
  <2>2. Len(s) = 1
    BY <2>0, <2>1
  <2> QED
    BY <1>2, <2>2
<1> QED
  BY <1>1, <1>2, <1>3, <1>4

\* An event goes to the end of the channel, or is counted as dropped.
LEMMA EmitType ==
  ASSUME StreamTypeOK, NEW e \in Lines, Emit(e) \/ Quiet
  PROVE  /\ ch' \in Seq(Lines) /\ dropped' \in BOOLEAN
         /\ ~op.stream => ch' = ch
         /\ dropped => dropped'
BY AppendLast DEF StreamTypeOK, Emit, Quiet

-----------------------------------------------------------------------------
(* The operation *)

\* A step of the operation between two runs and before its end.
Between ==
    /\ op' \in Op /\ op.at \notin {"read", "report", "close", "end"}
    /\ op'.at \notin {"read", "close", "end"}
    /\ op'.stream = op.stream /\ op'.closed = op.closed
    /\ ch' \in Seq(Lines) /\ dropped' \in BOOLEAN /\ (~op.stream => ch' = ch)
    /\ UNCHANGED <<plugin, helper, pipe, scanner, late, done, serving, wire, client>>

LEMMA BetweenKeeps ==
  ASSUME StreamInv, Between
  PROVE  StreamInv'
BY DEF Between, StreamInv, StreamTypeOK, PipeInv, EndInv, Gone

LEMMA IsBetween ==
  ASSUME StreamInv,
         \/ Plain \/ Validate \/ MakeHost \/ Deployed \/ Torn \/ StopDockerd \/ DestroyDataset
  PROVE  Between
<1>0. op \in Op /\ StreamTypeOK
  BY DEF StreamInv, StreamTypeOK
<1>1. CASE Plain
  BY <1>0, <1>1, EmitType DEF Plain, Between, Op, Lines
<1>2. CASE Validate
  BY <1>0, <1>2, EmitType DEF Validate, Between, Op, Goto, Lines
<1>3. CASE MakeHost
  BY <1>0, <1>3, EmitType DEF MakeHost, Between, Op, Goto, Lines
<1>4. CASE Deployed
  BY <1>0, <1>4, EmitType DEF Deployed, Between, Op, Lines
<1>5. CASE Torn
  BY <1>0, <1>5, EmitType DEF Torn, Between, Op, Lines
<1>6. CASE StopDockerd
  BY <1>0, <1>6, EmitType DEF StopDockerd, Between, Op, Goto, Lines
<1>7. CASE DestroyDataset
  BY <1>0, <1>7, EmitType DEF DestroyDataset, Between, Op, Lines
<1> QED
  BY <1>1, <1>2, <1>3, <1>4, <1>5, <1>6, <1>7

\* Where a hook leaves the operation.
LEMMA AfterType ==
  ASSUME StreamTypeOK, NEW failed \in BOOLEAN, After(op.hook, failed)
  PROVE  /\ op' \in Op /\ op'.at \in {"torn", "run", "deployed"}
         /\ op'.stream = op.stream /\ op'.closed = op.closed
         /\ op'.wrote = op.wrote /\ op'.passed = op.passed
         /\ ch' \in Seq(Lines) /\ dropped' \in BOOLEAN /\ (~op.stream => ch' = ch)
<1>1. op \in Op
  BY DEF StreamTypeOK
<1>2. /\ op' \in Op /\ op'.at \in {"torn", "run", "deployed"}
      /\ op'.stream = op.stream /\ op'.closed = op.closed
      /\ op'.wrote = op.wrote /\ op'.passed = op.passed
  BY <1>1 DEF After, Op
<1>3. "error" \in Lines /\ (Emit("error") \/ Quiet)
  BY DEF After, Lines
<1> QED
  BY <1>2, <1>3, EmitType

LEMMA StartPluginKeeps == StreamInv /\ StartPlugin => StreamInv'
<1> SUFFICES ASSUME StreamInv, StartPlugin
             PROVE  StreamInv'
  OBVIOUS
<1>0. StreamTypeOK /\ op \in Op /\ op.at = "run" /\ MaxLines \in Nat
  BY RoomAssumption DEF StreamInv, StreamTypeOK, StartPlugin
<1>1. CASE /\ plugin' = [at |-> "running", left |-> MaxLines]
           /\ scanner' = "on" /\ late' = FALSE
           /\ op' = [op EXCEPT !.at = "read", !.wrote = 0, !.passed = 0]
           /\ Quiet
  <2>1. /\ op' \in Op /\ op'.at = "read" /\ op'.wrote = 0 /\ op'.passed = 0
        /\ op'.stream = op.stream /\ op'.closed = op.closed
    BY <1>0, <1>1 DEF Op
  <2>2. plugin' \in Plugin
    BY <1>0, <1>1 DEF Plugin
  <2>3. UNCHANGED <<helper, pipe, done, serving, wire, client, ch, dropped>> /\ pipe = <<>>
    BY <1>0, <1>1 DEF StartPlugin, Quiet, StreamInv, PipeInv
  <2>4. Len(<<>>) = 0
    BY EmptySeq
  <2>5. StreamTypeOK'
    BY <1>0, <1>1, <2>1, <2>2, <2>3 DEF StreamTypeOK
  <2>6. PipeInv'
    BY <1>1, <2>1, <2>3, <2>4 DEF PipeInv
  <2>7. EndInv'
    BY <1>0, <2>1, <2>3 DEF StreamInv, EndInv
  <2> QED
    BY <2>5, <2>6, <2>7 DEF StreamInv
<1>2. CASE After(op.hook, TRUE) /\ UNCHANGED <<plugin, scanner, late>>
  <2>1. Between
    BY <1>0, <1>2, AfterType DEF StartPlugin, Between
  <2> QED
    BY <2>1, BetweenKeeps
<1> QED
  BY <1>1, <1>2 DEF StartPlugin

LEMMA WaitPluginKeeps == StreamInv /\ WaitPlugin => StreamInv'
<1> SUFFICES ASSUME StreamInv, WaitPlugin
             PROVE  StreamInv'
  OBVIOUS
<1>1. /\ op' \in Op /\ op'.at \in {"torn", "run", "deployed"}
      /\ op'.stream = op.stream /\ op'.closed = op.closed
      /\ ch' \in Seq(Lines) /\ dropped' \in BOOLEAN /\ (~op.stream => ch' = ch)
  BY AfterType DEF StreamInv, WaitPlugin
<1>2. /\ op.at = "read" /\ Gone /\ pipe' = <<>> /\ scanner # "on"
      /\ UNCHANGED <<plugin, helper, scanner, late, done, serving, wire, client>>
  BY DEF WaitPlugin
<1>3. <<>> \in Seq(Lines)
  BY EmptySeq
<1>4. StreamTypeOK'
  BY <1>1, <1>2, <1>3 DEF StreamInv, StreamTypeOK
<1>5. PipeInv'
  BY <1>1, <1>2 DEF PipeInv, Gone
<1>6. EndInv'
  BY <1>1, <1>2 DEF StreamInv, EndInv
<1> QED
  BY <1>4, <1>5, <1>6 DEF StreamInv

\* The error that ends the operation is the last event, or was dropped.
LEMMA ReportKeeps == StreamInv /\ Report => StreamInv'
<1> SUFFICES ASSUME StreamInv, Report
             PROVE  StreamInv'
  OBVIOUS
<1>0. StreamTypeOK /\ op \in Op /\ op.at = "report" /\ op.stream
  BY DEF StreamInv, StreamTypeOK, Report
<1>1. /\ op' \in Op /\ op'.at = "close" /\ op'.stream /\ op'.closed = op.closed
      /\ op'.failed = op.failed
  BY <1>0 DEF Report, Goto, Op
<1>2. UNCHANGED <<plugin, helper, pipe, scanner, late, done, serving, wire, client>>
  BY DEF Report
<1>3. ch' \in Seq(Lines) /\ dropped' \in BOOLEAN
  BY <1>0, EmitType DEF Report, Lines
<1>4. StreamTypeOK'
  BY <1>1, <1>2, <1>3 DEF StreamInv, StreamTypeOK
<1>5. PipeInv'
  BY <1>0, <1>1, <1>2 DEF StreamInv, PipeInv
<1>6. op.failed /\ ~dropped' => ch' # <<>> /\ ch'[Len(ch')] = "error"
  <2> SUFFICES ASSUME op.failed, ~dropped'
               PROVE  ch' # <<>> /\ ch'[Len(ch')] = "error"
    OBVIOUS
  <2>1. ch' = Append(ch, "error")
    BY <1>0 DEF Report, Emit
  <2> QED
    BY <1>0, <2>1, AppendLast DEF StreamTypeOK, Lines
<1>7. serving /\ client.at # "ok" /\ ~op.closed
  BY <1>0 DEF StreamInv, EndInv
<1>8. EndInv'
  BY <1>0, <1>1, <1>2, <1>6, <1>7 DEF EndInv, LastError
<1> QED
  BY <1>4, <1>5, <1>8 DEF StreamInv

LEMMA CloseKeeps == StreamInv /\ Close => StreamInv'
<1> SUFFICES ASSUME StreamInv, Close
             PROVE  StreamInv'
  OBVIOUS
<1>1. op.at = "close" /\ op' = [op EXCEPT !.at = "end", !.closed = TRUE] /\ op \in Op
  BY DEF StreamInv, StreamTypeOK, Close
<1>2. /\ op' \in Op /\ op'.at = "end" /\ op'.stream = op.stream /\ op'.failed = op.failed
  BY <1>1 DEF Op
<1>3. UNCHANGED <<plugin, helper, pipe, scanner, late, done, ch, dropped, serving, wire, client>>
  BY DEF Close
<1> QED
  BY <1>1, <1>2, <1>3 DEF StreamInv, StreamTypeOK, PipeInv, EndInv, LastError

LEMMA RespondKeeps == StreamInv /\ Respond => StreamInv'
<1> SUFFICES ASSUME StreamInv, Respond
             PROVE  StreamInv'
  OBVIOUS
<1>0. StreamTypeOK /\ op \in Op /\ op.at = "report" /\ ~op.stream /\ ch = <<>>
  BY DEF StreamInv, StreamTypeOK, EndInv, Respond
<1>1. /\ op' \in Op /\ op'.at = "end" /\ op'.stream = op.stream /\ op'.failed = op.failed
      /\ serving' = FALSE
  BY <1>0 DEF Respond, Goto, Op
<1>2. UNCHANGED <<plugin, helper, pipe, scanner, late, done, ch, dropped, client>>
  BY DEF Respond
<1>3. /\ wire' \in Seq(Lines)
      /\ client.at # "gone" /\ op.failed => wire' # <<>> /\ wire'[Len(wire')] = "error"
  BY <1>0, AppendLast DEF Respond, StreamTypeOK, Lines
<1>4. serving /\ client.at # "ok"
  BY <1>0 DEF StreamInv, EndInv
<1>5. StreamTypeOK'
  BY <1>1, <1>2, <1>3 DEF StreamInv, StreamTypeOK
<1>6. PipeInv'
  BY <1>0, <1>1, <1>2 DEF StreamInv, PipeInv
<1>7. EndInv'
  BY <1>0, <1>1, <1>2, <1>3, <1>4 DEF EndInv, LastError
<1> QED
  BY <1>5, <1>6, <1>7 DEF StreamInv

-----------------------------------------------------------------------------
(* The scanner and the plugin's process *)

LEMMA ScanLineKeeps == StreamInv /\ ScanLine => StreamInv'
<1> SUFFICES ASSUME StreamInv, ScanLine
             PROVE  StreamInv'
  OBVIOUS
<1>0. /\ StreamTypeOK /\ op \in Op /\ plugin \in Plugin /\ scanner = "on" /\ op.at = "read"
      /\ pipe' = Tail(pipe) /\ UNCHANGED <<helper, late, done, serving, wire, client>>
  BY DEF StreamInv, StreamTypeOK, PipeInv, ScanLine
<1>1. Head(pipe) \in Lines /\ pipe' \in Seq(Lines) /\ Len(pipe) \in Nat /\ Len(pipe') = Len(pipe) - 1
  BY <1>0, TailLast DEF StreamTypeOK, ScanLine
<1>2. CASE Head(pipe) = "huge"
  <2>1. /\ scanner' = "overrun" /\ UNCHANGED <<ch, dropped, op>>
        /\ plugin' \in {plugin, [plugin EXCEPT !.at = IF @ = "writing" THEN "running" ELSE @]}
    BY <1>2 DEF ScanLine, Quiet
  <2>2. plugin' \in Plugin
    BY <1>0, <2>1 DEF Plugin
  <2>3. StreamTypeOK'
    BY <1>0, <1>1, <2>1, <2>2 DEF StreamTypeOK
  <2>4. PipeInv'
    BY <1>0, <2>1 DEF PipeInv
  <2>5. EndInv'
    BY <1>0, <2>1 DEF StreamInv, EndInv
  <2> QED
    BY <2>3, <2>4, <2>5 DEF StreamInv
<1>3. CASE Head(pipe) # "huge"
  <2>1. /\ Emit(Head(pipe)) /\ op' = [op EXCEPT !.passed = @ + 1]
        /\ UNCHANGED <<scanner, plugin>>
    BY <1>3 DEF ScanLine
  <2>2. /\ op' \in Op /\ op'.at = "read" /\ op'.wrote = op.wrote /\ op'.passed = op.passed + 1
        /\ op'.stream = op.stream /\ op'.closed = op.closed /\ op.wrote \in Nat /\ op.passed \in Nat
    BY <1>0, <2>1 DEF Op
  <2>3. ch' \in Seq(Lines) /\ dropped' \in BOOLEAN /\ (~op.stream => ch' = ch)
    BY <1>0, <1>1, <2>1, EmitType
  <2>4. StreamTypeOK'
    BY <1>0, <1>1, <2>1, <2>2, <2>3 DEF StreamTypeOK
  <2>5. op'.wrote = op'.passed + Len(pipe')
    BY <1>0, <1>1, <2>2 DEF StreamInv, PipeInv
  <2>6. PipeInv'
    BY <1>0, <2>1, <2>2, <2>5 DEF PipeInv
  <2>7. EndInv'
    BY <1>0, <2>2, <2>3 DEF StreamInv, EndInv
  <2> QED
    BY <2>4, <2>6, <2>7 DEF StreamInv
<1> QED
  BY <1>2, <1>3

\* A step of the plugin's process or of the scanner's end, which the operation's
\* end does not depend on.
LEMMA EndKeeps ==
  ASSUME EndInv, op'.at = op.at, op'.stream = op.stream, op'.closed = op.closed,
         op'.failed = op.failed, UNCHANGED <<ch, dropped, serving, wire, client>>
  PROVE  EndInv'
BY DEF EndInv, LastError

LEMMA WriteKeeps ==
  ASSUME StreamInv, NEW line \in Lines, Write(line), plugin.at = "running",
         plugin' \in Plugin, UNCHANGED <<helper, scanner, late, done, ch, dropped, serving, wire, client>>
  PROVE  StreamInv'
<1>0. /\ op \in Op /\ pipe \in Seq(Lines) /\ op.at = "read"
      /\ pipe' = Append(pipe, line) /\ op' = [op EXCEPT !.wrote = @ + 1]
  BY DEF StreamInv, StreamTypeOK, PipeInv, Write
<1>1. /\ op' \in Op /\ op'.at = "read" /\ op'.wrote = op.wrote + 1 /\ op'.passed = op.passed
      /\ op'.stream = op.stream /\ op'.closed = op.closed /\ op'.failed = op.failed
      /\ op.wrote \in Nat /\ op.passed \in Nat
  <2>1. op.wrote \in Nat /\ op.passed \in Nat
    BY <1>0 DEF Op
  <2> DEFINE w == op.wrote + 1
  <2>2. w \in Nat /\ op' = [op EXCEPT !.wrote = w]
    BY <1>0, <2>1
  <2> HIDE DEF w
  <2>3. op' \in Op
    BY <1>0, <2>2 DEF Op
  <2>4. /\ op'.at = op.at /\ op'.wrote = w /\ op'.passed = op.passed
        /\ op'.stream = op.stream /\ op'.closed = op.closed /\ op'.failed = op.failed
    BY <1>0, <2>2 DEF Op
  <2> QED
    BY <1>0, <2>1, <2>3, <2>4 DEF w
<1>2. pipe' \in Seq(Lines) /\ Len(pipe') = Len(pipe) + 1 /\ Len(pipe) \in Nat
  BY <1>0, AppendLast
<1>3. StreamTypeOK'
  BY <1>1, <1>2 DEF StreamInv, StreamTypeOK
<1>4. scanner # "off"
  BY <1>0 DEF StreamInv, PipeInv, Gone
<1>5. scanner # "overrun" => op'.wrote = op'.passed + Len(pipe')
  BY <1>0, <1>1, <1>2 DEF StreamInv, PipeInv
<1>6. PipeInv'
  BY <1>0, <1>1, <1>4, <1>5 DEF PipeInv
<1>7. EndInv'
  BY <1>0, <1>1, EndKeeps DEF StreamInv
<1> QED
  BY <1>3, <1>6, <1>7 DEF StreamInv

LEMMA ProcessKeeps ==
  ASSUME StreamInv,
         \/ ScanEnd \/ PluginSucceeds \/ PluginFails \/ Kill \/ HelperStarts \/ HelperExits \/ Deadline
         \/ \E line \in Lines : PluginEmits(line)
  PROVE  StreamInv'
<1>0. plugin \in Plugin
  BY DEF StreamInv, StreamTypeOK
<1>1. ASSUME NEW line \in Lines, PluginEmits(line)
      PROVE  StreamInv'
  <2>1. plugin' \in Plugin
    BY <1>0, <1>1, RoomAssumption DEF PluginEmits, Plugin
  <2> QED
    BY <1>1, <2>1, WriteKeeps DEF PluginEmits
<1>2. CASE PluginSucceeds
  <2>1. plugin' \in Plugin
    BY <1>0, <1>2 DEF PluginSucceeds, Plugin
  <2> QED
    BY <1>2, <2>1, WriteKeeps DEF PluginSucceeds, Lines
<1>3. CASE ScanEnd
  <2>1. EndInv'
    BY <1>3, EndKeeps DEF ScanEnd, StreamInv
  <2> QED
    BY <1>3, <2>1 DEF ScanEnd, StreamInv, StreamTypeOK, PipeInv, Gone
<1>4. CASE PluginFails \/ Kill
  <2>1. /\ plugin' \in Plugin /\ plugin'.at \in {"failed", "killed"}
        /\ UNCHANGED <<op, helper, pipe, scanner, late, done, ch, dropped, serving, wire, client>>
    BY <1>0, <1>4 DEF PluginFails, Kill, Plugin
  <2>2. EndInv'
    BY <2>1, EndKeeps DEF StreamInv
  <2> QED
    BY <2>1, <2>2 DEF StreamInv, StreamTypeOK, PipeInv, Gone
<1>5. CASE HelperStarts \/ HelperExits \/ Deadline
  <2>1. /\ helper' \in BOOLEAN /\ late' \in BOOLEAN
        /\ UNCHANGED <<op, plugin, pipe, scanner, done, ch, dropped, serving, wire, client>>
    BY <1>5 DEF HelperStarts, HelperExits, Deadline, StreamInv, StreamTypeOK
  <2>2. EndInv'
    BY <2>1, EndKeeps DEF StreamInv
  <2> QED
    BY <2>1, <2>2 DEF StreamInv, StreamTypeOK, PipeInv, Gone
<1> QED
  BY <1>1, <1>2, <1>3, <1>4, <1>5

-----------------------------------------------------------------------------
(* The HTTP handler and the client *)

LEMMA OpStays ==
  ASSUME PipeInv, UNCHANGED opVars
  PROVE  PipeInv'
BY DEF PipeInv, opVars, Gone

\* The first event of the channel becomes the last of the connection.
LEMMA ForwardKeeps == StreamInv /\ Forward => StreamInv'
<1> SUFFICES ASSUME StreamInv, Forward
             PROVE  StreamInv'
  OBVIOUS
<1>0. /\ ch \in Seq(Lines) /\ ch # <<>> /\ wire \in Seq(Lines) /\ serving
      /\ ch' = Tail(ch) /\ UNCHANGED <<opVars, done, dropped, serving, client>>
  BY DEF StreamInv, StreamTypeOK, Forward
<1>1. /\ ch' \in Seq(Lines) /\ Head(ch) \in Lines
      /\ ch' # <<>> => ch'[Len(ch')] = ch[Len(ch)]
      /\ ch' = <<>> => ch[Len(ch)] = Head(ch)
  BY <1>0, TailLast
<1>2. \/ client.at \in {"gone", "error"} /\ wire' = wire
      \/ wire' = Append(wire, Head(ch))
  BY DEF Forward
<1>3. /\ wire' \in Seq(Lines)
      /\ wire' = wire \/ (wire' # <<>> /\ wire'[Len(wire')] = Head(ch))
  BY <1>0, <1>1, <1>2, AppendLast
<1>4. StreamTypeOK'
  BY <1>0, <1>1, <1>3 DEF StreamInv, StreamTypeOK, opVars
<1>5. PipeInv'
  BY <1>0, OpStays DEF StreamInv
<1>6. op.stream /\ client.at # "ok"
  BY <1>0 DEF StreamInv, EndInv
<1>7. client.at \notin {"gone", "error"} /\ LastError => LastError'
  BY <1>0, <1>1, <1>2, <1>3 DEF LastError
<1>8. EndInv'
  BY <1>0, <1>6, <1>7 DEF StreamInv, EndInv, opVars
<1> QED
  BY <1>4, <1>5, <1>8 DEF StreamInv

LEMMA EndStreamKeeps == StreamInv /\ (EndStream \/ RequestTimeout) => StreamInv'
<1> SUFFICES ASSUME StreamInv, EndStream \/ RequestTimeout
             PROVE  StreamInv'
  OBVIOUS
<1>1. /\ UNCHANGED <<opVars, ch, dropped, wire, client>> /\ done' \in BOOLEAN
      /\ serving /\ (serving' \/ (~serving' /\ ch = <<>> /\ op.closed))
  BY DEF EndStream, RequestTimeout, StreamInv, StreamTypeOK
<1>2. serving' \in BOOLEAN
  BY DEF EndStream, RequestTimeout, StreamInv, StreamTypeOK
<1>3. StreamTypeOK'
  BY <1>1, <1>2 DEF StreamInv, StreamTypeOK, opVars
<1>4. PipeInv'
  BY <1>1, OpStays DEF StreamInv
<1>5. EndInv'
  BY <1>1, <1>2 DEF StreamInv, EndInv, LastError, opVars
<1> QED
  BY <1>3, <1>4, <1>5 DEF StreamInv

\* The client remembers whether the last event it has read was an error.
LEMMA ClientReadsKeeps == StreamInv /\ ClientReads => StreamInv'
<1> SUFFICES ASSUME StreamInv, ClientReads
             PROVE  StreamInv'
  OBVIOUS
<1>0. /\ wire \in Seq(Lines) /\ wire # <<>> /\ client \in Client /\ client.at = "reading"
      /\ wire' = Tail(wire) /\ UNCHANGED <<opVars, ch, dropped, serving>>
  BY DEF StreamInv, StreamTypeOK, ClientReads
<1>1. /\ wire' \in Seq(Lines)
      /\ wire' # <<>> => wire'[Len(wire')] = wire[Len(wire)]
      /\ wire' = <<>> => wire[Len(wire)] = Head(wire)
  BY <1>0, TailLast
<1>2. /\ client' \in Client /\ done' \in BOOLEAN
      /\ \/ client'.at = "error"
         \/ client'.at = "reading" /\ (Head(wire) = "error" => client'.sawError)
  BY <1>0 DEF ClientReads, Client, StreamInv, StreamTypeOK
<1>3. StreamTypeOK'
  BY <1>0, <1>1, <1>2 DEF StreamInv, StreamTypeOK, opVars
<1>4. PipeInv'
  BY <1>0, OpStays DEF StreamInv
<1>5. client'.at # "error" /\ LastError => LastError'
  BY <1>0, <1>1, <1>2 DEF LastError
<1>6. EndInv'
  BY <1>0, <1>2, <1>5 DEF StreamInv, EndInv, opVars
<1> QED
  BY <1>3, <1>4, <1>6 DEF StreamInv

LEMMA ClientKeeps ==
  ASSUME StreamInv, ClientConcludes \/ ClientStalls \/ ClientResumes \/ ClientLeaves
  PROVE  StreamInv'
<1>0. client \in Client /\ UNCHANGED <<opVars, ch, dropped, serving>> /\ done' \in BOOLEAN
  BY DEF StreamInv, StreamTypeOK, ClientConcludes, ClientStalls, ClientResumes, ClientLeaves
<1>1. PipeInv'
  BY <1>0, OpStays DEF StreamInv
<1>2. CASE ClientLeaves
  <2>1. client' \in Client /\ client'.at = "gone" /\ wire' = <<>> /\ <<>> \in Seq(Lines)
    BY <1>0, <1>2, EmptySeq DEF ClientLeaves, Client
  <2> QED
    BY <1>0, <1>1, <2>1 DEF StreamInv, StreamTypeOK, EndInv, opVars
<1>3. CASE ClientStalls \/ ClientResumes
  <2>1. /\ client' \in Client /\ client'.at \in {"stalled", "reading"}
        /\ client'.sawError = client.sawError /\ wire' = wire
        /\ client.at \notin {"gone", "error"}
    BY <1>0, <1>3 DEF ClientStalls, ClientResumes, Client
  <2>2. LastError => LastError'
    BY <1>0, <2>1 DEF LastError
  <2> QED
    BY <1>0, <1>1, <2>1, <2>2 DEF StreamInv, StreamTypeOK, EndInv, opVars
<1>4. CASE ClientConcludes
  <2>1. /\ client' \in Client /\ wire = <<>> /\ wire' = wire /\ ~serving /\ client.at = "reading"
        /\ client'.at = IF client.sawError THEN "error" ELSE "ok"
        /\ client'.sawError = client.sawError
    BY <1>0, <1>4 DEF ClientConcludes, Client
  <2>2. ch = <<>>
    BY <2>1 DEF StreamInv, EndInv
  <2>3. LastError => client.sawError
    BY <2>1, <2>2 DEF LastError
  <2> QED
    BY <1>0, <1>1, <2>1, <2>2, <2>3 DEF StreamInv, StreamTypeOK, EndInv, opVars
<1> QED
  BY <1>2, <1>3, <1>4

-----------------------------------------------------------------------------
LEMMA StreamInvInit == Init => StreamInv
<1> SUFFICES ASSUME Init
             PROVE  StreamInv
  OBVIOUS
<1>1. <<>> \in Seq(Lines) /\ Len(<<>>) = 0
  BY EmptySeq
<1>2. /\ op \in Op /\ op.at = "validate" /\ op.closed = FALSE
  <2>1. PICK k \in Kinds, b \in BOOLEAN :
           op = [kind |-> k, stream |-> b, hook |-> "deploy", failed |-> FALSE, closed |-> FALSE,
                 at |-> "validate", wrote |-> 0, passed |-> 0]
    BY DEF Init
  <2> QED
    BY <2>1 DEF Op
<1>3. plugin \in Plugin /\ plugin.at = "none" /\ client \in Client /\ client.at = "reading"
  BY RoomAssumption DEF Init, Plugin, Client
<1>4. StreamTypeOK
  BY <1>1, <1>2, <1>3 DEF Init, StreamTypeOK
<1>5. PipeInv /\ EndInv
  BY <1>2, <1>3 DEF Init, PipeInv, EndInv
<1> QED
  BY <1>4, <1>5 DEF StreamInv

LEMMA StreamInvStep == StreamInv /\ [Next]_vars => StreamInv'
<1> SUFFICES ASSUME StreamInv, [Next]_vars
             PROVE  StreamInv'
  OBVIOUS
<1>1. CASE Operation
  BY <1>1, IsBetween, BetweenKeeps, StartPluginKeeps, WaitPluginKeeps, ReportKeeps, CloseKeeps,
     RespondKeeps DEF Operation
<1>2. CASE Daemon
  BY <1>1, <1>2, ScanLineKeeps, ProcessKeeps, ForwardKeeps, EndStreamKeeps DEF Daemon
<1>3. CASE UNCHANGED vars
  BY <1>3 DEF vars, opVars, StreamInv, StreamTypeOK, PipeInv, EndInv, LastError, Gone
<1> QED
  BY <1>2, <1>3, ProcessKeeps, EndStreamKeeps, ClientReadsKeeps, ClientKeeps DEF Next

\* RunStream ends a run only when its scanner has.
LEMMA OnlyWaitEnds ==
  ASSUME StreamInv, Next, op.at = "read", op'.at # "read"
  PROVE  scanner # "on"
<1>0. op \in Op
  BY DEF StreamInv, StreamTypeOK
<1>1. ASSUME Operation
      PROVE  WaitPlugin
  BY <1>1 DEF Operation, Plain, Validate, MakeHost, StartPlugin, Deployed, Torn, StopDockerd,
              DestroyDataset, Report, Close, Respond
<1>2. ASSUME ScanLine \/ PluginSucceeds \/ \E line \in Lines : PluginEmits(line)
      PROVE  op'.at = op.at
  BY <1>0, <1>2 DEF ScanLine, PluginSucceeds, PluginEmits, Write, Op
<1>3. ASSUME \/ ScanEnd \/ Kill \/ Forward \/ EndStream \/ PluginFails \/ HelperStarts \/ HelperExits
             \/ Deadline \/ RequestTimeout
             \/ ClientReads \/ ClientConcludes \/ ClientStalls \/ ClientResumes \/ ClientLeaves
      PROVE  op' = op
  BY <1>3 DEF ScanEnd, Kill, Forward, EndStream, PluginFails, HelperStarts, HelperExits, Deadline,
              RequestTimeout, ClientReads, ClientConcludes, ClientStalls, ClientResumes,
              ClientLeaves, opVars
<1> QED
  BY <1>1, <1>2, <1>3 DEF Next, Daemon, WaitPlugin

LEMMA StreamInvariance == Spec => []StreamInv
BY StreamInvInit, StreamInvStep, PTL DEF Spec

\* A client that reads the stream to its end and finds no error in it knows
\* that the operation succeeded, unless Emit dropped an event (runOrStream,
\* streamRequest): for any capacity of the channel and of the connection, any
\* pace of the client and anything the plugin writes, an error with an empty
\* message included.
THEOREM SuccessIsHonest == Spec => []HonestSuccess
<1>1. StreamInv => HonestSuccess
  BY DEF StreamInv, EndInv, HonestSuccess
<1> QED
  BY <1>1, StreamInvariance, PTL

\* RunStream returns only when it has delivered every line the plugin wrote
\* (wg.Wait before cmd.Wait), for a pipe of any size and any number of lines,
\* unless a line of more than 1 MiB made the scanner give up.
THEOREM NoLineIsLost == Spec => LinesDelivered
<1>1. StreamInv /\ [Next]_vars =>
        [op.at = "read" /\ op'.at # "read" /\ scanner # "overrun" => op.passed = op.wrote]_vars
  <2> SUFFICES ASSUME StreamInv, Next, op.at = "read", op'.at # "read", scanner # "overrun"
               PROVE  op.passed = op.wrote
    OBVIOUS
  <2>1. scanner # "on"
    BY OnlyWaitEnds
  <2>2. pipe = <<>> /\ op.wrote = op.passed + Len(pipe) /\ op \in Op
    BY <2>1 DEF StreamInv, StreamTypeOK, PipeInv
  <2> QED
    BY <2>2, EmptySeq DEF Op
<1> QED
  BY <1>1, StreamInvariance, PTL DEF Spec, LinesDelivered
=============================================================================
