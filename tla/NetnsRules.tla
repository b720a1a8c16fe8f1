------------------------------ MODULE NetnsRules ------------------------------
(***************************************************************************)
(* SetupNetns and TeardownNetns (internal/dockerd/netns.go) as dockerd's   *)
(* Start and Stop call them: one step per command, or per group of         *)
(* commands with the same clean-up.  Every instance adds rules to chains   *)
(* all instances share, and removes them by the line numbers of an earlier *)
(* listing, one command per rule, while other instances start and stop.    *)
(* Two teardowns that overlap delete each other's rules, and so does one   *)
(* whose comment is part of another's: the properties say of these two     *)
(* cases how far the damage goes, and that there is no third.              *)
(*                                                                         *)
(* External: ip and iptables.  "iptables -A" appends, "-D" takes a line    *)
(* number.  Calls for one instance do not overlap (InstanceManager says    *)
(* when clients see to that); calls for different instances do.            *)
(***************************************************************************)
EXTENDS Naturals, FiniteSets, SequencesExt

CONSTANTS
    Names,      \* instances
    Alike,      \* pairs <<m, n>>, m # n: n's comment contains m's
    Faults,     \* the kinds of command that may fail, and "cancel"
    MaxFaults   \* bound on the commands that fail and the calls cancelled

FaultKinds == {"link", "configure", "rule", "unit", "list", "delete", "cancel"}

ASSUME AlikeAssumption == Alike \subseteq Names \X Names
ASSUME FaultsAssumption == Faults \subseteq FaultKinds /\ MaxFaults \in Nat

VARIABLES
    netns,   \* instances whose network namespace exists
    veth,    \* instances whose veth pair exists
    chain,   \* the rules of each chain, in order
    up,      \* instances whose Start succeeded and whose dockerd runs
    call,    \* the Start or Stop of each instance
    faults

(* History, which no guard reads. *)
VARIABLES
    shifted,   \* of each teardown, the chains in which another's deletion moved
               \* a line it had listed and not yet deleted
    cut        \* instances one of whose rules failed to be added, or went in a
               \* teardown that was shifted or is of a name alike

history == <<shifted, cut>>
vars == <<netns, veth, chain, up, call, faults, history>>

Chains == {"POSTROUTING", "FORWARD"}
Kinds == {"masquerade", "out", "back"}
Rule == [of : Names, kind : Kinds]
ChainOf(kind) == IF kind = "masquerade" THEN "POSTROUTING" ELSE "FORWARD"

\* A call: its next step, the chain it sweeps, the line numbers it has still to
\* delete there, whether its context is done, and whether an iptables command of
\* this teardown failed.
SetupSteps == {"link", "configure", "masquerade", "out", "back", "unit"}
TeardownSteps == {"list", "delete", "unlink"}
Call == [at : {"idle"} \cup SetupSteps \cup TeardownSteps, chain : Chains,
         lines : SUBSET Nat, cancelled : BOOLEAN, missed : BOOLEAN]
NoCall == [at |-> "idle", chain |-> "POSTROUTING", lines |-> {},
           cancelled |-> FALSE, missed |-> FALSE]

Init ==
    /\ netns = {} /\ veth = {} /\ up = {}
    /\ chain = [c \in Chains |-> <<>>]
    /\ call = [n \in Names |-> NoCall]
    /\ faults = 0
    /\ shifted = [n \in Names |-> {}] /\ cut = {}

Goto(n, step) == call' = [call EXCEPT ![n].at = step]
Return(n) == call' = [call EXCEPT ![n] = NoCall]

CmdWorks(n) == ~call[n].cancelled /\ UNCHANGED faults
CmdFails(n, kind) ==
    \/ call[n].cancelled /\ UNCHANGED faults
    \/ ~call[n].cancelled /\ kind \in Faults /\ faults < MaxFaults /\ faults' = faults + 1

-----------------------------------------------------------------------------
(* SetupNetns *)

\* "ip netns add" fails if the namespace exists: Start returns an error.
AddNetns(n) ==
    /\ call[n].at = "idle" /\ n \notin up /\ n \notin netns
    /\ netns' = netns \cup {n}
    /\ cut' = cut \ {n}
    /\ Goto(n, "link")
    /\ UNCHANGED <<veth, chain, up, faults, shifted>>

\* The clean-up runs under the context of the call, too.
AddLink(n) ==
    /\ call[n].at = "link"
    /\ \/ CmdWorks(n) /\ veth' = veth \cup {n} /\ Goto(n, "configure") /\ UNCHANGED netns
       \/ /\ CmdFails(n, "link")
          /\ netns' = IF call[n].cancelled THEN netns ELSE netns \ {n}
          /\ Return(n) /\ UNCHANGED veth
    /\ UNCHANGED <<chain, up, history>>

\* Eight commands from the move of the peer to the default route.
Configure(n) ==
    /\ call[n].at = "configure"
    /\ \/ CmdWorks(n) /\ Goto(n, "masquerade") /\ UNCHANGED <<netns, veth>>
       \/ /\ CmdFails(n, "configure")
          /\ netns' = IF call[n].cancelled THEN netns ELSE netns \ {n}
          /\ veth' = IF call[n].cancelled THEN veth ELSE veth \ {n}
          /\ Return(n)
    /\ UNCHANGED <<chain, up, history>>

\* Mutant: rules are inserted at the head of the chain (iptables -I).
InsertRule(n, kind, next) ==
    /\ call[n].at = kind
    /\ \/ /\ CmdWorks(n)
          /\ chain' = [chain EXCEPT ![ChainOf(kind)] = <<[of |-> n, kind |-> kind]>> \o @]
          /\ UNCHANGED cut
       \/ /\ CmdFails(n, "rule") /\ UNCHANGED chain
          /\ cut' = IF call[n].cancelled THEN cut ELSE cut \cup {n}
    /\ Goto(n, next)
    /\ UNCHANGED <<netns, veth, up, shifted>>

\* A rule that cannot be added is a warning at most.
AddRule(n, kind, next) ==
    /\ call[n].at = kind
    /\ \/ /\ CmdWorks(n)
          /\ chain' = [chain EXCEPT ![ChainOf(kind)] = Append(@, [of |-> n, kind |-> kind])]
          /\ UNCHANGED cut
       \/ /\ CmdFails(n, "rule") /\ UNCHANGED chain
          /\ cut' = IF call[n].cancelled THEN cut ELSE cut \cup {n}
    /\ Goto(n, next)
    /\ UNCHANGED <<netns, veth, up, shifted>>

\* The rest of Start: systemd-run and the wait for the socket.  On failure the
\* namespace and the rules stay.
StartUnit(n) ==
    /\ call[n].at = "unit"
    /\ \/ CmdWorks(n) /\ up' = up \cup {n}
       \/ CmdFails(n, "unit") /\ UNCHANGED up
    /\ Return(n)
    /\ UNCHANGED <<netns, veth, chain, history>>

-----------------------------------------------------------------------------
(* TeardownNetns *)

\* Stop, of an instance that runs or of the remains of a failed start: the
\* dockerd goes first, by systemd or by its pid.
StopUnit(n) ==
    /\ call[n].at = "idle" /\ n \in netns \cup up
    /\ up' = up \ {n} /\ cut' = cut \ {n}
    /\ call' = [call EXCEPT ![n].at = "list"]
    /\ UNCHANGED <<netns, veth, chain, faults, shifted>>

\* strings.Contains(line, comment)
Matches(n, rule) == rule.of = n \/ <<n, rule.of>> \in Alike

\* Mutant: the listing stops at the first match.
FirstLines(n, s) ==
    {i \in DOMAIN s : Matches(n, s[i]) /\ \A j \in DOMAIN s : Matches(n, s[j]) => i <= j}

Lines(n, s) == {i \in DOMAIN s : Matches(n, s[i])}

\* The step after chain c has been dealt with: the nat table comes first.
Swept(c) == IF c = "POSTROUTING" THEN "list" ELSE "unlink"

\* A listing that fails ends the work on its chain, without a word.
List(n) ==
    LET c == call[n].chain IN
    /\ call[n].at = "list"
    /\ \/ /\ CmdWorks(n)
          /\ call' = [call EXCEPT ![n].at = "delete", ![n].lines = Lines(n, chain[c])]
       \/ /\ CmdFails(n, "list")
          /\ call' = [call EXCEPT ![n].at = Swept(c), ![n].chain = "FORWARD", ![n].missed = TRUE]
    /\ UNCHANGED <<netns, veth, chain, up, history>>

WithoutLine(s, i) == IF i \in DOMAIN s THEN RemoveAt(s, i) ELSE s

\* What the deletion of line i of a chain means to others: the teardowns that
\* still have to delete at it or behind it are shifted ...
Shifts(n, i) ==
    LET c == call[n].chain IN
    {m \in Names \ {n} : /\ call[m].at = "delete" /\ call[m].chain = c /\ i \in DOMAIN chain[c]
                         /\ \E j \in call[m].lines : i <= j}

\* ... and an instance that starts or runs may lose a rule to a teardown that is
\* shifted, or of a name alike.
Cuts(n, i) ==
    LET c == call[n].chain IN
    {m \in Names \ {n} : /\ m \in up \/ call[m].at \in SetupSteps
                         /\ i \in DOMAIN chain[c] /\ chain[c][i].of = m
                         /\ (c \in shifted[n] \/ <<n, m>> \in Alike)}

DeleteLine(n, i) ==
    LET c == call[n].chain IN
    /\ chain' = [chain EXCEPT ![c] = WithoutLine(@, i)]
    /\ call' = [call EXCEPT ![n].lines = @ \ {i}]
    /\ shifted' = [m \in Names |-> IF m \in Shifts(n, i) THEN shifted[m] \cup {c} ELSE shifted[m]]
    /\ cut' = cut \cup Cuts(n, i)

\* Mutant: in the order of the listing.
DeleteForwards(n) ==
    /\ call[n].at = "delete"
    /\ \E i \in call[n].lines :
          /\ \A j \in call[n].lines : i <= j
          /\ CmdWorks(n) /\ DeleteLine(n, i)
    /\ UNCHANGED <<netns, veth, up>>

\* The listed lines in reverse order, one command each; errors are ignored.
Delete(n) ==
    /\ call[n].at = "delete"
    /\ \E i \in call[n].lines :
          /\ \A j \in call[n].lines : j <= i
          /\ \/ CmdWorks(n) /\ DeleteLine(n, i)
             \/ /\ CmdFails(n, "delete")
                /\ call' = [call EXCEPT ![n].lines = @ \ {i}, ![n].missed = TRUE]
                /\ UNCHANGED <<chain, history>>
    /\ UNCHANGED <<netns, veth, up>>

\* All listed lines have been dealt with.
EndDelete(n) ==
    /\ call[n].at = "delete" /\ call[n].lines = {}
    /\ call' = [call EXCEPT ![n].at = Swept(call[n].chain), ![n].chain = "FORWARD"]
    /\ UNCHANGED <<netns, veth, chain, up, faults, history>>

\* link del and netns del; their errors are ignored.
Unlink(n) ==
    /\ call[n].at = "unlink"
    /\ netns' = IF call[n].cancelled THEN netns ELSE netns \ {n}
    /\ veth' = IF call[n].cancelled THEN veth ELSE veth \ {n}
    /\ shifted' = [shifted EXCEPT ![n] = {}]
    /\ Return(n)
    /\ UNCHANGED <<chain, up, faults, cut>>

-----------------------------------------------------------------------------
\* The context of a call ends: every command after that fails.
Cancel(n) ==
    /\ call[n].at # "idle" /\ ~call[n].cancelled
    /\ "cancel" \in Faults /\ faults < MaxFaults /\ faults' = faults + 1
    /\ call' = [call EXCEPT ![n].cancelled = TRUE]
    /\ UNCHANGED <<netns, veth, chain, up, history>>

Setup(n) ==
    \/ AddNetns(n) \/ AddLink(n) \/ Configure(n)
    \/ AddRule(n, "masquerade", "out") \/ AddRule(n, "out", "back") \/ AddRule(n, "back", "unit")
    \/ StartUnit(n)

Teardown(n) == StopUnit(n) \/ List(n) \/ Delete(n) \/ EndDelete(n) \/ Unlink(n)

Next == \E n \in Names : Setup(n) \/ Teardown(n) \/ Cancel(n)

Spec == Init /\ [][Next]_vars

-----------------------------------------------------------------------------
(* Properties *)

TypeOK ==
    /\ netns \subseteq Names /\ veth \subseteq Names /\ up \subseteq Names
    /\ chain \in [Chains -> Seq(Rule)]
    /\ call \in [Names -> Call]
    /\ faults \in 0 .. MaxFaults
    /\ shifted \in [Names -> SUBSET Chains] /\ cut \subseteq Names

RulesOf(n, c) == {i \in DOMAIN chain[c] : chain[c][i].of = n}

HasRules(n) ==
    \A kind \in Kinds :
        \E i \in DOMAIN chain[ChainOf(kind)] : chain[ChainOf(kind)][i] = [of |-> n, kind |-> kind]

\* An instance that runs has its way to the outside: each of the rules its
\* set-up added is in place, unless the command failed or the rule has gone in
\* another's teardown that was shifted or has a name alike.  Nothing else may
\* cost it a rule: not its own earlier teardowns, which deleted by the numbers
\* of an old listing, and not those of others while it and others added rules
\* (AddRule's -A, removeIptablesRulesByComment's reverse order).
RunningHasRules == \A n \in up \ cut : HasRules(n)

\* A teardown none of whose iptables commands failed leaves no rule of its
\* instance in a chain in which no other moved its lines, those included that
\* an earlier teardown failed to delete (removeIptablesRulesByComment).
TeardownSweeps ==
    \A n \in Names, c \in Chains :
        call[n].at = "unlink" /\ ~call[n].missed /\ c \notin shifted[n] => RulesOf(n, c) = {}

\* A rule goes in a teardown of its own instance, in one of an instance with a
\* name alike, or in one whose line numbers another's deletion in that chain has
\* moved since it listed them; in no other step of any call.
OthersRulesStay ==
    [][\A n \in Names, c \in Chains :
          \/ Cardinality(RulesOf(n, c)) <= Cardinality(RulesOf(n, c)')
          \/ \E m \in Names : /\ call[m].at = "delete" /\ call[m].chain = c /\ call'[m] # call[m]
                              /\ (m = n \/ <<m, n>> \in Alike \/ c \in shifted[m])]_vars

\* "Isolation: Instances cannot interfere with each other" (docs/DESIGN.md:370):
\* an instance that runs has its rules.
Isolation == \A n \in up : HasRules(n)
=============================================================================
