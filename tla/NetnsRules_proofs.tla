--------------------------- MODULE NetnsRules_proofs ---------------------------
(***************************************************************************)
(* The shared iptables chains of NetnsRules, for any number of instances   *)
(* that start and stop at the same time, any names that are part of others *)
(* and any commands that fail.  A teardown deletes by the line numbers of  *)
(* an earlier listing.  As long as no other teardown has deleted a line in *)
(* front of its own they stay right, because set-ups only append and it    *)
(* deletes from the highest number down.  TeardownInv says so: unless the  *)
(* teardown is shifted in its chain, the numbers still to delete are those *)
(* of rules the listing matched, and all the rules of the instance itself  *)
(* are among them.  SetupInv says which rules are there at each step of a  *)
(* set-up.                                                                 *)
(***************************************************************************)
EXTENDS NetnsRules, SequenceTheorems, FiniteSetTheorems, FunctionTheorems, TLAPS

\* What a teardown that missed nothing has dealt with and has still to do.
TeardownInv(n) ==
    /\ call[n].at \notin TeardownSteps => call[n].chain = "POSTROUTING" /\ ~call[n].missed
    /\ call[n].at \in TeardownSteps /\ call[n].chain = "FORWARD" /\ ~call[n].missed =>
          "POSTROUTING" \in shifted[n] \/ RulesOf(n, "POSTROUTING") = {}
    /\ call[n].at = "unlink" =>
          /\ call[n].chain = "FORWARD"
          /\ call[n].missed \/ "FORWARD" \in shifted[n] \/ RulesOf(n, "FORWARD") = {}
    /\ call[n].at = "delete" =>
          \/ call[n].chain \in shifted[n]
          \/ /\ call[n].lines \subseteq Lines(n, chain[call[n].chain])
             /\ call[n].missed \/ RulesOf(n, call[n].chain) \subseteq call[n].lines

RulesInv == TypeOK /\ \A n \in Names : TeardownInv(n)

Has(n, kind) ==
    \E i \in DOMAIN chain[ChainOf(kind)] : chain[ChainOf(kind)][i] = [of |-> n, kind |-> kind]

\* The rules a set-up has added when it is at a step.
Added(at) ==
    {kind \in Kinds : \/ at = "out" /\ kind = "masquerade"
                      \/ at = "back" /\ kind \in {"masquerade", "out"}
                      \/ at = "unit"}

SetupInv(n) ==
    /\ n \in up => call[n].at = "idle" /\ (n \in cut \/ \A kind \in Kinds : Has(n, kind))
    /\ call[n].cancelled \/ n \in cut \/ \A kind \in Added(call[n].at) : Has(n, kind)

-----------------------------------------------------------------------------
(* Chains *)

OwnLines(n, s) == {i \in DOMAIN s : s[i].of = n}

\* A listing contains all own rules.
LEMMA LinesAreOwn ==
  ASSUME NEW n, NEW s
  PROVE  OwnLines(n, s) \subseteq Lines(n, s)
BY DEF Lines, OwnLines, Matches

\* "iptables -A": the lines before it keep their numbers.
LEMMA Appended ==
  ASSUME NEW s \in Seq(Rule), NEW rule \in Rule
  PROVE  /\ Append(s, rule) \in Seq(Rule)
         /\ DOMAIN s = 1 .. Len(s) /\ Len(s) \in Nat
         /\ DOMAIN Append(s, rule) = 1 .. Len(s) + 1
         /\ \A i \in DOMAIN s : Append(s, rule)[i] = s[i]
         /\ Append(s, rule)[Len(s) + 1] = rule
         /\ \A n : n # rule.of => OwnLines(n, Append(s, rule)) = OwnLines(n, s)
<1>1. /\ Append(s, rule) \in Seq(Rule)
      /\ DOMAIN s = 1 .. Len(s) /\ Len(s) \in Nat
      /\ DOMAIN Append(s, rule) = 1 .. Len(s) + 1
      /\ \A i \in DOMAIN s : Append(s, rule)[i] = s[i]
      /\ Append(s, rule)[Len(s) + 1] = rule
  BY LenProperties
<1>2. ASSUME NEW n, n # rule.of
      PROVE  OwnLines(n, Append(s, rule)) = OwnLines(n, s)
  BY <1>1, <1>2 DEF OwnLines
<1> QED
  BY <1>1, <1>2

\* "iptables -D": the lines after it move up.
LEMMA Removed ==
  ASSUME NEW s \in Seq(Rule), NEW i \in DOMAIN s
  PROVE  /\ WithoutLine(s, i) \in Seq(Rule)
         /\ DOMAIN s = 1 .. Len(s) /\ Len(s) \in Nat
         /\ DOMAIN WithoutLine(s, i) = 1 .. Len(s) - 1
         /\ \A j \in 1 .. Len(s) - 1 : WithoutLine(s, i)[j] = IF j < i THEN s[j] ELSE s[j + 1]
<1> DEFINE a == SubSeq(s, 1, i - 1)
           b == SubSeq(s, i + 1, Len(s))
<1>1. Len(s) \in Nat /\ DOMAIN s = 1 .. Len(s) /\ i \in 1 .. Len(s)
      /\ \A j \in 1 .. Len(s) : s[j] \in Rule
  BY LenProperties, ElementOfSeq
<1>2. a \in Seq(Rule) /\ Len(a) = i - 1 /\ \A j \in 1 .. i - 1 : a[j] = s[j]
  <2>1. \A j \in 1 .. i - 1 : s[j] \in Rule
    BY <1>1
  <2>2. /\ a \in Seq(Rule) /\ Len(a) = IF 1 <= i - 1 THEN (i - 1) - 1 + 1 ELSE 0
        /\ \A j \in 1 .. (i - 1) - 1 + 1 : a[j] = s[1 + j - 1]
    BY <1>1, <2>1, SubSeqProperties
  <2> HIDE DEF a
  <2>3. (i - 1) - 1 + 1 = i - 1 /\ \A j \in 1 .. i - 1 : 1 + j - 1 = j
    BY <1>1
  <2> QED
    BY <1>1, <2>2, <2>3
<1>3. b \in Seq(Rule) /\ Len(b) = Len(s) - i /\ \A j \in 1 .. Len(s) - i : b[j] = s[i + j]
  <2>1. \A j \in i + 1 .. Len(s) : s[j] \in Rule
    BY <1>1
  <2>2. /\ b \in Seq(Rule) /\ Len(b) = IF i + 1 <= Len(s) THEN Len(s) - (i + 1) + 1 ELSE 0
        /\ \A j \in 1 .. Len(s) - (i + 1) + 1 : b[j] = s[(i + 1) + j - 1]
    BY <1>1, <2>1, SubSeqProperties
  <2> HIDE DEF b
  <2>3. Len(s) - (i + 1) + 1 = Len(s) - i /\ \A j \in 1 .. Len(s) - i : (i + 1) + j - 1 = i + j
    BY <1>1
  <2> QED
    BY <1>1, <2>2, <2>3
<1>4. WithoutLine(s, i) = a \o b
  BY DEF WithoutLine, RemoveAt
<1> HIDE DEF a, b
<1>5. /\ a \o b \in Seq(Rule) /\ Len(a \o b) = Len(a) + Len(b)
      /\ \A j \in 1 .. Len(a) + Len(b) :
            (a \o b)[j] = IF j <= Len(a) THEN a[j] ELSE b[j - Len(a)]
  BY <1>2, <1>3, ConcatProperties
<1>6. DOMAIN (a \o b) = 1 .. Len(s) - 1
  <2>1. Len(a \o b) = Len(s) - 1
    BY <1>1, <1>2, <1>3, <1>5
  <2>2. DOMAIN (a \o b) = 1 .. Len(a \o b)
    BY <1>5, LenProperties
  <2> QED
    BY <2>1, <2>2
<1>7. ASSUME NEW j \in 1 .. Len(s) - 1
      PROVE  (a \o b)[j] = IF j < i THEN s[j] ELSE s[j + 1]
  <2>0. /\ i - 1 \in Nat /\ Len(s) - i \in Nat /\ Len(a) = i - 1
        /\ Len(a) + Len(b) = Len(s) - 1
    <3>1. Len(a) = i - 1 /\ Len(b) = Len(s) - i
      BY <1>2, <1>3
    <3>2. Len(s) \in Nat /\ i \in 1 .. Len(s)
      BY <1>1
    <3> QED
      BY <3>1, <3>2
  <2>1. (a \o b)[j] = IF j <= i - 1 THEN a[j] ELSE b[j - (i - 1)]
    BY <1>5, <2>0
  <2>2. CASE j < i
    BY <1>1, <1>2, <2>1, <2>2
  <2>3. CASE ~(j < i)
    <3>0. Len(s) \in Nat /\ i \in 1 .. Len(s)
      BY <1>1
    <3>1. /\ j - (i - 1) \in 1 .. Len(s) - i /\ i + (j - (i - 1)) = j + 1
          /\ ~(j <= i - 1)
      BY <2>3, <3>0
    <3>2. b[j - (i - 1)] = s[i + (j - (i - 1))]
      BY <1>3, <3>1
    <3> QED
      BY <2>1, <2>3, <3>1, <3>2
  <2> QED
    BY <2>2, <2>3
<1> QED
  BY <1>1, <1>4, <1>5, <1>6, <1>7

\* Every other rule stays, and the lines before it keep their numbers.
LEMMA RemovedKeeps ==
  ASSUME NEW s \in Seq(Rule), NEW i \in DOMAIN s
  PROVE  /\ \A j \in DOMAIN s : j # i => \E k \in DOMAIN WithoutLine(s, i) : WithoutLine(s, i)[k] = s[j]
         /\ \A j \in DOMAIN s : j < i => /\ j \in DOMAIN WithoutLine(s, i)
                                         /\ WithoutLine(s, i)[j] = s[j]
<1>0. /\ DOMAIN s = 1 .. Len(s) /\ Len(s) \in Nat /\ i \in 1 .. Len(s)
      /\ DOMAIN WithoutLine(s, i) = 1 .. Len(s) - 1
      /\ \A j \in 1 .. Len(s) - 1 : WithoutLine(s, i)[j] = IF j < i THEN s[j] ELSE s[j + 1]
  BY Removed
<1>1. ASSUME NEW j \in DOMAIN s, j < i
      PROVE  j \in DOMAIN WithoutLine(s, i) /\ WithoutLine(s, i)[j] = s[j]
  <2>1. j \in 1 .. Len(s) - 1
    BY <1>0, <1>1
  <2> QED
    BY <1>0, <1>1, <2>1
<1>2. ASSUME NEW j \in DOMAIN s, j > i
      PROVE  j - 1 \in DOMAIN WithoutLine(s, i) /\ WithoutLine(s, i)[j - 1] = s[j]
  <2>1. j - 1 \in 1 .. Len(s) - 1 /\ ~(j - 1 < i) /\ (j - 1) + 1 = j
    BY <1>0, <1>2
  <2> QED
    BY <1>0, <2>1
<1>3. \A j \in DOMAIN s : j # i => j < i \/ j > i
  BY <1>0
<1> QED
  BY <1>1, <1>2, <1>3

\* A line gone that no own line follows, the own lines left keep their numbers.
LEMMA RemovedLast ==
  ASSUME NEW s \in Seq(Rule), NEW n, NEW i \in DOMAIN s, \A j \in OwnLines(n, s) : j <= i
  PROVE  OwnLines(n, WithoutLine(s, i)) = OwnLines(n, s) \ {i}
<1> DEFINE r == WithoutLine(s, i)
<1>1. i \in DOMAIN s
  OBVIOUS
<1>2. /\ DOMAIN s = 1 .. Len(s) /\ Len(s) \in Nat /\ DOMAIN r = 1 .. Len(s) - 1
      /\ \A j \in 1 .. Len(s) - 1 : r[j] = IF j < i THEN s[j] ELSE s[j + 1]
  BY <1>1, Removed
<1> HIDE DEF r
<1>3. ASSUME NEW j \in OwnLines(n, s) \ {i}
      PROVE  j \in OwnLines(n, r)
  <2>1. j \in 1 .. Len(s) - 1 /\ j < i /\ s[j].of = n
    BY <1>1, <1>2 DEF OwnLines
  <2> QED
    BY <1>2, <2>1 DEF OwnLines
<1>4. ASSUME NEW j \in OwnLines(n, r)
      PROVE  j \in OwnLines(n, s) \ {i}
  <2>1. j \in 1 .. Len(s) - 1 /\ r[j].of = n
    BY <1>2 DEF OwnLines
  <2>2. CASE j < i
    BY <1>2, <2>1, <2>2 DEF OwnLines
  <2>3. CASE ~(j < i)
    <3>1. j + 1 \in DOMAIN s /\ s[j + 1].of = n /\ j + 1 > i
      BY <1>1, <1>2, <2>1, <2>3
    <3>2. j + 1 \in OwnLines(n, s)
      BY <3>1 DEF OwnLines
    <3> QED
      BY <1>1, <1>2, <2>1, <3>1, <3>2
  <2> QED
    BY <2>2, <2>3
<1> QED
  BY <1>3, <1>4 DEF r

\* Somebody else's line gone, there are as many own lines as before.
LEMMA RemovedOther ==
  ASSUME NEW s \in Seq(Rule), NEW n, NEW i \in DOMAIN s, s[i].of # n
  PROVE  Cardinality(OwnLines(n, s)) <= Cardinality(OwnLines(n, WithoutLine(s, i)))
<1> DEFINE r == WithoutLine(s, i)
           S == OwnLines(n, s)
           T == OwnLines(n, r)
           f == [j \in S |-> IF j < i THEN j ELSE j - 1]
<1>1. /\ DOMAIN s = 1 .. Len(s) /\ Len(s) \in Nat /\ DOMAIN r = 1 .. Len(s) - 1
      /\ \A j \in 1 .. Len(s) - 1 : r[j] = IF j < i THEN s[j] ELSE s[j + 1]
  BY Removed
<1>2. S \subseteq 1 .. Len(s) /\ i \notin S /\ \A j \in S : s[j].of = n
  BY <1>1 DEF OwnLines
<1>3. IsFiniteSet(T)
  <2>1. T \subseteq 1 .. Len(s) - 1
    BY <1>1 DEF OwnLines
  <2>2. IsFiniteSet(1 .. Len(s) - 1)
    BY <1>1, FS_Interval
  <2> QED
    BY <2>1, <2>2, FS_Subset
<1> HIDE DEF r
<1>4. ASSUME NEW j \in S
      PROVE  f[j] \in T
  <2>1. CASE j < i
    <3>1. j \in 1 .. Len(s) - 1 /\ r[j].of = n
      BY <1>1, <1>2, <2>1
    <3> QED
      BY <1>1, <2>1, <3>1 DEF OwnLines
  <2>2. CASE ~(j < i)
    <3>1. j - 1 \in 1 .. Len(s) - 1 /\ ~(j - 1 < i) /\ (j - 1) + 1 = j
      BY <1>1, <1>2, <2>2
    <3>2. r[j - 1].of = n
      BY <1>1, <1>2, <3>1
    <3> QED
      BY <1>1, <2>2, <3>1, <3>2 DEF OwnLines
  <2> QED
    BY <2>1, <2>2
<1>5. ASSUME NEW j \in S, NEW k \in S, f[j] = f[k]
      PROVE  j = k
  BY <1>1, <1>2, <1>5
<1>6. f \in Injection(S, T)
  <2>1. f \in [S -> T]
    BY <1>4
  <2> HIDE DEF f
  <2> QED
    BY <1>5, <2>1 DEF Injection, IsInjective
<1> HIDE DEF f, S, T
<1> QED
  BY <1>3, <1>6, FS_Injection DEF S, T, r

-----------------------------------------------------------------------------
(* One step of one call *)

\* The history a step writes that deletes no rule: its own.
OwnHistory(n) ==
    /\ shifted' \in {shifted, [shifted EXCEPT ![n] = {}]}
    /\ cut' \in {cut, cut \cup {n}, cut \ {n}}

ChainStep(n) ==
    \/ UNCHANGED chain /\ OwnHistory(n)
    \/ \E kind \in Kinds :
          /\ call[n].at = kind /\ ~call[n].cancelled
          /\ chain' = [chain EXCEPT ![ChainOf(kind)] = Append(@, [of |-> n, kind |-> kind])]
          /\ UNCHANGED history
    \/ /\ call[n].at = "delete"
       /\ \E i \in call[n].lines : (\A j \in call[n].lines : j <= i) /\ DeleteLine(n, i)

LEMMA CallUpdate ==
  ASSUME TypeOK, NEW n \in Names, NEW v \in Call, call' = [call EXCEPT ![n] = v]
  PROVE  /\ call' \in [Names -> Call] /\ call'[n] = v
         /\ \A m \in Names : m # n => call'[m] = call[m]
BY DEF TypeOK

LEMMA GotoUpdate ==
  ASSUME TypeOK, NEW n \in Names, NEW step \in {"idle"} \cup SetupSteps \cup TeardownSteps,
         Goto(n, step)
  PROVE  /\ call' = [call EXCEPT ![n] = call'[n]]
         /\ call'[n] \in Call /\ call'[n] = [call[n] EXCEPT !.at = step]
BY DEF TypeOK, Call, Goto

LEMMA ReturnUpdate ==
  ASSUME TypeOK, NEW n \in Names, Return(n)
  PROVE  call' = [call EXCEPT ![n] = call'[n]] /\ call'[n] \in Call /\ call'[n] = NoCall
<1>1. NoCall \in Call
  BY DEF NoCall, Call, Chains
<1> QED
  BY <1>1 DEF Return, TypeOK

\* A step writes its own call and its own marks only.
OwnStep(n) ==
    /\ call' = [call EXCEPT ![n] = call'[n]] /\ call'[n] \in Call
    /\ ChainStep(n) /\ faults' \in 0 .. MaxFaults
    /\ netns' \subseteq Names /\ veth' \subseteq Names
    /\ up' \in {up, up \cup {n}, up \ {n}}

LEMMA FaultsCounted ==
  ASSUME TypeOK, NEW n, NEW kind, CmdWorks(n) \/ CmdFails(n, kind)
  PROVE  faults' \in 0 .. MaxFaults
BY FaultsAssumption DEF TypeOK, CmdWorks, CmdFails

\* What AddRule does to the chains and to the history of its own instance.
RuleAdded(n, kind) ==
    \/ /\ ~call[n].cancelled /\ UNCHANGED history
       /\ chain' = [chain EXCEPT ![ChainOf(kind)] = Append(@, [of |-> n, kind |-> kind])]
    \/ /\ UNCHANGED <<chain, shifted>>
       /\ (call[n].cancelled /\ UNCHANGED cut) \/ cut' = cut \cup {n}

\* ... what a set-up does with its call.
SetupMove(n) ==
    \/ /\ call[n].at = "idle" /\ n \notin up /\ call'[n] = [call[n] EXCEPT !.at = "link"]
       /\ UNCHANGED <<chain, up>>
    \/ /\ call[n].at = "link" /\ UNCHANGED <<chain, up>>
       /\ call'[n] \in {NoCall, [call[n] EXCEPT !.at = "configure"]}
    \/ /\ call[n].at = "configure" /\ UNCHANGED <<chain, up>>
       /\ call'[n] \in {NoCall, [call[n] EXCEPT !.at = "masquerade"]}
    \/ /\ call[n].at \in Kinds /\ UNCHANGED up
       /\ call'[n] = [call[n] EXCEPT !.at = CASE @ = "masquerade" -> "out"
                                              [] @ = "out" -> "back" [] OTHER -> "unit"]
       /\ RuleAdded(n, call[n].at)
    \/ /\ call[n].at = "unit" /\ UNCHANGED <<chain, cut>> /\ call'[n] = NoCall
       /\ up' = up \/ (~call[n].cancelled /\ up' = up \cup {n})

LEMMA AddRuleMove ==
  ASSUME TypeOK, NEW n \in Names, NEW kind \in Kinds, NEW next \in SetupSteps,
         AddRule(n, kind, next)
  PROVE  /\ OwnStep(n) /\ call[n].at = kind /\ call'[n] = [call[n] EXCEPT !.at = next]
         /\ UNCHANGED up /\ RuleAdded(n, kind)
<1>1. /\ call' = [call EXCEPT ![n] = call'[n]]
      /\ call'[n] \in Call /\ call'[n] = [call[n] EXCEPT !.at = next]
  BY GotoUpdate DEF AddRule
<1>2. faults' \in 0 .. MaxFaults
  BY FaultsCounted DEF AddRule
<1>3. call[n].at = kind /\ UNCHANGED <<netns, veth, up>>
  BY DEF AddRule
<1>4. RuleAdded(n, kind)
  BY DEF AddRule, CmdWorks, CmdFails, RuleAdded, history
<1>5. ChainStep(n)
  BY <1>3, <1>4 DEF ChainStep, RuleAdded, OwnHistory
<1> QED
  BY <1>1, <1>2, <1>3, <1>4, <1>5 DEF OwnStep, TypeOK

LEMMA SetupMoves ==
  ASSUME TypeOK, NEW n \in Names, Setup(n)
  PROVE  OwnStep(n) /\ SetupMove(n)
<1>1. CASE AddNetns(n)
  <2>1. /\ call' = [call EXCEPT ![n] = call'[n]]
        /\ call'[n] \in Call /\ call'[n] = [call[n] EXCEPT !.at = "link"]
    BY <1>1, GotoUpdate DEF AddNetns, SetupSteps
  <2> QED
    BY <1>1, <2>1 DEF AddNetns, OwnStep, SetupMove, ChainStep, OwnHistory, TypeOK, history
<1>2. CASE AddLink(n)
  <2>1. /\ call' = [call EXCEPT ![n] = call'[n]] /\ call'[n] \in Call
        /\ call'[n] \in {NoCall, [call[n] EXCEPT !.at = "configure"]}
    BY <1>2, GotoUpdate, ReturnUpdate DEF AddLink, SetupSteps
  <2>2. faults' \in 0 .. MaxFaults
    BY <1>2, FaultsCounted DEF AddLink
  <2> QED
    BY <1>2, <2>1, <2>2 DEF AddLink, OwnStep, SetupMove, ChainStep, OwnHistory, TypeOK, history
<1>3. CASE Configure(n)
  <2>1. /\ call' = [call EXCEPT ![n] = call'[n]] /\ call'[n] \in Call
        /\ call'[n] \in {NoCall, [call[n] EXCEPT !.at = "masquerade"]}
    BY <1>3, GotoUpdate, ReturnUpdate DEF Configure, SetupSteps
  <2>2. faults' \in 0 .. MaxFaults
    BY <1>3, FaultsCounted DEF Configure
  <2> QED
    BY <1>3, <2>1, <2>2 DEF Configure, OwnStep, SetupMove, ChainStep, OwnHistory, TypeOK, history
<1>4. CASE AddRule(n, "masquerade", "out") \/ AddRule(n, "out", "back") \/ AddRule(n, "back", "unit")
  <2>1. {"masquerade", "out", "back"} \subseteq Kinds /\ {"out", "back", "unit"} \subseteq SetupSteps
    BY DEF Kinds, SetupSteps
  <2>2. ASSUME NEW kind \in Kinds, NEW next \in SetupSteps, AddRule(n, kind, next),
               next = CASE kind = "masquerade" -> "out" [] kind = "out" -> "back" [] OTHER -> "unit"
        PROVE  OwnStep(n) /\ SetupMove(n)
    <3>1. /\ OwnStep(n) /\ call[n].at = kind /\ call'[n] = [call[n] EXCEPT !.at = next]
          /\ UNCHANGED up /\ RuleAdded(n, kind)
      BY <2>2, AddRuleMove
    <3>2. call'[n] = [call[n] EXCEPT !.at = CASE @ = "masquerade" -> "out"
                                              [] @ = "out" -> "back" [] OTHER -> "unit"]
      BY <2>2, <3>1
    <3> QED
      BY <3>1, <3>2 DEF SetupMove
  <2>3. CASE AddRule(n, "masquerade", "out")
    BY <2>1, <2>2, <2>3
  <2>4. CASE AddRule(n, "out", "back")
    BY <2>1, <2>2, <2>4
  <2>5. CASE AddRule(n, "back", "unit")
    BY <2>1, <2>2, <2>5
  <2> QED
    BY <1>4, <2>3, <2>4, <2>5
<1>5. CASE StartUnit(n)
  <2>1. call' = [call EXCEPT ![n] = call'[n]] /\ call'[n] \in Call /\ call'[n] = NoCall
    BY <1>5, ReturnUpdate DEF StartUnit
  <2>2. faults' \in 0 .. MaxFaults
    BY <1>5, FaultsCounted DEF StartUnit
  <2> QED
    BY <1>5, <2>1, <2>2 DEF StartUnit, OwnStep, SetupMove, ChainStep, OwnHistory, TypeOK, CmdWorks, history
<1> QED
  BY <1>1, <1>2, <1>3, <1>4, <1>5 DEF Setup

\* ... and what a teardown does with it.
TeardownMove(n) ==
    \/ /\ call[n].at = "idle" /\ UNCHANGED <<chain, shifted>> /\ up' = up \ {n}
       /\ call'[n] = [call[n] EXCEPT !.at = "list"]
    \/ /\ call[n].at = "list" /\ UNCHANGED <<chain, up, shifted>>
       /\ call'[n] \in
             {[call[n] EXCEPT !.at = "delete", !.lines = Lines(n, chain[call[n].chain])],
              [call[n] EXCEPT !.at = Swept(call[n].chain), !.chain = "FORWARD", !.missed = TRUE]}
    \/ /\ call[n].at = "delete" /\ UNCHANGED up
       /\ \E i \in call[n].lines :
             /\ \A j \in call[n].lines : j <= i
             /\ shifted'[n] = shifted[n]
             /\ \/ DeleteLine(n, i) /\ call'[n] = [call[n] EXCEPT !.lines = @ \ {i}]
                \/ /\ call'[n] = [call[n] EXCEPT !.lines = @ \ {i}, !.missed = TRUE]
                   /\ UNCHANGED chain
    \/ /\ call[n].at = "delete" /\ call[n].lines = {} /\ UNCHANGED <<chain, up, shifted>>
       /\ call'[n] = [call[n] EXCEPT !.at = Swept(call[n].chain), !.chain = "FORWARD"]
    \/ call[n].at = "unlink" /\ call'[n] = NoCall /\ UNCHANGED <<chain, up>>

LEMMA TeardownMoves ==
  ASSUME TypeOK, NEW n \in Names, Teardown(n)
  PROVE  OwnStep(n) /\ TeardownMove(n)
<1>0. call[n] \in Call /\ call[n].chain \in Chains /\ call[n].lines \subseteq Nat
  BY DEF TypeOK, Call
<1>1. CASE StopUnit(n)
  <2> DEFINE v == [call[n] EXCEPT !.at = "list"]
  <2>1. v \in Call /\ call' = [call EXCEPT ![n] = v]
    BY <1>0, <1>1 DEF StopUnit, Call, TeardownSteps
  <2>2. call'[n] = v
    BY <2>1, CallUpdate
  <2> QED
    BY <1>1, <2>1, <2>2 DEF StopUnit, OwnStep, TeardownMove, ChainStep, OwnHistory, TypeOK, history
<1>2. CASE List(n)
  <2>1. Swept(call[n].chain) \in TeardownSteps /\ "FORWARD" \in Chains
    BY DEF Swept, TeardownSteps, Chains
  <2>2. Lines(n, chain[call[n].chain]) \subseteq Nat
    <3>1. chain[call[n].chain] \in Seq(Rule)
      BY <1>0 DEF TypeOK
    <3> QED
      BY <3>1, LenProperties DEF Lines
  <2> DEFINE v == [call[n] EXCEPT !.at = "delete", !.lines = Lines(n, chain[call[n].chain])]
             w == [call[n] EXCEPT !.at = Swept(call[n].chain), !.chain = "FORWARD", !.missed = TRUE]
  <2>3. v \in Call /\ w \in Call
    BY <1>0, <2>1, <2>2 DEF Call, TeardownSteps
  <2>4. call' = [call EXCEPT ![n] = v] \/ call' = [call EXCEPT ![n] = w]
    BY <1>2 DEF List
  <2> HIDE DEF v, w
  <2>5. call' = [call EXCEPT ![n] = call'[n]] /\ call'[n] \in {v, w} /\ call'[n] \in Call
    BY <2>3, <2>4, CallUpdate
  <2>6. faults' \in 0 .. MaxFaults
    BY <1>2, FaultsCounted DEF List
  <2>7. call[n].at = "list" /\ UNCHANGED <<netns, veth, chain, up, history>>
    BY <1>2 DEF List
  <2>8. OwnStep(n)
    BY <2>5, <2>6, <2>7 DEF OwnStep, ChainStep, OwnHistory, TypeOK, history
  <2> QED
    BY <2>5, <2>7, <2>8 DEF TeardownMove, history, v, w
<1>3. CASE Delete(n)
  <2>1. PICK i \in call[n].lines :
           /\ \A j \in call[n].lines : j <= i
           /\ \/ CmdWorks(n) /\ DeleteLine(n, i)
              \/ /\ CmdFails(n, "delete")
                 /\ call' = [call EXCEPT ![n].lines = @ \ {i}, ![n].missed = TRUE]
                 /\ UNCHANGED <<chain, history>>
    BY <1>3 DEF Delete
  <2> DEFINE v == [call[n] EXCEPT !.lines = @ \ {i}]
             w == [call[n] EXCEPT !.lines = @ \ {i}, !.missed = TRUE]
  <2>2. v \in Call /\ w \in Call
    BY <1>0 DEF Call
  <2>3. \/ DeleteLine(n, i) /\ call' = [call EXCEPT ![n] = v]
        \/ call' = [call EXCEPT ![n] = w] /\ UNCHANGED <<chain, history>>
    BY <2>1 DEF DeleteLine
  <2> HIDE DEF v, w
  <2>4. /\ call' = [call EXCEPT ![n] = call'[n]] /\ call'[n] \in Call
        /\ \/ DeleteLine(n, i) /\ call'[n] = v
           \/ call'[n] = w /\ UNCHANGED <<chain, history>>
    BY <2>2, <2>3, CallUpdate
  <2>5. faults' \in 0 .. MaxFaults
    BY <2>1, FaultsCounted
  <2>6. call[n].at = "delete" /\ UNCHANGED <<netns, veth, up>>
    BY <1>3 DEF Delete
  <2>7. ChainStep(n)
    BY <2>1, <2>4, <2>6 DEF ChainStep, OwnHistory, history
  <2>8. shifted'[n] = shifted[n]
    BY <2>4 DEF DeleteLine, Shifts, history
  <2>9. TeardownMove(n)
    BY <2>1, <2>4, <2>6, <2>8 DEF TeardownMove, v, w
  <2> QED
    BY <2>4, <2>5, <2>6, <2>7, <2>9 DEF OwnStep, TypeOK
<1>4. CASE EndDelete(n)
  <2>1. Swept(call[n].chain) \in TeardownSteps /\ "FORWARD" \in Chains
    BY DEF Swept, TeardownSteps, Chains
  <2> DEFINE v == [call[n] EXCEPT !.at = Swept(call[n].chain), !.chain = "FORWARD"]
  <2>2. v \in Call /\ call' = [call EXCEPT ![n] = v]
    BY <1>0, <1>4, <2>1 DEF EndDelete, Call
  <2>3. call'[n] = v
    BY <2>2, CallUpdate
  <2> QED
    BY <1>4, <2>2, <2>3 DEF EndDelete, OwnStep, TeardownMove, ChainStep, OwnHistory, TypeOK, history
<1>5. CASE Unlink(n)
  <2>1. call' = [call EXCEPT ![n] = call'[n]] /\ call'[n] \in Call /\ call'[n] = NoCall
    BY <1>5, ReturnUpdate DEF Unlink
  <2> QED
    BY <1>5, <2>1 DEF Unlink, OwnStep, TeardownMove, ChainStep, OwnHistory, TypeOK, history
<1> QED
  BY <1>1, <1>2, <1>3, <1>4, <1>5 DEF Teardown

\* The end of a call's context.
CancelMove(n) ==
    /\ call'[n] = [call[n] EXCEPT !.cancelled = TRUE]
    /\ UNCHANGED <<chain, up, history>>

LEMMA CancelMoves ==
  ASSUME TypeOK, NEW n \in Names, Cancel(n)
  PROVE  OwnStep(n) /\ CancelMove(n)
<1> DEFINE v == [call[n] EXCEPT !.cancelled = TRUE]
<1>1. v \in Call /\ call' = [call EXCEPT ![n] = v]
  BY DEF Cancel, TypeOK, Call
<1>2. call'[n] = v
  BY <1>1, CallUpdate
<1>3. faults' \in 0 .. MaxFaults
  BY FaultsAssumption DEF Cancel, TypeOK
<1> QED
  BY <1>1, <1>2, <1>3 DEF Cancel, CancelMove, OwnStep, ChainStep, OwnHistory, TypeOK, history

\* Any step is one call's, and is one of its moves.
LEMMA Moves ==
  ASSUME TypeOK, Next
  PROVE  \E n \in Names : OwnStep(n) /\ (SetupMove(n) \/ TeardownMove(n) \/ CancelMove(n))
BY SetupMoves, TeardownMoves, CancelMoves DEF Next

-----------------------------------------------------------------------------
(* What a step of one call leaves to the others *)

LEMMA ChainsTyped ==
  ASSUME TypeOK, NEW n \in Names, OwnStep(n)
  PROVE  TypeOK'
<1>1. chain' \in [Chains -> Seq(Rule)]
  <2>1. CASE UNCHANGED chain
    BY <2>1 DEF TypeOK
  <2>2. ASSUME NEW kind \in Kinds,
               chain' = [chain EXCEPT ![ChainOf(kind)] = Append(@, [of |-> n, kind |-> kind])]
        PROVE  chain' \in [Chains -> Seq(Rule)]
    <3>1. [of |-> n, kind |-> kind] \in Rule /\ ChainOf(kind) \in Chains
      BY DEF Rule, ChainOf, Chains
    <3>2. Append(chain[ChainOf(kind)], [of |-> n, kind |-> kind]) \in Seq(Rule)
      BY <3>1, Appended DEF TypeOK
    <3> QED
      BY <2>2, <3>1, <3>2 DEF TypeOK
  <2>3. ASSUME NEW i, chain' = [chain EXCEPT ![call[n].chain] = WithoutLine(@, i)]
        PROVE  chain' \in [Chains -> Seq(Rule)]
    <3>1. call[n].chain \in Chains /\ chain[call[n].chain] \in Seq(Rule)
      BY DEF TypeOK, Call
    <3>2. WithoutLine(chain[call[n].chain], i) \in Seq(Rule)
      BY <3>1, Removed DEF WithoutLine
    <3> QED
      BY <2>3, <3>1, <3>2 DEF TypeOK
  <2> QED
    BY <2>1, <2>2, <2>3 DEF OwnStep, ChainStep, DeleteLine
<1>2. call' \in [Names -> Call]
  BY DEF OwnStep, TypeOK
<1>3. up' \subseteq Names
  BY DEF OwnStep, TypeOK
<1>4. shifted' \in [Names -> SUBSET Chains] /\ cut' \subseteq Names
  <2>1. shifted \in [Names -> SUBSET Chains] /\ cut \subseteq Names /\ call[n].chain \in Chains
    BY DEF TypeOK, Call
  <2>2. CASE OwnHistory(n) \/ UNCHANGED history
    BY <2>1, <2>2 DEF OwnHistory, history
  <2>3. ASSUME NEW i, DeleteLine(n, i)
        PROVE  shifted' \in [Names -> SUBSET Chains] /\ cut' \subseteq Names
    BY <2>1, <2>3 DEF DeleteLine, Cuts
  <2> QED
    BY <2>2, <2>3 DEF OwnStep, ChainStep
<1> QED
  BY <1>1, <1>2, <1>3, <1>4 DEF OwnStep, TypeOK

\* A step that deletes no rule leaves the lines where they are.
LEMMA ChainGrows ==
  ASSUME TypeOK, NEW m \in Names, OwnStep(m), call[m].at # "delete", NEW c \in Chains
  PROVE  /\ chain'[c] \in Seq(Rule)
         /\ \A i \in DOMAIN chain[c] : i \in DOMAIN chain'[c] /\ chain'[c][i] = chain[c][i]
<1>1. chain[c] \in Seq(Rule) /\ chain \in [Chains -> Seq(Rule)]
  BY DEF TypeOK
<1>2. chain'[c] = chain[c] \/ \E kind \in Kinds : chain'[c] = Append(chain[c], [of |-> m, kind |-> kind])
  BY <1>1 DEF OwnStep, ChainStep
<1>3. ASSUME NEW kind \in Kinds
      PROVE  LET s == Append(chain[c], [of |-> m, kind |-> kind]) IN
             s \in Seq(Rule) /\ \A i \in DOMAIN chain[c] : i \in DOMAIN s /\ s[i] = chain[c][i]
  <2>1. [of |-> m, kind |-> kind] \in Rule
    BY DEF Rule
  <2> QED
    BY <1>1, <2>1, Appended
<1> QED
  BY <1>1, <1>2, <1>3

\* Another call's step that deletes no rule leaves the rules of an instance
\* where they are, and its history too.
LEMMA OthersKeep ==
  ASSUME TypeOK, NEW m \in Names, NEW n \in Names, m # n, OwnStep(m),
         ~ \E i \in call[m].lines : call[m].at = "delete" /\ DeleteLine(m, i)
  PROVE  /\ \A c \in Chains : /\ RulesOf(n, c)' = RulesOf(n, c)
                              /\ \A i \in DOMAIN chain[c] :
                                    i \in DOMAIN chain'[c] /\ chain'[c][i] = chain[c][i]
         /\ shifted'[n] = shifted[n] /\ (n \in cut' <=> n \in cut)
<1>1. \/ UNCHANGED chain /\ OwnHistory(m)
      \/ \E kind \in Kinds :
            /\ chain' = [chain EXCEPT ![ChainOf(kind)] = Append(@, [of |-> m, kind |-> kind])]
            /\ UNCHANGED history
  BY DEF OwnStep, ChainStep
<1>2. shifted'[n] = shifted[n] /\ (n \in cut' <=> n \in cut)
  BY <1>1 DEF OwnHistory, history, TypeOK
<1>3. ASSUME NEW c \in Chains
      PROVE  /\ RulesOf(n, c)' = RulesOf(n, c)
             /\ \A i \in DOMAIN chain[c] : i \in DOMAIN chain'[c] /\ chain'[c][i] = chain[c][i]
  <2>1. chain[c] \in Seq(Rule) /\ chain \in [Chains -> Seq(Rule)]
    BY DEF TypeOK
  <2>2. RulesOf(n, c) = OwnLines(n, chain[c]) /\ RulesOf(n, c)' = OwnLines(n, chain'[c])
    BY DEF RulesOf, OwnLines
  <2>3. \/ chain'[c] = chain[c]
        \/ \E kind \in Kinds : chain'[c] = Append(chain[c], [of |-> m, kind |-> kind])
    BY <1>1, <2>1
  <2>4. ASSUME NEW kind \in Kinds
        PROVE  LET s == Append(chain[c], [of |-> m, kind |-> kind]) IN
               /\ OwnLines(n, s) = OwnLines(n, chain[c])
               /\ \A i \in DOMAIN chain[c] : i \in DOMAIN s /\ s[i] = chain[c][i]
    <3> DEFINE rule == [of |-> m, kind |-> kind]
    <3>1. rule \in Rule /\ rule.of # n
      BY DEF Rule
    <3> HIDE DEF rule
    <3>2. /\ DOMAIN chain[c] = 1 .. Len(chain[c]) /\ Len(chain[c]) \in Nat
          /\ DOMAIN Append(chain[c], rule) = 1 .. Len(chain[c]) + 1
          /\ \A i \in DOMAIN chain[c] : Append(chain[c], rule)[i] = chain[c][i]
          /\ OwnLines(n, Append(chain[c], rule)) = OwnLines(n, chain[c])
      BY <2>1, <3>1, Appended
    <3> QED
      BY <3>2 DEF rule
  <2> QED
    BY <2>2, <2>3, <2>4
<1> QED
  BY <1>2, <1>3

\* A line another call deletes is of the instance itself only if its teardown is
\* shifted, or of a name alike; every other rule stays.
LEMMA OthersDelete ==
  ASSUME RulesInv, NEW m \in Names, NEW n \in Names, m # n, call[m].at = "delete",
         NEW i \in call[m].lines, DeleteLine(m, i), NEW c \in Chains
  PROVE  \/ /\ c = call[m].chain /\ (c \in shifted[m] \/ <<m, n>> \in Alike)
            /\ n \in up \/ call[n].at \in SetupSteps => n \in cut'
         \/ /\ \A j \in DOMAIN chain[c] : chain[c][j].of = n =>
                  \E k \in DOMAIN chain'[c] : chain'[c][k] = chain[c][j]
            /\ Cardinality(RulesOf(n, c)) <= Cardinality(RulesOf(n, c)')
<1>0. chain \in [Chains -> Seq(Rule)] /\ chain[c] \in Seq(Rule) /\ TeardownInv(m)
  BY DEF RulesInv, TypeOK
<1>1. RulesOf(n, c) = OwnLines(n, chain[c]) /\ RulesOf(n, c)' = OwnLines(n, chain'[c])
  BY DEF RulesOf, OwnLines
<1>2. IsFiniteSet(RulesOf(n, c)) /\ Cardinality(RulesOf(n, c)) \in Nat
  <2>1. RulesOf(n, c) \subseteq 1 .. Len(chain[c]) /\ Len(chain[c]) \in Nat
    BY <1>0, LenProperties DEF RulesOf
  <2>2. IsFiniteSet(1 .. Len(chain[c]))
    BY <2>1, FS_Interval
  <2> QED
    BY <2>1, <2>2, FS_Subset, FS_CardinalityType
<1>3. CASE chain'[c] = chain[c]
  BY <1>1, <1>2, <1>3
<1>4. CASE c = call[m].chain /\ i \in DOMAIN chain[c]
  <2>1. chain'[c] = WithoutLine(chain[c], i)
    BY <1>0, <1>4 DEF DeleteLine
  <2>2. CASE chain[c][i].of # n
    BY <1>0, <1>1, <1>4, <2>1, <2>2, RemovedKeeps, RemovedOther
  <2>3. CASE chain[c][i].of = n
    <3>1. c \in shifted[m] \/ Matches(m, chain[c][i])
      BY <1>0, <1>4 DEF TeardownInv, Lines
    <3>2. c \in shifted[m] \/ <<m, n>> \in Alike
      BY <2>3, <3>1 DEF Matches
    <3>3. n \in up \/ call[n].at \in SetupSteps => n \in cut'
      BY <1>4, <2>3, <3>2 DEF DeleteLine, Cuts
    <3> QED
      BY <1>4, <3>2, <3>3
  <2> QED
    BY <2>2, <2>3
<1>5. (c = call[m].chain /\ i \in DOMAIN chain[c]) \/ chain'[c] = chain[c]
  BY <1>0 DEF DeleteLine, WithoutLine
<1> QED
  BY <1>3, <1>4, <1>5

\* An instance that is not deleting only gets rules.
LEMMA OwnGrow ==
  ASSUME RulesInv, NEW n \in Names, OwnStep(n), NEW c \in Chains, call[n].at # "delete"
  PROVE  RulesOf(n, c) \subseteq RulesOf(n, c)' /\ IsFiniteSet(RulesOf(n, c)')
<1>2. /\ chain'[c] \in Seq(Rule)
      /\ \A i \in DOMAIN chain[c] : i \in DOMAIN chain'[c] /\ chain'[c][i] = chain[c][i]
  BY ChainGrows DEF RulesInv
<1>3. RulesOf(n, c)' \subseteq 1 .. Len(chain'[c]) /\ Len(chain'[c]) \in Nat
  BY <1>2, LenProperties DEF RulesOf
<1>4. IsFiniteSet(1 .. Len(chain'[c]))
  BY <1>3, FS_Interval
<1> QED
  BY <1>2, <1>3, <1>4, FS_Subset DEF RulesOf

-----------------------------------------------------------------------------
(* Teardowns *)

\* A move of a teardown keeps the account of its own lines.
LEMMA OwnTeardown ==
  ASSUME RulesInv, NEW n \in Names, OwnStep(n), TypeOK', TeardownMove(n)
  PROVE  TeardownInv(n)'
<1>0. /\ call[n] \in Call /\ call[n].chain \in Chains /\ TeardownInv(n)
      /\ chain \in [Chains -> Seq(Rule)]
  BY DEF RulesInv, TypeOK, Call
<1>1. \A c \in Chains : /\ RulesOf(n, c) = OwnLines(n, chain[c])
                         /\ RulesOf(n, c)' = OwnLines(n, chain'[c])
  BY DEF RulesOf, OwnLines
<1>a. UNCHANGED chain => \A c \in Chains : RulesOf(n, c)' = RulesOf(n, c)
  BY DEF RulesOf
<1>2. CASE call[n].at = "idle" /\ call'[n] = [call[n] EXCEPT !.at = "list"]
  BY <1>0, <1>2 DEF TeardownInv, TeardownSteps, Call
<1>3. CASE /\ call[n].at = "list" /\ UNCHANGED <<chain, shifted>>
           /\ call'[n] = [call[n] EXCEPT !.at = "delete", !.lines = Lines(n, chain[call[n].chain])]
  <2>1. /\ call'[n].at = "delete" /\ call'[n].chain = call[n].chain
        /\ call'[n].missed = call[n].missed /\ call'[n].lines = Lines(n, chain[call[n].chain])
    BY <1>0, <1>3 DEF Call
  <2>2. RulesOf(n, call[n].chain)' \subseteq call'[n].lines
    BY <1>0, <1>1, <1>a, <1>3, <2>1, LinesAreOwn
  <2> QED
    BY <1>0, <1>a, <1>3, <2>1, <2>2 DEF TeardownInv, TeardownSteps, Chains
<1>4. CASE /\ call[n].at = "list" /\ UNCHANGED <<chain, shifted>>
           /\ call'[n] = [call[n] EXCEPT !.at = Swept(call[n].chain), !.chain = "FORWARD",
                                        !.missed = TRUE]
  BY <1>0, <1>4 DEF TeardownInv, TeardownSteps, Call, Swept
<1>5. ASSUME call[n].at = "delete", NEW i \in call[n].lines, \A j \in call[n].lines : j <= i,
             DeleteLine(n, i), shifted'[n] = shifted[n],
             call'[n] = [call[n] EXCEPT !.lines = @ \ {i}]
      PROVE  TeardownInv(n)'
  <2>0. PICK c \in Chains : c = call[n].chain
    BY <1>0
  <2> DEFINE s == chain[c]
  <2>1. /\ call'[n].at = "delete" /\ call'[n].chain = c /\ call'[n].missed = call[n].missed
        /\ call'[n].lines = call[n].lines \ {i}
    BY <1>0, <1>5, <2>0 DEF Call
  <2>2. s \in Seq(Rule) /\ chain'[c] = WithoutLine(s, i)
        /\ RulesOf(n, c)' = OwnLines(n, WithoutLine(s, i))
    BY <1>0, <1>1, <1>5, <2>0 DEF DeleteLine
  <2>3. \/ c \in shifted[n]
        \/ /\ i \in DOMAIN s
           /\ call[n].lines \subseteq Lines(n, s)
           /\ call[n].missed \/ OwnLines(n, s) \subseteq call[n].lines
    BY <1>0, <1>1, <1>5, <2>0 DEF TeardownInv, Lines
  <2>4. ASSUME i \in DOMAIN s, call[n].lines \subseteq Lines(n, s)
        PROVE  call'[n].lines \subseteq Lines(n, chain'[c])
    <3> SUFFICES ASSUME NEW j \in call[n].lines, j # i
                 PROVE  j \in Lines(n, WithoutLine(s, i))
      BY <2>1, <2>2
    <3>1. j \in DOMAIN s /\ Matches(n, s[j]) /\ j <= i /\ DOMAIN s \subseteq Nat
      BY <1>5, <2>2, <2>4, Removed DEF Lines
    <3>2. j < i
      BY <2>4, <3>1
    <3> QED
      BY <2>2, <2>4, <3>1, <3>2, RemovedKeeps DEF Lines
  <2>5. ASSUME i \in DOMAIN s, OwnLines(n, s) \subseteq call[n].lines
        PROVE  RulesOf(n, c)' \subseteq call'[n].lines
    BY <1>5, <2>1, <2>2, <2>5, RemovedLast
  <2>6. c = "FORWARD" => chain'["POSTROUTING"] = chain["POSTROUTING"]
    BY <1>0, <1>5, <2>0 DEF Chains, DeleteLine
  <2>7. c = "FORWARD" => RulesOf(n, "POSTROUTING")' = RulesOf(n, "POSTROUTING")
    BY <1>1, <2>6 DEF Chains
  <2> HIDE DEF s
  <2>8. \/ c \in shifted'[n]
        \/ /\ call'[n].lines \subseteq Lines(n, chain'[c])
           /\ call'[n].missed \/ RulesOf(n, c)' \subseteq call'[n].lines
    BY <1>5, <2>1, <2>3, <2>4, <2>5
  <2> QED
    BY <1>0, <1>5, <2>0, <2>1, <2>7, <2>8 DEF TeardownInv, TeardownSteps
<1>6. ASSUME call[n].at = "delete", NEW i \in call[n].lines, UNCHANGED chain,
             shifted'[n] = shifted[n],
             call'[n] = [call[n] EXCEPT !.lines = @ \ {i}, !.missed = TRUE]
      PROVE  TeardownInv(n)'
  <2>1. /\ call'[n].at = "delete" /\ call'[n].chain = call[n].chain /\ call'[n].missed
        /\ call'[n].lines = call[n].lines \ {i}
    BY <1>0, <1>6 DEF Call
  <2>2. \/ call[n].chain \in shifted[n]
        \/ call'[n].lines \subseteq Lines(n, chain'[call[n].chain])
    BY <1>0, <1>6, <2>1 DEF TeardownInv
  <2> QED
    BY <1>6, <2>1, <2>2 DEF TeardownInv, TeardownSteps
<1>7. CASE /\ call[n].at = "delete" /\ call[n].lines = {} /\ UNCHANGED <<chain, shifted>>
           /\ call'[n] = [call[n] EXCEPT !.at = Swept(call[n].chain), !.chain = "FORWARD"]
  <2>1. /\ call'[n].at = Swept(call[n].chain) /\ call'[n].chain = "FORWARD"
        /\ call'[n].missed = call[n].missed
    BY <1>0, <1>7 DEF Call
  <2>2. \/ call[n].chain \in shifted[n] \/ call[n].missed
        \/ RulesOf(n, call[n].chain) = {}
    BY <1>0, <1>7 DEF TeardownInv
  <2> QED
    BY <1>0, <1>a, <1>7, <2>1, <2>2 DEF TeardownInv, TeardownSteps, Swept, Chains
<1>8. CASE call'[n] = NoCall
  BY <1>8 DEF NoCall, TeardownInv, TeardownSteps
<1> QED
  BY <1>2, <1>3, <1>4, <1>5, <1>6, <1>7, <1>8 DEF TeardownMove

\* Another call's step does, too: a deletion in front of a line the teardown
\* still has to delete marks it as shifted, any other leaves its lines alone.
LEMMA OthersTeardown ==
  ASSUME RulesInv, NEW m \in Names, NEW n \in Names, m # n, OwnStep(m), TypeOK'
  PROVE  TeardownInv(n)'
<1>0. /\ call'[n] = call[n] /\ TeardownInv(n) /\ call[n] \in Call /\ call[n].chain \in Chains
      /\ chain \in [Chains -> Seq(Rule)]
  BY DEF OwnStep, RulesInv, TypeOK, Call
<1>1. CASE ~ \E i \in call[m].lines : call[m].at = "delete" /\ DeleteLine(m, i)
  <2>1. /\ \A c \in Chains : RulesOf(n, c)' = RulesOf(n, c)
        /\ \A c \in Chains : Lines(n, chain[c]) \subseteq Lines(n, chain'[c])
        /\ shifted'[n] = shifted[n]
    BY <1>1, OthersKeep DEF RulesInv, Lines
  <2>2. PICK c \in Chains : c = call[n].chain
    BY <1>0
  <2>3. RulesOf(n, "POSTROUTING")' = RulesOf(n, "POSTROUTING")
        /\ RulesOf(n, "FORWARD")' = RulesOf(n, "FORWARD")
    BY <2>1 DEF Chains
  <2>4. TeardownInv(n)' <=>
          /\ call[n].at \notin TeardownSteps => c = "POSTROUTING" /\ ~call[n].missed
          /\ call[n].at \in TeardownSteps /\ c = "FORWARD" /\ ~call[n].missed =>
                "POSTROUTING" \in shifted'[n] \/ RulesOf(n, "POSTROUTING")' = {}
          /\ call[n].at = "unlink" =>
                /\ c = "FORWARD"
                /\ call[n].missed \/ "FORWARD" \in shifted'[n] \/ RulesOf(n, "FORWARD")' = {}
          /\ call[n].at = "delete" =>
                \/ c \in shifted'[n]
                \/ /\ call[n].lines \subseteq Lines(n, chain'[c])
                   /\ call[n].missed \/ RulesOf(n, c)' \subseteq call[n].lines
    BY <1>0, <2>2 DEF TeardownInv, RulesOf
  <2> QED
    BY <1>0, <2>1, <2>2, <2>3, <2>4 DEF TeardownInv
<1>2. ASSUME NEW i \in call[m].lines, call[m].at = "delete", DeleteLine(m, i)
      PROVE  TeardownInv(n)'
  <2>1. /\ shifted[n] \subseteq shifted'[n]
        /\ n \in Shifts(m, i) => call[m].chain \in shifted'[n]
    BY <1>2 DEF DeleteLine
  <2>2. ASSUME NEW c \in Chains, RulesOf(n, c) = {}
        PROVE  RulesOf(n, c)' = {}
    <3>1. RulesOf(n, c) = OwnLines(n, chain[c]) /\ RulesOf(n, c)' = OwnLines(n, chain'[c])
      BY DEF RulesOf, OwnLines
    <3>2. chain'[c] = chain[c] \/ (i \in DOMAIN chain[c] /\ chain'[c] = WithoutLine(chain[c], i))
      BY <1>0, <1>2 DEF DeleteLine, WithoutLine
    <3>3. chain[c] \in Seq(Rule)
      BY <1>0
    <3>4. CASE i \in DOMAIN chain[c] /\ chain'[c] = WithoutLine(chain[c], i)
      <4>1. OwnLines(n, WithoutLine(chain[c], i)) = OwnLines(n, chain[c]) \ {i}
        BY <2>2, <3>1, <3>3, <3>4, RemovedLast
      <4> QED
        BY <2>2, <3>1, <3>4, <4>1
    <3> QED
      BY <2>2, <3>1, <3>2, <3>4
  <2>3. PICK c \in Chains : c = call[n].chain
    BY <1>0
  <2>4. ASSUME call[n].at = "delete", c \notin shifted'[n]
        PROVE  /\ call[n].lines \subseteq Lines(n, chain'[c])
               /\ call[n].missed \/ RulesOf(n, c)' \subseteq call[n].lines
    <3> DEFINE s == chain[c]
    <3>1. /\ s \in Seq(Rule) /\ call[n].lines \subseteq Lines(n, s)
          /\ call[n].missed \/ RulesOf(n, c) \subseteq call[n].lines
      BY <1>0, <2>1, <2>3, <2>4 DEF TeardownInv
    <3>2. RulesOf(n, c) = OwnLines(n, s) /\ RulesOf(n, c)' = OwnLines(n, chain'[c])
      BY DEF RulesOf, OwnLines
    <3>3. \/ chain'[c] = s
          \/ c = call[m].chain /\ i \in DOMAIN s /\ chain'[c] = WithoutLine(s, i)
      BY <1>0, <1>2 DEF DeleteLine, WithoutLine
    <3>4. CASE chain'[c] = s
      BY <3>1, <3>2, <3>4
    <3>5. CASE c = call[m].chain /\ i \in DOMAIN s /\ chain'[c] = WithoutLine(s, i)
      <4>1. \A j \in call[n].lines : ~(i <= j)
        <5>1. n \notin Shifts(m, i)
          BY <2>1, <2>4, <3>5
        <5> QED
          BY <2>3, <2>4, <3>5, <5>1 DEF Shifts
      <4>2. DOMAIN s \subseteq Nat /\ call[n].lines \subseteq DOMAIN s
        BY <3>1, LenProperties DEF Lines
      <4>3. \A j \in call[n].lines : j < i
        BY <3>5, <4>1, <4>2
      <4>4. call[n].lines \subseteq Lines(n, WithoutLine(s, i))
        BY <3>1, <3>5, <4>3, RemovedKeeps DEF Lines
      <4>5. ASSUME RulesOf(n, c) \subseteq call[n].lines
            PROVE  RulesOf(n, c)' \subseteq call[n].lines
        <5>1. \A j \in OwnLines(n, s) : j <= i
          BY <3>2, <3>5, <4>2, <4>3, <4>5
        <5>2. OwnLines(n, WithoutLine(s, i)) = OwnLines(n, s) \ {i}
          BY <3>1, <3>5, <5>1, RemovedLast
        <5> QED
          BY <3>2, <3>5, <4>5, <5>2
      <4> QED
        BY <3>1, <3>5, <4>4, <4>5
    <3> QED
      BY <3>3, <3>4, <3>5
  <2>5. TeardownInv(n)' <=>
          /\ call[n].at \notin TeardownSteps => c = "POSTROUTING" /\ ~call[n].missed
          /\ call[n].at \in TeardownSteps /\ c = "FORWARD" /\ ~call[n].missed =>
                "POSTROUTING" \in shifted'[n] \/ RulesOf(n, "POSTROUTING")' = {}
          /\ call[n].at = "unlink" =>
                /\ c = "FORWARD"
                /\ call[n].missed \/ "FORWARD" \in shifted'[n] \/ RulesOf(n, "FORWARD")' = {}
          /\ call[n].at = "delete" =>
                \/ c \in shifted'[n]
                \/ /\ call[n].lines \subseteq Lines(n, chain'[c])
                   /\ call[n].missed \/ RulesOf(n, c)' \subseteq call[n].lines
    BY <1>0, <2>3 DEF TeardownInv, RulesOf
  <2>6. /\ RulesOf(n, "POSTROUTING") = {} => RulesOf(n, "POSTROUTING")' = {}
        /\ RulesOf(n, "FORWARD") = {} => RulesOf(n, "FORWARD")' = {}
    BY <2>2 DEF Chains
  <2> QED
    BY <1>0, <2>1, <2>3, <2>4, <2>5, <2>6 DEF TeardownInv
<1> QED
  BY <1>1, <1>2

LEMMA OwnAccount ==
  ASSUME RulesInv, NEW n \in Names, OwnStep(n), TypeOK',
         SetupMove(n) \/ TeardownMove(n) \/ CancelMove(n)
  PROVE  TeardownInv(n)'
<1>0. call[n] \in Call /\ TeardownInv(n)
  BY DEF RulesInv, TypeOK
<1>1. CASE SetupMove(n)
  <2>1. call[n].at \notin TeardownSteps
    BY <1>1 DEF SetupMove, TeardownSteps, Kinds
  <2>2. call'[n].at \notin TeardownSteps /\ call'[n].chain = "POSTROUTING" /\ ~call'[n].missed
    <3>1. call[n].chain = "POSTROUTING" /\ ~call[n].missed
      BY <1>0, <2>1 DEF TeardownInv
    <3>2. \/ call'[n] = NoCall
          \/ \E step \in SetupSteps : call'[n] = [call[n] EXCEPT !.at = step]
      BY <1>1 DEF SetupMove, SetupSteps, Kinds
    <3> QED
      BY <1>0, <3>1, <3>2 DEF NoCall, Call, SetupSteps, TeardownSteps
  <2> QED
    BY <2>2 DEF TeardownInv, TeardownSteps
<1>2. CASE CancelMove(n)
  <2>1. /\ call'[n].at = call[n].at /\ call'[n].chain = call[n].chain
        /\ call'[n].lines = call[n].lines /\ call'[n].missed = call[n].missed
    BY <1>0, <1>2 DEF Call, CancelMove
  <2>2. shifted' = shifted /\ \A c : RulesOf(n, c)' = RulesOf(n, c)
    BY <1>2 DEF RulesOf, CancelMove, history
  <2> QED
    BY <1>0, <1>2, <2>1, <2>2 DEF TeardownInv, CancelMove
<1> QED
  BY <1>1, <1>2, OwnTeardown

LEMMA RulesInvStep ==
  ASSUME RulesInv, [Next]_vars
  PROVE  RulesInv'
<1>1. CASE UNCHANGED vars
  BY <1>1 DEF vars, history, RulesInv, TypeOK, TeardownInv, RulesOf, Lines
<1>2. CASE Next
  <2>1. PICK m \in Names : OwnStep(m) /\ (SetupMove(m) \/ TeardownMove(m) \/ CancelMove(m))
    BY <1>2, Moves DEF RulesInv
  <2>2. TypeOK'
    BY <2>1, ChainsTyped DEF RulesInv
  <2>3. TeardownInv(m)'
    BY <2>1, <2>2, OwnAccount
  <2>4. \A n \in Names : n # m => TeardownInv(n)'
    BY <2>1, <2>2, OthersTeardown
  <2> QED
    BY <2>2, <2>3, <2>4 DEF RulesInv
<1> QED
  BY <1>1, <1>2

LEMMA RulesInvInit == Init => RulesInv
<1>1. NoCall \in Call /\ NoCall.at = "idle" /\ NoCall.chain = "POSTROUTING" /\ ~NoCall.missed
  BY DEF NoCall, Call, Chains
<1>2. Init => TypeOK
  BY <1>1, EmptySeq, FaultsAssumption DEF Init, TypeOK
<1>3. Init => \A n \in Names : call[n] = NoCall
  BY DEF Init
<1>4. Init => \A n \in Names : TeardownInv(n)
  BY <1>1, <1>3 DEF TeardownInv, TeardownSteps
<1> QED
  BY <1>2, <1>4 DEF RulesInv

LEMMA RulesInvariance == Spec => []RulesInv
<1>1. RulesInv /\ [Next]_vars => RulesInv'
  BY RulesInvStep
<1> QED
  BY <1>1, RulesInvInit, PTL DEF Spec

-----------------------------------------------------------------------------
(* Set-ups *)

\* A move of a set-up leaves the rules it has added, and adds the next one
\* unless the command fails, which is noted, or the call is cancelled, in which
\* case it cannot succeed any more.
LEMMA OwnSetup ==
  ASSUME RulesInv, NEW n \in Names, OwnStep(n), SetupInv(n), SetupMove(n)
  PROVE  SetupInv(n)'
<1>0. call[n] \in Call /\ chain \in [Chains -> Seq(Rule)]
  BY DEF RulesInv, TypeOK
<1>1. CASE call[n].at \notin Kinds /\ UNCHANGED chain
  <2>1. \A kind : Has(n, kind)' <=> Has(n, kind)
    BY <1>1 DEF Has
  <2>2. CASE call[n].at = "unit"
    <3>1. call'[n] = NoCall /\ Added(call'[n].at) = {}
      BY <1>1, <2>2 DEF SetupMove, NoCall, Added
    <3>2. n \in up' => n \in up \/ ~call[n].cancelled
      BY <2>2 DEF SetupMove, Kinds
    <3>3. Added(call[n].at) = Kinds /\ cut' = cut
      BY <2>2 DEF Added, SetupMove, Kinds
    <3> QED
      BY <2>1, <3>1, <3>2, <3>3 DEF SetupInv, NoCall
  <2>3. CASE call[n].at # "unit"
    <3>1. n \in up' => n \in up
      BY <1>1, <2>3 DEF SetupMove
    <3>2. call'[n].at \in {"idle", "link", "configure", "masquerade"} /\ n \notin up
      BY <1>0, <1>1, <2>3 DEF SetupMove, NoCall, Call, SetupInv
    <3>3. Added(call'[n].at) = {}
      BY <3>2 DEF Added
    <3> QED
      BY <3>1, <3>2, <3>3 DEF SetupInv
  <2> QED
    BY <2>2, <2>3
<1>2. CASE call[n].at \in Kinds
  <2>1. PICK kind \in Kinds : kind = call[n].at
    BY <1>2
  <2>2. n \notin up /\ n \notin up'
    BY <2>1 DEF SetupInv, SetupMove, Kinds
  <2>3. /\ call'[n].cancelled = call[n].cancelled
        /\ \A k \in Added(call'[n].at) : k = kind \/ k \in Added(call[n].at)
    <3>1. call'[n] = [call[n] EXCEPT !.at = CASE kind = "masquerade" -> "out"
                                             [] kind = "out" -> "back" [] OTHER -> "unit"]
      BY <2>1 DEF SetupMove, Kinds
    <3>2. /\ call'[n].cancelled = call[n].cancelled
          /\ call'[n].at = CASE kind = "masquerade" -> "out" [] kind = "out" -> "back" [] OTHER -> "unit"
      BY <1>0, <3>1 DEF Call
    <3> QED
      BY <2>1, <3>2 DEF Added, Kinds
  <2>4. CASE UNCHANGED chain /\ (call[n].cancelled \/ cut' = cut \cup {n})
    BY <2>2, <2>3, <2>4 DEF SetupInv
  <2>5. CASE /\ ~call[n].cancelled /\ UNCHANGED history
             /\ chain' = [chain EXCEPT ![ChainOf(kind)] = Append(@, [of |-> n, kind |-> kind])]
    <3> DEFINE c == ChainOf(kind)
               rule == [of |-> n, kind |-> kind]
    <3>1. chain' = [chain EXCEPT ![c] = Append(@, rule)]
      BY <2>5
    <3>2. c \in Chains /\ rule \in Rule /\ chain[c] \in Seq(Rule)
      BY <1>0 DEF ChainOf, Chains, Rule
    <3> HIDE DEF rule
    <3>3. /\ DOMAIN chain[c] = 1 .. Len(chain[c]) /\ Len(chain[c]) \in Nat
          /\ DOMAIN chain'[c] = 1 .. Len(chain[c]) + 1
          /\ \A i \in DOMAIN chain[c] : chain'[c][i] = chain[c][i]
          /\ chain'[c][Len(chain[c]) + 1] = rule
      BY <1>0, <3>1, <3>2, Appended
    <3>4. Has(n, kind)'
      BY <3>3 DEF Has, rule
    <3>5. ASSUME NEW k, Has(n, k)
          PROVE  Has(n, k)'
      <4>1. CASE ChainOf(k) = c
        BY <3>3, <3>5, <4>1 DEF Has
      <4>2. CASE ChainOf(k) # c
        <5>1. ChainOf(k) \in Chains
          BY DEF ChainOf, Chains
        <5>2. chain'[ChainOf(k)] = chain[ChainOf(k)]
          BY <1>0, <3>1, <4>2, <5>1
        <5> QED
          BY <3>5, <5>2 DEF Has
      <4> QED
        BY <4>1, <4>2
    <3> QED
      BY <2>2, <2>3, <2>5, <3>4, <3>5 DEF SetupInv, history
  <2>6. RuleAdded(n, kind)
    BY <1>2, <2>1 DEF SetupMove, Kinds
  <2> QED
    BY <2>4, <2>5, <2>6 DEF RuleAdded
<1> QED
  BY <1>1, <1>2 DEF SetupMove, Kinds

\* A teardown is one of an instance that is down from its first step.
LEMMA SetupTornDown ==
  ASSUME RulesInv, NEW n \in Names, SetupInv(n), TeardownMove(n)
  PROVE  SetupInv(n)'
<1>0. call[n] \in Call
  BY DEF RulesInv, TypeOK
<1>1. n \notin up'
  BY DEF TeardownMove, SetupInv
<1>2. call'[n].at \in {"idle"} \cup TeardownSteps
  <2>1. Swept(call[n].chain) \in TeardownSteps
    BY DEF Swept, TeardownSteps
  <2>2. CASE call[n].at \in {"idle", "list", "unlink"}
    <3>1. call'[n] = [call[n] EXCEPT !.at = "list"] => call'[n].at = "list"
      BY <1>0 DEF Call
    <3>2. call'[n] = [call[n] EXCEPT !.at = "delete", !.lines = Lines(n, chain[call[n].chain])]
            => call'[n].at = "delete"
      BY <1>0 DEF Call
    <3>3. call'[n] = [call[n] EXCEPT !.at = Swept(call[n].chain), !.chain = "FORWARD", !.missed = TRUE]
            => call'[n].at = Swept(call[n].chain)
      BY <1>0 DEF Call
    <3>4. call'[n] = NoCall => call'[n].at = "idle"
      BY DEF NoCall
    <3> QED
      BY <2>1, <2>2, <3>1, <3>2, <3>3, <3>4 DEF TeardownMove, TeardownSteps
  <2>3. CASE call[n].at = "delete"
    <3>1. \/ call'[n] = [call[n] EXCEPT !.at = Swept(call[n].chain), !.chain = "FORWARD"]
          \/ \E i : \/ call'[n] = [call[n] EXCEPT !.lines = @ \ {i}]
                    \/ call'[n] = [call[n] EXCEPT !.lines = @ \ {i}, !.missed = TRUE]
      BY <2>3 DEF TeardownMove
    <3>2. call'[n].at \in {Swept(call[n].chain), call[n].at}
      BY <1>0, <3>1 DEF Call
    <3> QED
      BY <2>1, <2>3, <3>2 DEF TeardownSteps
  <2> QED
    BY <2>2, <2>3 DEF TeardownMove
<1>3. Added(call'[n].at) = {}
  BY <1>2 DEF Added, TeardownSteps
<1> QED
  BY <1>1, <1>3 DEF SetupInv

LEMMA SetupInvStep ==
  ASSUME RulesInv, \A n \in Names : SetupInv(n), [Next]_vars
  PROVE  \A n \in Names : SetupInv(n)'
<1>1. CASE UNCHANGED vars
  <2>1. chain' = chain /\ up' = up /\ call' = call /\ cut' = cut
    BY <1>1 DEF vars, history
  <2>2. \A n : \A kind : Has(n, kind)' <=> Has(n, kind)
    BY <2>1 DEF Has
  <2> QED
    BY <2>1, <2>2 DEF SetupInv
<1>2. CASE Next
  <2>1. PICK m \in Names : OwnStep(m) /\ (SetupMove(m) \/ TeardownMove(m) \/ CancelMove(m))
    BY <1>2, Moves DEF RulesInv
  <2>2. ASSUME CancelMove(m)
        PROVE  SetupInv(m)'
    <3>1. call'[m].at = call[m].at /\ call'[m].cancelled
      BY <2>2 DEF RulesInv, TypeOK, Call, CancelMove
    <3> QED
      BY <2>2, <3>1 DEF SetupInv, Has, CancelMove, history
  <2>3. SetupInv(m)'
    BY <2>1, <2>2, OwnSetup, SetupTornDown
  <2>4. ASSUME NEW n \in Names, n # m
        PROVE  SetupInv(n)'
    <3>1. call'[n] = call[n] /\ (n \in up' <=> n \in up)
      BY <2>1, <2>4 DEF OwnStep, RulesInv, TypeOK
    <3>2. Added(call[n].at) # {} => call[n].at \in SetupSteps
      BY DEF Added, SetupSteps
    <3>3. \A kind : ChainOf(kind) \in Chains
      BY DEF ChainOf, Chains
    <3>4. CASE ~ \E i \in call[m].lines : call[m].at = "delete" /\ DeleteLine(m, i)
      <4>1. /\ n \in cut' <=> n \in cut
            /\ \A c \in Chains : \A i \in DOMAIN chain[c] :
                  i \in DOMAIN chain'[c] /\ chain'[c][i] = chain[c][i]
        BY <2>1, <2>4, <3>4, OthersKeep DEF RulesInv
      <4>2. \A kind : Has(n, kind) => Has(n, kind)'
        BY <3>3, <4>1 DEF Has
      <4> QED
        BY <3>1, <4>1, <4>2 DEF SetupInv
    <3>5. ASSUME NEW i \in call[m].lines, call[m].at = "delete", DeleteLine(m, i)
          PROVE  SetupInv(n)'
      <4>1. n \in cut => n \in cut'
        BY <3>5 DEF DeleteLine
      <4>2. CASE n \in cut'
        BY <3>1, <4>2 DEF SetupInv
      <4>3. CASE n \notin cut' /\ (n \in up \/ call[n].at \in SetupSteps)
        <5>1. ASSUME NEW kind, Has(n, kind)
              PROVE  Has(n, kind)'
          <6>1. PICK c \in Chains : c = ChainOf(kind)
            BY <3>3
          <6>2. PICK j \in DOMAIN chain[c] : chain[c][j] = [of |-> n, kind |-> kind]
            BY <5>1, <6>1 DEF Has
          <6>3. \E k \in DOMAIN chain'[c] : chain'[c][k] = chain[c][j]
            <7>1. chain[c][j].of = n
              BY <6>2
            <7> QED
              BY <2>4, <3>5, <4>3, <7>1, OthersDelete
          <6> QED
            BY <6>1, <6>2, <6>3 DEF Has
        <5> QED
          BY <3>1, <4>1, <4>3, <5>1 DEF SetupInv
      <4>4. CASE n \notin up /\ call[n].at \notin SetupSteps
        BY <3>1, <3>2, <4>4 DEF SetupInv
      <4> QED
        BY <4>2, <4>3, <4>4
    <3> QED
      BY <3>4, <3>5
  <2> QED
    BY <2>3, <2>4
<1> QED
  BY <1>1, <1>2

LEMMA SetupInvInit == Init => \A n \in Names : SetupInv(n)
<1>1. Added("idle") = {}
  BY DEF Added
<1> QED
  BY <1>1 DEF Init, SetupInv, NoCall

-----------------------------------------------------------------------------
(* The theorems *)

\* A teardown none of whose commands failed leaves no rule of its instance in a
\* chain in which no other moved its lines (removeIptablesRulesByComment), for
\* any number of instances that start and stop meanwhile, whatever names are part
\* of others and whatever failed in earlier set-ups and teardowns.
THEOREM TeardownLeavesNoRule == Spec => []TeardownSweeps
<1>1. RulesInv => TeardownSweeps
  BY DEF RulesInv, TeardownInv, TeardownSweeps, TeardownSteps, Chains
<1> QED
  BY <1>1, RulesInvariance, PTL

\* There are exactly three ways for a rule to go (TeardownNetns deletes by line
\* number): its own teardown, one of a name alike, and one whose line numbers
\* another's deletion moved after the listing.
THEOREM RulesGoInThreeWays == Spec => OthersRulesStay
<1>1. RulesInv /\ [Next]_vars =>
        [\A n \in Names, c \in Chains :
          \/ Cardinality(RulesOf(n, c)) <= Cardinality(RulesOf(n, c)')
          \/ \E m \in Names : /\ call[m].at = "delete" /\ call[m].chain = c /\ call'[m] # call[m]
                              /\ (m = n \/ <<m, n>> \in Alike \/ c \in shifted[m])]_vars
  <2> SUFFICES ASSUME RulesInv, Next, NEW n \in Names, NEW c \in Chains,
                      ~(Cardinality(RulesOf(n, c)) <= Cardinality(RulesOf(n, c)'))
               PROVE  \E m \in Names :
                        /\ call[m].at = "delete" /\ call[m].chain = c /\ call'[m] # call[m]
                        /\ (m = n \/ <<m, n>> \in Alike \/ c \in shifted[m])
    OBVIOUS
  <2>1. PICK m \in Names : OwnStep(m) /\ (SetupMove(m) \/ TeardownMove(m) \/ CancelMove(m))
    BY Moves DEF RulesInv
  <2>2. Cardinality(RulesOf(n, c)) \in Nat
    <3>1. chain[c] \in Seq(Rule)
      BY DEF RulesInv, TypeOK
    <3>2. RulesOf(n, c) \subseteq 1 .. Len(chain[c]) /\ Len(chain[c]) \in Nat
      BY <3>1, LenProperties DEF RulesOf
    <3>3. IsFiniteSet(1 .. Len(chain[c]))
      BY <3>2, FS_Interval
    <3> QED
      BY <3>2, <3>3, FS_Subset, FS_CardinalityType
  <2>3. PICK i \in call[m].lines : call[m].at = "delete" /\ DeleteLine(m, i)
    <3>1. CASE m # n
      BY <2>1, <2>2, <3>1, OthersKeep DEF RulesInv
    <3>2. CASE m = n /\ call[m].at # "delete"
      <4>1. RulesOf(n, c) \subseteq RulesOf(n, c)' /\ IsFiniteSet(RulesOf(n, c)')
        BY <2>1, <3>2, OwnGrow
      <4> QED
        BY <4>1, FS_Subset
    <3>3. CASE m = n /\ call[m].at = "delete"
      <4>1. ASSUME UNCHANGED chain
            PROVE  FALSE
        BY <2>2, <4>1 DEF RulesOf
      <4> QED
        BY <2>1, <3>3, <4>1 DEF OwnStep, ChainStep, Kinds
    <3> QED
      BY <3>1, <3>2, <3>3
  <2>4. call[m].chain = c
    <3>1. CASE call[m].chain # c
      <4>1. chain'[c] = chain[c]
        BY <2>3, <3>1 DEF DeleteLine, RulesInv, TypeOK
      <4>2. RulesOf(n, c)' = RulesOf(n, c)
        BY <4>1 DEF RulesOf
      <4> QED
        BY <2>2, <4>2
    <3> QED
      BY <3>1
  <2>5. call'[m] # call[m]
    <3>1. call'[m].lines = call[m].lines \ {i}
      BY <2>3 DEF DeleteLine, RulesInv, TypeOK, Call
    <3> QED
      BY <3>1
  <2>6. m = n \/ <<m, n>> \in Alike \/ c \in shifted[m]
    BY <2>3, OthersDelete
  <2> QED
    BY <2>3, <2>4, <2>5, <2>6
<1> QED
  BY <1>1, RulesInvariance, PTL DEF Spec, OthersRulesStay

\* An instance that runs has all its rules but for those whose command failed
\* (SetupNetns only logs that) and those that went in one of the two ways above:
\* a cancelled set-up, which loses rules too, never gets to run.
THEOREM RunningKeepsItsRules == Spec => []RunningHasRules
<1> DEFINE SInv == \A n \in Names : SetupInv(n)
<1>1. RulesInv /\ SInv /\ [Next]_vars => SInv'
  BY SetupInvStep
<1>2. Init => SInv
  BY SetupInvInit
<1>3. RulesInv /\ SInv => RunningHasRules
  BY DEF SetupInv, Has, HasRules, RunningHasRules, RulesInv, TypeOK
<1> HIDE DEF SInv
<1> QED
  BY <1>1, <1>2, <1>3, RulesInvariance, PTL DEF Spec
=============================================================================
