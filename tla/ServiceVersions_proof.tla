----------------------- MODULE ServiceVersions_proof -----------------------
(***************************************************************************)
(* Theorems about commands that work on the versions of one service at the *)
(* same time: any clients, any commands that keep the assumptions of       *)
(* ServiceVersions, and any number of versions, edits and commands.        *)
(***************************************************************************)
EXTENDS ServiceVersions, SequenceTheorems, TLAPS

VersionsTypeOK ==
    /\ last \in Versions
    /\ active \subseteq 1 .. last
    /\ edits \in [Versions -> SUBSET Nat]
    /\ made \in Nat
    /\ chosen \in [Clients -> 0 .. last]
    /\ seen \in [Clients -> 0 .. last]
    /\ base \in [Clients -> SUBSET Nat]
    /\ edited \in [Clients -> Nat]

\* A client that knows of a highest version works on that one.
SeenIsChosen == \A c \in Clients : seen[c] # 0 => chosen[c] = seen[c]

KeptInv == VersionsTypeOK /\ SeenIsChosen /\ EditsKept

LEMMA InitKept == Init => KeptInv
<1> SUFFICES ASSUME Init PROVE KeptInv
  OBVIOUS
<1>1. 1 \in Versions /\ 1 .. 0 = {} /\ 1 .. 1 = {1}
  BY VersionsAssumption DEF Versions
<1>2. VersionsTypeOK
  BY <1>1 DEF Init, VersionsTypeOK
<1>3. SeenIsChosen /\ EditsKept
  BY <1>1 DEF Init, SeenIsChosen, EditsKept
<1> QED
  BY <1>2, <1>3 DEF KeptInv

\* What --version names is a version.
LEMMA NamedVersions ==
    ASSUME VersionsTypeOK, NEW flag \in VersionFlags
    PROVE  /\ Named(flag) \subseteq 1 .. last
           /\ flag = "latest" => Named(flag) = {last}
BY VersionsAssumption DEF Named, VersionsTypeOK, Versions

\* The steps that choose a version.
SelectStep(c) ==
    \E flag \in VersionFlags :
        \/ SelectPlain(c, flag)
        \/ \E value \in {"on", "off"} : SelectAutoclone(c, flag, value)
        \/ SelectForDeploy(c, flag)

\* The steps after which the versions and what a client knows of them are as before.
QuietStep(c) ==
    \/ Refuse(c) \/ Ask(c) \/ ServiceID(c) \/ CallFails(c)
    \/ \E flag \in VersionFlags : SelectNothing(c, flag)
    \/ EditConflicts(c) \/ WriteFile(c) \/ PlainCall(c) \/ DeleteService(c)

MoveStep(c) == Activate(c) \/ Deactivate(c) \/ Lock(c) \/ Stage(c) \/ Unstage(c)

LEMMA StepCases ==
    ASSUME NEW c \in Clients, Step(c)
    PROVE  \/ \E command \in Commands : Start(c, command)
           \/ SelectStep(c) \/ QuietStep(c) \/ MoveStep(c)
           \/ AutocloneVersion(c) \/ CloneCommand(c) \/ MakeEdit(c) \/ FindActive(c)
BY DEF Step, SelectStep, QuietStep, MoveStep

LEMMA StartKept ==
    ASSUME KeptInv, NEW c \in Clients, NEW command \in Commands, Start(c, command)
    PROVE  KeptInv'
BY DEF Start, api, KeptInv, VersionsTypeOK, SeenIsChosen, EditsKept, Versions

LEMMA SelectKept == ASSUME KeptInv, NEW c \in Clients, SelectStep(c) PROVE KeptInv'
<1>9. PICK flag \in VersionFlags :
        \E v \in Named(flag) : \E editable : Selects(c, v, flag, editable)
  BY DEF SelectStep, SelectPlain, SelectAutoclone, SelectForDeploy
<1>1. PICK v \in Named(flag) : \E editable : Selects(c, v, flag, editable)
  BY <1>9
<1>2. v \in 1 .. last /\ (flag = "latest" => v = last)
  BY <1>1, NamedVersions DEF KeptInv
<1>3. v \in Versions /\ last \in Nat /\ v \in 0 .. last /\ 0 \in 0 .. last /\ last \in 0 .. last
  BY <1>2, VersionsAssumption DEF KeptInv, VersionsTypeOK, Versions
<1>6. edits[v] \in SUBSET Nat
  BY <1>3 DEF KeptInv, VersionsTypeOK
<1>7. UNCHANGED <<last, active, edits, made, edited, strayed>>
  BY <1>1 DEF Selects, api
<1>8. VersionsTypeOK'
  BY <1>1, <1>3, <1>6, <1>7 DEF Selects, KeptInv, VersionsTypeOK
<1>4. SeenIsChosen'
  BY <1>1, <1>2 DEF Selects, KeptInv, VersionsTypeOK, SeenIsChosen, Versions
<1>5. EditsKept'
  BY <1>1 DEF Selects, api, KeptInv, EditsKept
<1> QED
  BY <1>8, <1>4, <1>5 DEF KeptInv

LEMMA QuietKept == ASSUME KeptInv, NEW c \in Clients, QuietStep(c) PROVE KeptInv'
<1>1. UNCHANGED <<last, active, edits, made, chosen, seen, base, edited, strayed>>
  BY DEF QuietStep, Refuse, Ask, ServiceID, CallFails, SelectNothing, EditConflicts,
         WriteFile, PlainCall, DeleteService, api, history
<1> QED
  BY <1>1 DEF KeptInv, VersionsTypeOK, SeenIsChosen, EditsKept

\* Only the active version changes, and becomes one that is there.
LEMMA MoveKept == ASSUME KeptInv, NEW c \in Clients, MoveStep(c) PROVE KeptInv'
<1>1. UNCHANGED <<last, edits, made, chosen, seen, base, edited, strayed>>
  BY DEF MoveStep, Activate, Deactivate, Lock, Stage, Unstage, Moves
<1>2. active' \subseteq active \cup {chosen[c]} /\ chosen[c] \in 1 .. last
  BY DEF MoveStep, Activate, Deactivate, Lock, Stage, Unstage, Moves
<1> QED
  BY <1>1, <1>2 DEF KeptInv, VersionsTypeOK, SeenIsChosen, EditsKept

\* The active version is one that is there.
LEMMA FindKept == ASSUME KeptInv, NEW c \in Clients, FindActive(c) PROVE KeptInv'
<1>1. /\ chosen'[c] \in active \cup {chosen[c]}
      /\ chosen' = [chosen EXCEPT ![c] = chosen'[c]]
      /\ base' = [base EXCEPT ![c] = base'[c]]
      /\ base'[c] = base[c] \/ \E v \in active : base'[c] = edits[v]
  <2>1. /\ chosen \in [Clients -> 0 .. last] /\ base \in [Clients -> SUBSET Nat]
        /\ chosen = [chosen EXCEPT ![c] = chosen[c]] /\ base = [base EXCEPT ![c] = base[c]]
    BY DEF KeptInv, VersionsTypeOK
  <2>2. CASE UNCHANGED <<chosen, base>>
    BY <2>1, <2>2
  <2>3. CASE \E v \in active : /\ chosen' = [chosen EXCEPT ![c] = v]
                               /\ base' = [base EXCEPT ![c] = edits[v]]
    BY <2>1, <2>3
  <2> QED
    BY <2>2, <2>3 DEF FindActive
<1>2. \A v \in active : v \in 0 .. last /\ v \in Versions
  BY VersionsAssumption DEF KeptInv, VersionsTypeOK, Versions
<1>3. chosen' \in [Clients -> 0 .. last] /\ base' \in [Clients -> SUBSET Nat]
  BY <1>1, <1>2 DEF KeptInv, VersionsTypeOK
<1>4. /\ UNCHANGED <<last, active, edits, made, edited, strayed>>
      /\ seen' = [seen EXCEPT ![c] = 0]
  BY DEF FindActive, api
<1>7. 0 \in 0 .. last
  BY VersionsAssumption DEF KeptInv, VersionsTypeOK, Versions
<1>5. VersionsTypeOK'
  BY <1>3, <1>4, <1>7 DEF KeptInv, VersionsTypeOK
<1>6. SeenIsChosen'
  BY <1>1, <1>4 DEF KeptInv, VersionsTypeOK, SeenIsChosen
<1> QED
  BY <1>4, <1>5, <1>6 DEF KeptInv, EditsKept

\* A clone is a new highest version with the contents of the old one; if it is
\* not, the client has not seen the highest.
LEMMA CloneFacts ==
    ASSUME VersionsTypeOK, NEW c \in Clients, AutocloneVersion(c) \/ CloneCommand(c)
    PROVE  /\ last' = last + 1 /\ last \in Nat /\ last + 1 \in Versions
           /\ chosen[c] \in 1 .. last
           /\ edits' = [edits EXCEPT ![last + 1] = edits[chosen[c]]]
           /\ UNCHANGED <<active, made, base, edited>>
BY VersionsAssumption
DEF AutocloneVersion, CloneCommand, CloneVersion, Adopts, VersionsTypeOK, Versions

LEMMA CloneKept ==
    ASSUME KeptInv, NEW c \in Clients, AutocloneVersion(c) \/ CloneCommand(c)
    PROVE  KeptInv'
<1>1. /\ last' = last + 1 /\ last \in Nat /\ last + 1 \in Versions /\ chosen[c] \in 1 .. last
      /\ edits' = [edits EXCEPT ![last + 1] = edits[chosen[c]]]
      /\ UNCHANGED <<active, made, base, edited>>
  BY CloneFacts DEF KeptInv
<1>2. chosen[c] \in Versions
  BY <1>1, VersionsAssumption DEF Versions
<1>3. strayed' = (strayed \/ seen[c] # last)
  BY DEF AutocloneVersion, CloneCommand, Adopts
<1>4. /\ chosen' \in [Clients -> 0 .. last + 1] /\ seen' \in [Clients -> 0 .. last + 1]
      /\ SeenIsChosen'
  <2>1. /\ chosen \in [Clients -> 0 .. last + 1] /\ seen \in [Clients -> 0 .. last + 1]
        /\ last + 1 \in 0 .. last + 1 /\ 0 \in 0 .. last + 1 /\ last # 0
    BY <1>1 DEF KeptInv, VersionsTypeOK
  <2>2. CASE AutocloneVersion(c)
    BY <2>1, <2>2 DEF AutocloneVersion, Adopts, KeptInv, SeenIsChosen
  <2>3. CASE CloneCommand(c)
    BY <2>1, <2>3 DEF CloneCommand, KeptInv, SeenIsChosen
  <2> QED
    BY <2>2, <2>3
<1>5. VersionsTypeOK'
  <2>1. active \subseteq 1 .. last + 1
    BY <1>1 DEF KeptInv, VersionsTypeOK
  <2>2. edits' \in [Versions -> SUBSET Nat]
    BY <1>1, <1>2 DEF KeptInv, VersionsTypeOK
  <2> QED
    BY <1>1, <1>4, <2>1, <2>2 DEF KeptInv, VersionsTypeOK
<1>6. EditsKept'
  <2> SUFFICES ASSUME ~strayed' PROVE edits'[last'] = 1 .. made'
    BY DEF EditsKept
  <2>1. ~strayed /\ seen[c] = last
    BY <1>3
  <2>2. chosen[c] = last
    BY <1>1, <2>1 DEF KeptInv, SeenIsChosen
  <2>3. edits'[last + 1] = edits[last]
    BY <1>1, <2>2 DEF KeptInv, VersionsTypeOK
  <2> QED
    BY <1>1, <2>1, <2>3 DEF KeptInv, EditsKept
<1> QED
  BY <1>4, <1>5, <1>6 DEF KeptInv

LEMMA EditFacts ==
    ASSUME VersionsTypeOK, NEW c \in Clients, MakeEdit(c)
    PROVE  /\ made' = made + 1 /\ made \in Nat /\ chosen[c] \in 1 .. last /\ last \in Nat
           /\ edits' = [edits EXCEPT ![chosen[c]] = @ \cup {made + 1}]
           /\ edited' = [edited EXCEPT ![c] = made + 1]
           /\ strayed' = (strayed \/ seen[c] # last)
           /\ UNCHANGED <<last, active, chosen, base, seen>>
BY DEF MakeEdit, VersionsTypeOK, Versions

LEMMA EditKept == ASSUME KeptInv, NEW c \in Clients, MakeEdit(c) PROVE KeptInv'
<1>1. /\ made' = made + 1 /\ made \in Nat /\ chosen[c] \in 1 .. last /\ last \in Nat
      /\ edits' = [edits EXCEPT ![chosen[c]] = @ \cup {made + 1}]
      /\ edited' = [edited EXCEPT ![c] = made + 1]
      /\ strayed' = (strayed \/ seen[c] # last)
      /\ UNCHANGED <<last, active, chosen, base, seen>>
  BY EditFacts DEF KeptInv
<1>2. chosen[c] \in Versions
  BY <1>1, VersionsAssumption DEF KeptInv, VersionsTypeOK, Versions
<1>3. VersionsTypeOK' /\ SeenIsChosen'
  BY <1>1, <1>2 DEF KeptInv, VersionsTypeOK, SeenIsChosen
<1>4. EditsKept'
  <2> SUFFICES ASSUME ~strayed' PROVE edits'[last'] = 1 .. made'
    BY DEF EditsKept
  <2>1. ~strayed /\ seen[c] = last
    BY <1>1
  <2>2. chosen[c] = last
    BY <1>1, <2>1 DEF KeptInv, SeenIsChosen
  <2>3. edits'[last] = edits[last] \cup {made + 1}
    BY <1>1, <1>2, <2>2 DEF KeptInv, VersionsTypeOK
  <2>4. 1 .. made + 1 = (1 .. made) \cup {made + 1}
    BY <1>1
  <2> QED
    BY <1>1, <2>1, <2>3, <2>4 DEF KeptInv, EditsKept
<1> QED
  BY <1>3, <1>4 DEF KeptInv

LEMMA NextKept == ASSUME KeptInv, [Next]_vars PROVE KeptInv'
<1>1. ASSUME NEW c \in Clients, Step(c) PROVE KeptInv'
  BY <1>1, StepCases, StartKept, SelectKept, QuietKept, MoveKept, CloneKept, EditKept, FindKept
<1>2. CASE UNCHANGED vars
  BY <1>2 DEF vars, api, client, history, KeptInv, VersionsTypeOK, SeenIsChosen, EditsKept
<1> QED
  BY <1>1, <1>2 DEF Next

\* Whatever commands run, and however many: if nobody edited or cloned anything but
\* the highest version, which he had listed as that, it contains every edit made.
THEOREM EditsAreKept == Spec => []EditsKept
<1>1. KeptInv => EditsKept
  BY DEF KeptInv
<1> QED
  BY <1>1, InitKept, NextKept, PTL DEF Spec

-----------------------------------------------------------------------------
(* The order of the steps of a command.                                    *)

\* None of the steps of s is one of B.
Free(s, B) == \A i \in 1 .. Len(s) : s[i].step \notin B

Steps == Seq(AllSteps)

TodoTypeOK == todo \in [Clients -> Steps] /\ outcome \in [Clients -> Outcomes]

\* What a selection puts in front of the steps of a command.
Prefixes ==
    {<<Autoclone>>, <<Reads, Refusable, MayStop>> \o <<Autoclone>>,
     <<Reads, Refusable, MayStop>> \o << >>}

\* t is s without its first step, or without more of its first steps.
RestOf(s, t) ==
    \E k \in Nat \ {0} : \A i \in 1 .. Len(t) : i + k \in 1 .. Len(s) /\ t[i] = s[i + k]

\* What a client has still to do after a step.
Advances(s, t) ==
    /\ s # << >> /\ t \in Steps
    /\ \/ RestOf(s, t)
       \/ /\ Head(s).step \in {"select", "deployselect"}
          /\ \E p \in Prefixes : t = p \o Tail(s)

LEMMA TailRest ==
    ASSUME NEW s \in Steps, s # << >>
    PROVE  /\ Tail(s) \in Steps /\ RestOf(s, Tail(s)) /\ RestOf(s, << >>)
           /\ 1 \in 1 .. Len(s) /\ Head(s) = s[1] /\ Len(s) \in Nat
<1>1. /\ Tail(s) \in Steps /\ Len(Tail(s)) = Len(s) - 1 /\ Len(s) \in Nat \ {0}
      /\ \A i \in 1 .. Len(Tail(s)) : Tail(s)[i] = s[i + 1]
      /\ Head(s) = s[1]
  BY HeadTailProperties, EmptySeq DEF Steps
<1>2. 1 \in Nat \ {0} /\ \A i \in 1 .. Len(Tail(s)) : i + 1 \in 1 .. Len(s)
  BY <1>1
<1>3. RestOf(s, Tail(s))
  BY <1>1, <1>2 DEF RestOf
<1>4. RestOf(s, << >>)
  BY DEF RestOf
<1> QED
  BY <1>1, <1>3, <1>4

LEMMA SkipRest ==
    ASSUME NEW s \in Steps
    PROVE  SubSeq(s, 3, Len(s)) \in Steps /\ RestOf(s, SubSeq(s, 3, Len(s)))
<1> DEFINE t == SubSeq(s, 3, Len(s))
<1>1. Len(s) \in Nat /\ \A i \in 3 .. Len(s) : s[i] \in AllSteps
  BY DEF Steps
<1>2. /\ t \in Seq(AllSteps)
      /\ Len(t) = IF 3 <= Len(s) THEN Len(s) - 3 + 1 ELSE 0
      /\ \A i \in 1 .. Len(s) - 3 + 1 : t[i] = s[3 + i - 1]
  BY <1>1, SubSeqProperties
<1>3. 2 \in Nat \ {0} /\ \A i \in 1 .. Len(t) : i + 2 \in 1 .. Len(s) /\ t[i] = s[i + 2]
  <2> HIDE DEF t
  <2> QED
    BY <1>1, <1>2
<1> QED
  BY <1>2, <1>3 DEF RestOf, Steps

LEMMA Joined ==
    ASSUME NEW p \in Steps, NEW s \in Steps, NEW A, NEW B
    PROVE  /\ p \o s \in Steps
           /\ Free(p, B) /\ Free(s, B) => Free(p \o s, B)
           /\ Free(p, A) /\ NotAfter(s, A, B) => NotAfter(p \o s, A, B)
<1> DEFINE t == p \o s
<1>1. /\ t \in Steps /\ Len(t) = Len(p) + Len(s) /\ Len(p) \in Nat /\ Len(s) \in Nat
      /\ \A i \in 1 .. Len(p) + Len(s) : t[i] = IF i <= Len(p) THEN p[i] ELSE s[i - Len(p)]
  BY ConcatProperties DEF Steps
<1> HIDE DEF t
<1>2. ASSUME NEW i \in 1 .. Len(t)
      PROVE  \/ i \in 1 .. Len(p) /\ t[i] = p[i]
             \/ i - Len(p) \in 1 .. Len(s) /\ t[i] = s[i - Len(p)]
  BY <1>1
<1>3. Free(p, B) /\ Free(s, B) => Free(t, B)
  BY <1>2 DEF Free
<1>4. ASSUME Free(p, A), NotAfter(s, A, B), NEW i \in 1 .. Len(t), NEW j \in 1 .. Len(t),
             i < j, t[i].step \in A
      PROVE  t[j].step \notin B
  <2>1. i - Len(p) \in 1 .. Len(s) /\ t[i] = s[i - Len(p)]
    BY <1>2, <1>4 DEF Free
  <2>2. j - Len(p) \in 1 .. Len(s) /\ t[j] = s[j - Len(p)] /\ i - Len(p) < j - Len(p)
    BY <2>1, <1>1, <1>4
  <2> QED
    BY <2>1, <2>2, <1>4 DEF NotAfter
<1>5. Free(p, A) /\ NotAfter(s, A, B) => NotAfter(t, A, B)
  BY <1>4 DEF NotAfter
<1> QED
  BY <1>1, <1>3, <1>5 DEF t

LEMMA Rested ==
    ASSUME NEW s \in Steps, NEW t \in Steps, RestOf(s, t), s # << >>, NEW A, NEW B
    PROVE  /\ Free(s, B) => Free(t, B)
           /\ NotAfter(s, A, B) => NotAfter(t, A, B)
           /\ NotAfter(s, A, B) /\ Head(s).step \in A => Free(t, B)
<1>1. PICK k \in Nat \ {0} : \A i \in 1 .. Len(t) : i + k \in 1 .. Len(s) /\ t[i] = s[i + k]
  BY DEF RestOf
<1>2. 1 \in 1 .. Len(s) /\ Head(s) = s[1]
  BY TailRest
<1>3. Free(s, B) => Free(t, B)
  BY <1>1 DEF Free
<1>4. \A i, j \in 1 .. Len(t) : i < j => i + k < j + k
  BY Len(t) \in Nat DEF Steps
<1>5. NotAfter(s, A, B) => NotAfter(t, A, B)
  BY <1>1, <1>4 DEF NotAfter
<1>6. \A i \in 1 .. Len(t) : 1 < i + k
  BY <1>1, Len(t) \in Nat DEF Steps
<1>7. NotAfter(s, A, B) /\ Head(s).step \in A => Free(t, B)
  BY <1>1, <1>2, <1>6 DEF NotAfter, Free
<1> QED
  BY <1>3, <1>5, <1>7

Quiet == {"autoclone", "read", "refuse", "maystop"}

LEMMA PrefixSteps ==
    ASSUME NEW p \in Prefixes, NEW B, B \cap Quiet = {}
    PROVE  p \in Steps /\ Free(p, B)
<1> DEFINE q == <<Reads, Refusable, MayStop>>
           a == <<Autoclone>>
<1>1. /\ Autoclone \in AllSteps /\ Reads \in AllSteps /\ Refusable \in AllSteps
      /\ MayStop \in AllSteps
  BY DEF AllSteps, StepNames, Autoclone, Reads, Refusable, MayStop
<1>2. /\ Autoclone.step = "autoclone" /\ Reads.step = "read" /\ Refusable.step = "refuse"
      /\ MayStop.step = "maystop"
  BY DEF Autoclone, Reads, Refusable, MayStop
<1>3. a \in Steps /\ q \in Steps /\ << >> \in Steps
  BY <1>1 DEF Steps
<1>4. Free(a, B) /\ Free(q, B) /\ Free(<< >>, B)
  BY <1>2 DEF Free, Quiet
<1> HIDE DEF q, a
<1>5. /\ q \o a \in Steps /\ Free(q \o a, B)
      /\ q \o << >> \in Steps /\ Free(q \o << >>, B)
  BY <1>3, <1>4, Joined
<1> QED
  BY <1>3, <1>4, <1>5 DEF Prefixes, q, a

\* What holds of the order of a command's steps holds of what is left of it.
LEMMA Advanced ==
    ASSUME NEW s \in Steps, NEW t, Advances(s, t), NEW A, NEW B,
           A \cap Quiet = {}, {"select", "deployselect"} \subseteq B
    PROVE  /\ NotAfter(s, A, B) => NotAfter(t, A, B)
           /\ NotAfter(s, A, B) /\ Head(s).step \in A \ B => Free(t, B)
           /\ Free(s, B) => Free(t, B)
<1>1. s # << >> /\ t \in Steps
  BY DEF Advances
<1>2. CASE RestOf(s, t)
  BY <1>1, <1>2, Rested
<1>3. CASE Head(s).step \in {"select", "deployselect"} /\ \E p \in Prefixes : t = p \o Tail(s)
  <2>1. PICK p \in Prefixes : t = p \o Tail(s)
    BY <1>3
  <2>2. p \in Steps /\ Free(p, A)
    BY PrefixSteps
  <2>3. Tail(s) \in Steps /\ RestOf(s, Tail(s)) /\ 1 \in 1 .. Len(s) /\ Head(s) = s[1]
    BY <1>1, TailRest
  <2>4. NotAfter(s, A, B) => NotAfter(t, A, B)
    BY <1>1, <2>1, <2>2, <2>3, Rested, Joined
  <2>5. Head(s).step \in B /\ ~Free(s, B)
    BY <1>3, <2>3 DEF Free
  <2> QED
    BY <2>4, <2>5
<1> QED
  BY <1>2, <1>3 DEF Advances

\* A command goes on, maybe with a clone or a question first, or leaves steps out.
Goes(c) ==
    \/ GoesOn(c)
    \/ GoesOnWith(c, SubSeq(todo[c], 3, Len(todo[c])))
    \/ /\ Head(todo[c]).step \in {"select", "deployselect"}
       /\ \E p \in Prefixes : GoesOnWith(c, p \o Tail(todo[c]))

\* A step of a command that runs.
Works(c) ==
    /\ outcome[c] = "running" /\ todo[c] # << >>
    /\ Goes(c) \/ \E how \in Outcomes \ {"running"} : Ends(c, how)

LEMMA StepWorks ==
    ASSUME NEW c \in Clients, Step(c), ~(\E command \in Commands : Start(c, command))
    PROVE  Works(c)
<1> USE DEF Works, Goes, AtStep, Outcomes
<1>1. CASE Refuse(c) \/ Ask(c) \/ ServiceID(c)
  BY <1>1 DEF Refuse, Ask, ServiceID
<1>2. CASE CallFails(c) \/ EditConflicts(c) \/ WriteFile(c) \/ PlainCall(c) \/ DeleteService(c)
  BY <1>2 DEF CallFails, EditConflicts, WriteFile, PlainCall, DeleteService
<1>3. CASE \E flag \in VersionFlags : SelectNothing(c, flag)
  BY <1>3 DEF SelectNothing
<1>4. CASE \E flag \in VersionFlags : SelectPlain(c, flag)
  BY <1>4 DEF SelectPlain
<1>5. CASE \E flag \in VersionFlags, value \in {"on", "off"} : SelectAutoclone(c, flag, value)
  BY <1>5 DEF SelectAutoclone, Prefixes
<1>6. CASE \E flag \in VersionFlags : SelectForDeploy(c, flag)
  BY <1>6 DEF SelectForDeploy, Prefixes
<1>7. CASE MoveStep(c)
  BY <1>7 DEF MoveStep, Activate, Deactivate, Lock, Stage, Unstage, Moves
<1>8. CASE AutocloneVersion(c) \/ CloneCommand(c) \/ MakeEdit(c)
  BY <1>8 DEF AutocloneVersion, Adopts, CloneCommand, MakeEdit
<1>9. CASE FindActive(c)
  BY <1>9 DEF FindActive
<1> QED
  BY <1>1, <1>2, <1>3, <1>4, <1>5, <1>6, <1>7, <1>8, <1>9 DEF Step, MoveStep

LEMMA WorksAdvances ==
    ASSUME TodoTypeOK, NEW c \in Clients, Works(c)
    PROVE  /\ TodoTypeOK' /\ Advances(todo[c], todo'[c])
           /\ \A d \in Clients \ {c} : todo'[d] = todo[d] /\ outcome'[d] = outcome[d]
           /\ outcome'[c] \in {"running", "ok"} \/ Ends(c, outcome'[c])
<1>1. todo[c] \in Steps /\ todo[c] # << >> /\ outcome[c] = "running" /\ << >> \in Steps
  BY DEF Works, TodoTypeOK, Steps
<1>2. ASSUME NEW rest, Advances(todo[c], rest), GoesOnWith(c, rest)
      PROVE  /\ TodoTypeOK' /\ Advances(todo[c], todo'[c])
             /\ \A d \in Clients \ {c} : todo'[d] = todo[d] /\ outcome'[d] = outcome[d]
             /\ outcome'[c] \in {"running", "ok"}
  BY <1>1, <1>2 DEF GoesOnWith, TodoTypeOK, Advances, Outcomes
<1>3. CASE GoesOn(c)
  BY <1>1, <1>2, <1>3, TailRest DEF GoesOn, Advances
<1>4. CASE GoesOnWith(c, SubSeq(todo[c], 3, Len(todo[c])))
  BY <1>1, <1>2, <1>4, SkipRest DEF Advances
<1>5. CASE /\ Head(todo[c]).step \in {"select", "deployselect"}
           /\ \E p \in Prefixes : GoesOnWith(c, p \o Tail(todo[c]))
  <2>1. PICK p \in Prefixes : GoesOnWith(c, p \o Tail(todo[c]))
    BY <1>5
  <2>2. {} \cap Quiet = {}
    OBVIOUS
  <2>3. p \o Tail(todo[c]) \in Steps
    BY <1>1, <2>2, TailRest, PrefixSteps, Joined
  <2> QED
    BY <1>1, <1>2, <1>5, <2>1, <2>3 DEF Advances
<1>6. CASE \E how \in Outcomes \ {"running"} : Ends(c, how)
  <2>1. PICK how \in Outcomes \ {"running"} : Ends(c, how)
    BY <1>6
  <2>2. RestOf(todo[c], << >>)
    BY <1>1, TailRest
  <2> QED
    BY <1>1, <2>1, <2>2 DEF Ends, TodoTypeOK, Advances
<1> QED
  BY <1>3, <1>4, <1>5, <1>6 DEF Works, Goes

LEMMA StepAdvances ==
    ASSUME TodoTypeOK, NEW c \in Clients, Step(c)
    PROVE  /\ TodoTypeOK' /\ todo[c] \in Steps
           /\ \A d \in Clients \ {c} : todo'[d] = todo[d] /\ outcome'[d] = outcome[d]
           /\ \/ \E command \in Commands : Start(c, command) /\ todo'[c] = command
              \/ /\ ~(\E command \in Commands : Start(c, command))
                 /\ Advances(todo[c], todo'[c])
<1>1. CASE \E command \in Commands : Start(c, command)
  <2>1. PICK command \in Commands : Start(c, command)
    BY <1>1
  <2>2. command \in Steps
    BY CommandsAssumption DEF Steps
  <2> QED
    BY <2>1, <2>2 DEF Start, TodoTypeOK, Outcomes
<1>2. CASE ~(\E command \in Commands : Start(c, command))
  BY <1>2, StepWorks, WorksAdvances DEF TodoTypeOK
<1> QED
  BY <1>1, <1>2

\* If every command keeps A before B, so does what the clients have still to do.
LEMMA OrderKept ==
    ASSUME TodoTypeOK, NEW c \in Clients, Step(c), NEW A, NEW B,
           A \cap Quiet = {}, {"select", "deployselect"} \subseteq B,
           \A row \in Commands : NotAfter(row, A, B),
           \A d \in Clients : NotAfter(todo[d], A, B)
    PROVE  \A d \in Clients : NotAfter(todo'[d], A, B)
<1>1. NotAfter(todo'[c], A, B)
  BY StepAdvances, Advanced
<1> QED
  BY <1>1, StepAdvances

-----------------------------------------------------------------------------
(* A command builds on its selection.                                      *)

SelectionsDone ==
    \A c \in Clients :
        /\ NotAfter(todo[c], {"edit"}, Selecting)
        /\ edited[c] # 0 => Free(todo[c], Selecting)

BuildInv == VersionsTypeOK /\ TodoTypeOK /\ SelectionsDone /\ BuildsOnSelection

LEMMA SelectingHead ==
    ASSUME TodoTypeOK, SelectionsDone, NEW c \in Clients, SelectStep(c) \/ FindActive(c)
    PROVE  edited[c] = 0
<1>1. todo[c] # << >> /\ Head(todo[c]).step \in Selecting
  BY DEF SelectStep, SelectPlain, SelectAutoclone, SelectForDeploy, FindActive, AtStep, Selecting
<1>2. 1 \in 1 .. Len(todo[c]) /\ Head(todo[c]) = todo[c][1]
  BY <1>1, TailRest DEF TodoTypeOK
<1> QED
  BY <1>1, <1>2 DEF SelectionsDone, Free

LEMMA EditedStep ==
    ASSUME VersionsTypeOK, NEW c \in Clients, Step(c)
    PROVE  /\ \A d \in Clients \ {c} : edited'[d] = edited[d]
           /\ \/ \E command \in Commands : Start(c, command) /\ edited'[c] = 0
              \/ edited'[c] = edited[c]
              \/ Head(todo[c]).step = "edit"
<1>1. CASE \E command \in Commands : Start(c, command)
  BY <1>1 DEF Start, VersionsTypeOK
<1>2. CASE MakeEdit(c)
  BY <1>2 DEF MakeEdit, AtStep, VersionsTypeOK
<1>3. CASE SelectStep(c)
  BY <1>3 DEF SelectStep, SelectPlain, SelectAutoclone, SelectForDeploy, Selects
<1>4. CASE QuietStep(c)
  BY <1>4 DEF QuietStep, Refuse, Ask, ServiceID, CallFails, SelectNothing, EditConflicts,
              WriteFile, PlainCall, DeleteService, history
<1>5. CASE MoveStep(c)
  BY <1>5 DEF MoveStep, Activate, Deactivate, Lock, Stage, Unstage, Moves
<1>6. CASE AutocloneVersion(c) \/ CloneCommand(c) \/ FindActive(c)
  BY <1>6 DEF AutocloneVersion, Adopts, CloneCommand, FindActive
<1> QED
  BY <1>1, <1>2, <1>3, <1>4, <1>5, <1>6, StepCases

LEMMA SelectionsStay ==
    ASSUME VersionsTypeOK, TodoTypeOK, SelectionsDone, SelectsFirst, NEW c \in Clients, Step(c)
    PROVE  SelectionsDone'
<1>1. {"edit"} \cap Quiet = {} /\ {"select", "deployselect"} \subseteq Selecting
      /\ "edit" \notin Selecting
  BY DEF Quiet, Selecting
<1>2. \A d \in Clients : NotAfter(todo'[d], {"edit"}, Selecting)
  BY <1>1, OrderKept DEF SelectionsDone, SelectsFirst
<1>3. ASSUME edited'[c] # 0 PROVE Free(todo'[c], Selecting)
  <2>1. CASE \E command \in Commands : Start(c, command)
    BY <1>3, <2>1 DEF Start, VersionsTypeOK
  <2>2. CASE ~(\E command \in Commands : Start(c, command))
    <3>1. Advances(todo[c], todo'[c]) /\ todo[c] \in Steps
      BY <2>2, StepAdvances
    <3>2. edited'[c] = edited[c] \/ Head(todo[c]).step \in {"edit"} \ Selecting
      BY <1>1, <2>2, EditedStep
    <3>3. CASE edited'[c] = edited[c]
      BY <1>1, <1>3, <3>1, <3>3, Advanced DEF SelectionsDone
    <3>4. CASE Head(todo[c]).step \in {"edit"} \ Selecting
      BY <1>1, <3>1, <3>4, Advanced DEF SelectionsDone
    <3> QED
      BY <3>2, <3>3, <3>4
  <2> QED
    BY <2>1, <2>2
<1>4. ASSUME NEW d \in Clients \ {c}, edited'[d] # 0 PROVE Free(todo'[d], Selecting)
  BY <1>4, EditedStep, StepAdvances DEF SelectionsDone
<1> QED
  BY <1>2, <1>3, <1>4 DEF SelectionsDone, Free, NotAfter

LEMMA BuildStep ==
    ASSUME VersionsTypeOK, TodoTypeOK, SelectionsDone, BuildsOnSelection,
           NEW c \in Clients, Step(c)
    PROVE  BuildsOnSelection'
<1> SUFFICES ASSUME NEW d \in Clients, chosen'[d] # 0
             PROVE  /\ base'[d] \subseteq edits'[chosen'[d]]
                    /\ edited'[d] # 0 => edited'[d] \in edits'[chosen'[d]]
  BY DEF BuildsOnSelection
<1>1. CASE \E command \in Commands : Start(c, command)
  BY <1>1 DEF Start, api, VersionsTypeOK, BuildsOnSelection
<1>2. CASE SelectStep(c)
  <2>1. edited[c] = 0
    BY <1>2, SelectingHead
  <2>2. PICK v : /\ chosen' = [chosen EXCEPT ![c] = v]
                 /\ base' = [base EXCEPT ![c] = edits[v]]
                 /\ UNCHANGED <<edits, edited>>
    BY <1>2 DEF SelectStep, SelectPlain, SelectAutoclone, SelectForDeploy, Selects, api
  <2> QED
    BY <2>1, <2>2 DEF VersionsTypeOK, BuildsOnSelection
<1>3. CASE QuietStep(c)
  <2>1. UNCHANGED <<edits, chosen, base, edited>>
    BY <1>3 DEF QuietStep, Refuse, Ask, ServiceID, CallFails, SelectNothing, EditConflicts,
                WriteFile, PlainCall, DeleteService, api, history
  <2> QED
    BY <2>1 DEF BuildsOnSelection
<1>4. CASE MoveStep(c)
  <2>1. UNCHANGED <<edits, chosen, base, edited>>
    BY <1>4 DEF MoveStep, Activate, Deactivate, Lock, Stage, Unstage, Moves
  <2> QED
    BY <2>1 DEF BuildsOnSelection
<1>5. CASE AutocloneVersion(c) \/ CloneCommand(c)
  <2>1. /\ last \in Nat /\ last + 1 \in Versions /\ chosen[c] \in 1 .. last
        /\ edits' = [edits EXCEPT ![last + 1] = edits[chosen[c]]]
        /\ UNCHANGED <<base, edited>>
    BY <1>5, CloneFacts
  <2>2. edits'[last + 1] = edits[chosen[c]] /\ chosen[c] # 0
    BY <2>1 DEF VersionsTypeOK
  <2>3. ASSUME chosen[d] # 0, chosen'[d] = chosen[d]
        PROVE  edits'[chosen'[d]] = edits[chosen[d]]
    BY <2>1, <2>3 DEF VersionsTypeOK
  <2>4. \/ chosen'[d] = chosen[d]
        \/ d = c /\ chosen'[d] = last + 1
    BY <1>5 DEF AutocloneVersion, Adopts, CloneCommand, VersionsTypeOK
  <2> QED
    BY <2>1, <2>2, <2>3, <2>4 DEF BuildsOnSelection
<1>6. CASE MakeEdit(c)
  <2>1. /\ chosen[c] \in 1 .. last
        /\ edits' = [edits EXCEPT ![chosen[c]] = @ \cup {made + 1}]
        /\ edited' = [edited EXCEPT ![c] = made + 1]
        /\ UNCHANGED <<chosen, base>>
    BY <1>6, EditFacts
  <2>5. chosen[c] \in Versions /\ chosen[c] # 0
    BY <2>1, VersionsAssumption DEF VersionsTypeOK, Versions
  <2>2. chosen[d] \in Versions
    BY VersionsAssumption, <2>1 DEF VersionsTypeOK, Versions
  <2>3. edits[chosen[d]] \subseteq edits'[chosen[d]]
    BY <2>1, <2>2, <2>5 DEF VersionsTypeOK
  <2>4. made + 1 \in edits'[chosen[c]]
    BY <2>1, <2>5 DEF VersionsTypeOK
  <2> QED
    BY <2>1, <2>3, <2>4 DEF BuildsOnSelection, VersionsTypeOK
<1>7. CASE FindActive(c)
  <2>1. edited[c] = 0
    BY <1>7, SelectingHead
  <2>2. UNCHANGED <<edits, edited>>
    BY <1>7 DEF FindActive, api
  <2>3. \/ UNCHANGED <<chosen, base>>
        \/ \E v : /\ chosen' = [chosen EXCEPT ![c] = v]
                  /\ base' = [base EXCEPT ![c] = edits[v]]
    BY <1>7 DEF FindActive
  <2> QED
    BY <2>1, <2>2, <2>3 DEF VersionsTypeOK, BuildsOnSelection
<1> QED
  BY <1>1, <1>2, <1>3, <1>4, <1>5, <1>6, <1>7, StepCases

LEMMA TodoInit ==
    ASSUME Init
    PROVE  TodoTypeOK /\ \A c \in Clients : \A A, B : Free(todo[c], B) /\ NotAfter(todo[c], A, B)
BY DEF Init, TodoTypeOK, Steps, Outcomes, Free, NotAfter

\* Any commands that select no version once they have made an edit work on top of all
\* that the version they selected contained, and of their own edit: what they clone,
\* change and activate is never an older version than the one they were shown.
THEOREM BuildsOnWhatWasListed == ASSUME SelectsFirst PROVE Spec => []BuildsOnSelection
<1> DEFINE Inv == KeptInv /\ BuildInv
<1>1. Init => Inv
  <2> SUFFICES ASSUME Init PROVE Inv
    OBVIOUS
  <2>1. SelectionsDone /\ TodoTypeOK
    BY TodoInit DEF SelectionsDone
  <2>2. BuildsOnSelection
    BY DEF Init, BuildsOnSelection
  <2> QED
    BY <2>1, <2>2, InitKept DEF BuildInv, KeptInv
<1>2. Inv /\ [Next]_vars => Inv'
  <2> SUFFICES ASSUME Inv, [Next]_vars PROVE Inv'
    OBVIOUS
  <2>1. KeptInv'
    BY NextKept
  <2>2. CASE Next
    <3>1. PICK c \in Clients : Step(c)
      BY <2>2 DEF Next
    <3> QED
      BY <2>1, <3>1, StepAdvances, SelectionsStay, BuildStep DEF BuildInv, KeptInv
  <2>3. CASE UNCHANGED vars
    BY <2>1, <2>3 DEF vars, api, client, history, BuildInv, KeptInv, TodoTypeOK, SelectionsDone,
                      Free, NotAfter, BuildsOnSelection
  <2> QED
    BY <2>2, <2>3
<1>3. Inv => BuildsOnSelection
  BY DEF BuildInv
<1> QED
  BY <1>1, <1>2, <1>3, PTL DEF Spec

-----------------------------------------------------------------------------
(* A refusal comes before any change.                                      *)

ChecksDone ==
    /\ touched \in [Clients -> BOOLEAN]
    /\ \A c \in Clients :
           /\ NotAfter(todo[c], Changing, Checking)
           /\ touched[c] => Free(todo[c], Checking)

ChecksInv == TodoTypeOK /\ ChecksDone /\ RefusedUntouched

LEMMA TouchedStep ==
    ASSUME touched \in [Clients -> BOOLEAN], NEW c \in Clients, Step(c)
    PROVE  /\ touched' \in [Clients -> BOOLEAN]
           /\ \A d \in Clients \ {c} : touched'[d] = touched[d]
           /\ \/ \E command \in Commands : Start(c, command) /\ ~touched'[c]
              \/ touched'[c] = touched[c]
              \/ Head(todo[c]).step \in Changing
<1>1. CASE \E command \in Commands : Start(c, command)
  BY <1>1 DEF Start
<1>2. CASE SelectStep(c)
  BY <1>2 DEF SelectStep, SelectPlain, SelectAutoclone, SelectForDeploy, Selects
<1>3. CASE \/ Refuse(c) \/ Ask(c) \/ ServiceID(c) \/ CallFails(c) \/ EditConflicts(c)
           \/ WriteFile(c) \/ \E flag \in VersionFlags : SelectNothing(c, flag)
  BY <1>3 DEF Refuse, Ask, ServiceID, CallFails, SelectNothing, EditConflicts, WriteFile, history
<1>4. CASE PlainCall(c)
  <2>1. CASE AtStep(c, "call")
    BY <1>4, <2>1 DEF PlainCall, AtStep, Changing
  <2>2. CASE ~AtStep(c, "call")
    BY <1>4, <2>2 DEF PlainCall
  <2> QED
    BY <2>1, <2>2
<1>5. CASE MoveStep(c)
  BY <1>5 DEF MoveStep, Activate, Deactivate, Lock, Stage, Unstage, Moves, AtStep, Changing
<1>6. CASE CloneCommand(c) \/ MakeEdit(c) \/ DeleteService(c)
  BY <1>6 DEF CloneCommand, MakeEdit, DeleteService, AtStep, Changing
<1>7. CASE AutocloneVersion(c) \/ FindActive(c)
  BY <1>7 DEF AutocloneVersion, Adopts, FindActive
<1> QED
  BY <1>1, <1>2, <1>3, <1>4, <1>5, <1>6, <1>7, StepCases DEF QuietStep

LEMMA ChecksStay ==
    ASSUME TodoTypeOK, ChecksDone, ChecksFirst, NEW c \in Clients, Step(c)
    PROVE  ChecksDone'
<1>1. /\ Changing \cap Quiet = {} /\ {"select", "deployselect"} \subseteq Checking
      /\ Changing \cap Checking = {}
  BY DEF Quiet, Changing, Checking
<1>2. \A d \in Clients : NotAfter(todo'[d], Changing, Checking)
  BY <1>1, OrderKept DEF ChecksDone, ChecksFirst
<1>3. ASSUME touched'[c] PROVE Free(todo'[c], Checking)
  <2>1. ~(\E command \in Commands : Start(c, command))
    BY <1>3 DEF Start, ChecksDone
  <2>2. Advances(todo[c], todo'[c]) /\ todo[c] \in Steps
    BY <2>1, StepAdvances
  <2>3. CASE touched'[c] = touched[c]
    BY <1>1, <1>3, <2>2, <2>3, Advanced DEF ChecksDone
  <2>4. CASE Head(todo[c]).step \in Changing
    BY <1>1, <2>2, <2>4, Advanced DEF ChecksDone
  <2> QED
    BY <2>1, <2>3, <2>4, TouchedStep DEF ChecksDone
<1>4. ASSUME NEW d \in Clients \ {c}, touched'[d] PROVE Free(todo'[d], Checking)
  BY <1>4, TouchedStep, StepAdvances DEF ChecksDone
<1>5. touched' \in [Clients -> BOOLEAN]
  BY TouchedStep DEF ChecksDone
<1> QED
  BY <1>2, <1>3, <1>4, <1>5 DEF ChecksDone, Free, NotAfter

\* Only a step that checks something refuses or asks, and it changes nothing.
LEMMA OnlyChecksRefuse ==
    ASSUME TodoTypeOK, NEW c \in Clients, Step(c), outcome'[c] \in {"refused", "declined"}
    PROVE  /\ todo[c] # << >> /\ Head(todo[c]).step \in Checking
           /\ UNCHANGED touched
<1>1. ~(\E command \in Commands : Start(c, command))
  BY DEF Start, TodoTypeOK
<1>2. outcome[c] = "running" /\ todo[c] # << >>
  BY <1>1, StepWorks DEF Works
<1>3. \A rest : ~GoesOnWith(c, rest)
  BY <1>2 DEF GoesOnWith, TodoTypeOK
<1>4. \A how : Ends(c, how) => how \in {"refused", "declined"}
  BY DEF Ends, TodoTypeOK
<1>5. ~GoesOn(c)
  BY <1>3 DEF GoesOn
<1>6. CASE Refuse(c) \/ Ask(c) \/ ServiceID(c) \/ SelectStep(c)
           \/ \E flag \in VersionFlags : SelectNothing(c, flag)
  BY <1>2, <1>6 DEF Refuse, Ask, ServiceID, SelectStep, SelectPlain, SelectAutoclone,
                    SelectForDeploy, Selects, SelectNothing, AtStep, Checking, history
<1>7. ~CallFails(c) /\ ~EditConflicts(c)
  BY <1>4 DEF CallFails, EditConflicts
<1>8. ~WriteFile(c) /\ ~PlainCall(c) /\ ~DeleteService(c) /\ ~MoveStep(c)
  BY <1>5 DEF WriteFile, PlainCall, DeleteService, MoveStep, Activate, Deactivate, Lock, Stage,
              Unstage, Moves
<1>9. ~AutocloneVersion(c) /\ ~CloneCommand(c) /\ ~MakeEdit(c) /\ ~FindActive(c)
  BY <1>3, <1>5 DEF AutocloneVersion, Adopts, CloneCommand, MakeEdit, FindActive
<1> QED
  BY <1>1, <1>6, <1>7, <1>8, <1>9, StepCases DEF QuietStep

LEMMA RefusalStep ==
    ASSUME TodoTypeOK, ChecksDone, RefusedUntouched, NEW c \in Clients, Step(c)
    PROVE  RefusedUntouched'
<1>1. ASSUME outcome'[c] \in {"refused", "declined"} PROVE ~touched'[c]
  <2>1. /\ todo[c] # << >> /\ Head(todo[c]).step \in Checking
        /\ UNCHANGED touched
    BY <1>1, OnlyChecksRefuse
  <2>2. 1 \in 1 .. Len(todo[c]) /\ Head(todo[c]) = todo[c][1]
    BY <2>1, TailRest DEF TodoTypeOK
  <2> QED
    BY <2>1, <2>2 DEF ChecksDone, Free
<1>2. ASSUME NEW d \in Clients \ {c}, outcome'[d] \in {"refused", "declined"}
      PROVE  ~touched'[d]
  BY <1>2, StepAdvances, TouchedStep DEF ChecksDone, RefusedUntouched
<1> QED
  BY <1>1, <1>2 DEF RefusedUntouched

\* Any commands that check their arguments, the version they selected and their user's
\* consent before they change something have changed nothing when one of these stops
\* them, whatever other clients do meanwhile.
THEOREM RefusalsChangeNothing == ASSUME ChecksFirst PROVE Spec => []RefusedUntouched
<1>1. Init => ChecksInv
  BY TodoInit DEF Init, ChecksInv, ChecksDone, RefusedUntouched
<1>2. ChecksInv /\ [Next]_vars => ChecksInv'
  <2> SUFFICES ASSUME ChecksInv, [Next]_vars PROVE ChecksInv'
    OBVIOUS
  <2>1. CASE Next
    BY <2>1, StepAdvances, ChecksStay, RefusalStep DEF Next, ChecksInv
  <2>2. CASE UNCHANGED vars
    BY <2>2 DEF vars, client, history, ChecksInv, TodoTypeOK, ChecksDone, RefusedUntouched,
                Free, NotAfter
  <2> QED
    BY <2>1, <2>2
<1>3. ChecksInv => RefusedUntouched
  BY DEF ChecksInv
<1> QED
  BY <1>1, <1>2, <1>3, PTL DEF Spec

-----------------------------------------------------------------------------
(* A version that was selected to be edited can be edited.                 *)

\* A clone comes before the next edit.
ClonesFirst(s) ==
    \E i \in 1 .. Len(s) : s[i].step = "autoclone" /\ \A j \in 1 .. i : s[j].step # "edit"

\* The chosen version can be edited, will have been cloned before it is, or will not be.
Fit(c) == chosen[c] \notin Frozen \/ Free(todo[c], {"edit"}) \/ ClonesFirst(todo[c])

VersionsFit ==
    /\ locked \subseteq 1 .. last
    /\ promised \in [Clients -> BOOLEAN] /\ calm \in [Clients -> BOOLEAN]
    /\ \A c \in Clients :
           /\ NotAfter(todo[c], Freezing, Resuming)
           /\ outcome[c] = "running" /\ promised[c] /\ calm[c] => Fit(c)

FitInv == KeptInv /\ TodoTypeOK /\ VersionsFit /\ OnlyRacesConflict

\* Any step but an edit or the clone leaves the clone before the edits.
LEMMA FitStays ==
    ASSUME NEW s \in Steps, s # << >>, Head(s).step # "autoclone",
           Free(s, {"edit"}) \/ ClonesFirst(s)
    PROVE  Head(s).step # "edit" /\ (Free(Tail(s), {"edit"}) \/ ClonesFirst(Tail(s)))
<1>1. /\ Tail(s) \in Steps /\ Len(Tail(s)) = Len(s) - 1 /\ Len(s) \in Nat \ {0}
      /\ \A i \in 1 .. Len(Tail(s)) : Tail(s)[i] = s[i + 1]
      /\ Head(s) = s[1]
  BY HeadTailProperties, EmptySeq DEF Steps
<1>2. CASE Free(s, {"edit"})
  BY <1>1, <1>2 DEF Free
<1>3. CASE ClonesFirst(s)
  <2>1. PICK i \in 1 .. Len(s) : s[i].step = "autoclone" /\ \A j \in 1 .. i : s[j].step # "edit"
    BY <1>3 DEF ClonesFirst
  <2>2. i # 1 /\ i - 1 \in 1 .. Len(Tail(s)) /\ 1 \in 1 .. i
    BY <1>1, <2>1
  <2>3. Tail(s)[i - 1].step = "autoclone"
    BY <1>1, <2>1, <2>2
  <2>4. \A j \in 1 .. i - 1 : j \in 1 .. Len(Tail(s)) /\ j + 1 \in 1 .. i
    BY <1>1, <2>1
  <2>5. \A j \in 1 .. i - 1 : Tail(s)[j].step # "edit"
    BY <1>1, <2>1, <2>4
  <2> QED
    BY <1>1, <2>1, <2>2, <2>3, <2>5 DEF ClonesFirst
<1> QED
  BY <1>2, <1>3

\* What one client does to the others: their versions are frozen only with a notice.
LEMMA OthersFit ==
    ASSUME KeptInv, VersionsFit, NEW c \in Clients, Step(c), NEW d \in Clients \ {c}
    PROVE  /\ chosen'[d] = chosen[d] /\ promised'[d] = promised[d]
           /\ calm'[d] => calm[d]
           /\ calm'[d] /\ chosen[d] \notin Frozen => chosen'[d] \notin Frozen'
<1> USE DEF KeptInv, VersionsTypeOK, VersionsFit, Frozen
<1>1. CASE \E command \in Commands : Start(c, command)
  BY <1>1 DEF Start, api
<1>2. CASE SelectStep(c)
  <2>1. ASSUME NEW v, NEW flag, NEW editable, Selects(c, v, flag, editable)
        PROVE  /\ UNCHANGED <<active, locked>>
               /\ chosen'[d] = chosen[d] /\ promised'[d] = promised[d] /\ calm'[d] = calm[d]
    BY <2>1 DEF Selects, api
  <2>2. \E v, flag, editable : Selects(c, v, flag, editable)
    <3>1. ASSUME NEW flag, SelectPlain(c, flag)
          PROVE  \E v, f, editable : Selects(c, v, f, editable)
      BY ONLY <3>1 DEF SelectPlain
    <3>2. ASSUME NEW flag, NEW value, SelectAutoclone(c, flag, value)
          PROVE  \E v, f, editable : Selects(c, v, f, editable)
      BY ONLY <3>2 DEF SelectAutoclone
    <3>3. ASSUME NEW flag, SelectForDeploy(c, flag)
          PROVE  \E v, f, editable : Selects(c, v, f, editable)
      BY ONLY <3>3 DEF SelectForDeploy
    <3> QED
      BY ONLY <1>2, <3>1, <3>2, <3>3 DEF SelectStep
  <2> QED
    BY <2>1, <2>2
<1>3. CASE QuietStep(c)
  <2>1. UNCHANGED <<active, locked, chosen, promised, calm>>
    BY <1>3 DEF QuietStep, Refuse, Ask, ServiceID, CallFails, SelectNothing, EditConflicts,
                WriteFile, PlainCall, DeleteService, api, history
  <2> QED
    BY <2>1
<1>4. CASE MoveStep(c)
  <2>1. /\ UNCHANGED <<chosen, promised>> /\ Disturbs(c, chosen[c])
        /\ active' \subseteq active \cup {chosen[c]} /\ locked' \subseteq locked \cup {chosen[c]}
    BY <1>4 DEF MoveStep, Activate, Deactivate, Lock, Stage, Unstage, Moves, MayLock
  <2>2. calm'[d] = IF chosen[d] = chosen[c] THEN FALSE ELSE calm[d]
    BY <2>1 DEF Disturbs
  <2> QED
    BY <2>1, <2>2
<1>5. CASE AutocloneVersion(c) \/ CloneCommand(c) \/ MakeEdit(c) \/ FindActive(c)
  BY <1>5 DEF AutocloneVersion, Adopts, CloneCommand, CloneVersion, MakeEdit, FindActive, api
<1> QED
  BY <1>1, <1>2, <1>3, <1>4, <1>5, StepCases

LEMMA TypesFit ==
    ASSUME KeptInv, VersionsFit, NEW c \in Clients, Step(c)
    PROVE  /\ locked' \subseteq 1 .. last'
           /\ promised' \in [Clients -> BOOLEAN] /\ calm' \in [Clients -> BOOLEAN]
<1> USE DEF KeptInv, VersionsTypeOK, VersionsFit
<1>1. CASE \E command \in Commands : Start(c, command)
  BY <1>1 DEF Start, api
<1>2. CASE SelectStep(c)
  <2>1. PICK flag \in VersionFlags :
          \E v : \E editable \in BOOLEAN : Selects(c, v, flag, editable)
    BY <1>2 DEF SelectStep, SelectPlain, SelectAutoclone, SelectForDeploy
  <2> QED
    BY <2>1 DEF Selects, api
<1>3. CASE QuietStep(c)
  <2>1. UNCHANGED <<locked, last, promised, calm>>
    BY <1>3 DEF QuietStep, Refuse, Ask, ServiceID, CallFails, SelectNothing, EditConflicts,
                WriteFile, PlainCall, DeleteService, api, history
  <2> QED
    BY <2>1
<1>4. CASE MoveStep(c)
  <2>1. /\ UNCHANGED <<last, promised>> /\ Disturbs(c, chosen[c]) /\ chosen[c] \in 1 .. last
        /\ locked' \subseteq locked \cup {chosen[c]}
    BY <1>4 DEF MoveStep, Activate, Deactivate, Lock, Stage, Unstage, Moves, MayLock
  <2>2. calm' \in [Clients -> BOOLEAN]
    BY <2>1 DEF Disturbs
  <2> QED
    BY <2>1, <2>2
<1>5. CASE AutocloneVersion(c) \/ CloneCommand(c)
  <2>1. last' = last + 1 /\ last \in Nat /\ locked' = locked /\ promised' = promised
    BY <1>5, CloneFacts DEF AutocloneVersion, Adopts, CloneCommand, CloneVersion
  <2>2. calm' \in [Clients -> BOOLEAN]
    BY <1>5 DEF AutocloneVersion, Adopts, CloneCommand
  <2> QED
    BY <2>1, <2>2
<1>6. CASE MakeEdit(c) \/ FindActive(c)
  BY <1>6 DEF MakeEdit, FindActive, api
<1> QED
  BY <1>1, <1>2, <1>3, <1>4, <1>5, <1>6, StepCases

\* What a selection leaves the client with, unless it ends the command.
LEMMA SelectFits ==
    ASSUME KeptInv, TodoTypeOK, VersionsFit, NEW c \in Clients, SelectStep(c),
           outcome'[c] = "running", promised'[c]
    PROVE  Fit(c)'
<1>1. \A how \in Outcomes \ {"running"} : ~Ends(c, how)
  BY DEF Ends, TodoTypeOK
<1>2. {"refused"} \subseteq Outcomes \ {"running"} /\ {"edit"} \cap Quiet = {}
  BY DEF Outcomes, Quiet
<1>3. todo[c] \in Steps
  BY DEF TodoTypeOK
<1>4. PICK flag \in VersionFlags :
        \/ SelectPlain(c, flag)
        \/ \E value \in {"on", "off"} : SelectAutoclone(c, flag, value)
        \/ SelectForDeploy(c, flag)
  BY DEF SelectStep
<1>5. CASE SelectPlain(c, flag)
  <2> DEFINE demands == Head(todo[c])
  <2>1. PICK v \in Named(flag) :
          /\ IF MeetsDemands(v, demands) THEN GoesOn(c) ELSE Ends(c, "refused")
          /\ Selects(c, v, flag, demands.isActive = "no" /\ demands.isLocked = "no")
    BY <1>5 DEF SelectPlain
  <2>2. MeetsDemands(v, demands)
    BY <1>1, <1>2, <2>1
  <2>3. demands.isActive = "no" /\ demands.isLocked = "no"
    BY <2>1 DEF Selects, VersionsFit
  <2>4. v \notin active /\ v \notin locked
    BY <2>2, <2>3 DEF MeetsDemands, Meets
  <2>5. chosen'[c] = v /\ UNCHANGED <<active, locked>>
    BY <2>1 DEF Selects, api, KeptInv, VersionsTypeOK
  <2> QED
    BY <2>4, <2>5 DEF Fit, Frozen
<1>6. ASSUME NEW p \in Prefixes, todo'[c] = p \o Tail(todo[c]),
             NEW i \in 1 .. Len(p), p[i].step = "autoclone"
      PROVE  ClonesFirst(todo'[c])
  <2>1. p \in Steps /\ Free(p, {"edit"})
    BY <1>2, PrefixSteps
  <2>2. todo[c] # << >>
    BY <1>4 DEF SelectPlain, SelectAutoclone, SelectForDeploy, AtStep
  <2>3. Tail(todo[c]) \in Steps
    BY <1>3, <2>2, TailRest
  <2>4. /\ Len(p) \in Nat /\ Len(todo'[c]) = Len(p) + Len(Tail(todo[c]))
        /\ Len(Tail(todo[c])) \in Nat
        /\ \A j \in 1 .. Len(p) : todo'[c][j] = p[j]
    BY <1>6, <2>1, <2>3, ConcatProperties DEF Steps
  <2>5. i \in 1 .. Len(todo'[c]) /\ \A j \in 1 .. i : j \in 1 .. Len(p)
    BY <2>4
  <2> QED
    BY <1>6, <2>1, <2>4, <2>5 DEF ClonesFirst, Free
<1>7. ASSUME NEW rest, GoesOnWith(c, rest) PROVE todo'[c] = rest
  BY <1>7 DEF GoesOnWith, TodoTypeOK
<1>8. Autoclone.step = "autoclone"
  BY DEF Autoclone
<1>9. CASE \E value \in {"on", "off"} : SelectAutoclone(c, flag, value)
  <2>1. PICK value \in {"on", "off"}, v \in Named(flag) :
          /\ CASE v \notin Frozen -> GoesOn(c)
               [] v \in Frozen /\ value = "on"  -> GoesOnWith(c, <<Autoclone>> \o Tail(todo[c]))
               [] v \in Frozen /\ value = "off" -> Ends(c, "refused")
          /\ Selects(c, v, flag, TRUE)
    BY <1>9 DEF SelectAutoclone
  <2>2. chosen'[c] = v /\ UNCHANGED <<active, locked>>
    BY <2>1 DEF Selects, api, KeptInv, VersionsTypeOK
  <2>3. CASE v \notin Frozen
    BY <2>2, <2>3 DEF Fit, Frozen
  <2>4. CASE v \in Frozen
    <3>1. GoesOnWith(c, <<Autoclone>> \o Tail(todo[c]))
      BY <1>1, <1>2, <2>1, <2>4
    <3>2. todo'[c] = <<Autoclone>> \o Tail(todo[c])
      BY <1>7, <3>1
    <3>3. <<Autoclone>> \in Prefixes /\ 1 \in 1 .. Len(<<Autoclone>>)
          /\ <<Autoclone>>[1].step = "autoclone"
      BY <1>8 DEF Prefixes
    <3> QED
      BY <1>6, <3>2, <3>3 DEF Fit
  <2> QED
    BY <2>3, <2>4
<1>10. CASE SelectForDeploy(c, flag)
  <2>1. PICK v \in Named(flag) :
          /\ GoesOnWith(c, <<Reads, Refusable, MayStop>>
                           \o (IF v \in Frozen THEN <<Autoclone>> ELSE << >>)
                           \o Tail(todo[c]))
          /\ Selects(c, v, flag, TRUE)
    BY <1>10 DEF SelectForDeploy
  <2>2. chosen'[c] = v /\ UNCHANGED <<active, locked>>
    BY <2>1 DEF Selects, api, KeptInv, VersionsTypeOK
  <2>3. CASE v \notin Frozen
    BY <2>2, <2>3 DEF Fit, Frozen
  <2>4. CASE v \in Frozen
    <3> DEFINE p == <<Reads, Refusable, MayStop>> \o <<Autoclone>>
    <3>1. todo'[c] = p \o Tail(todo[c])
      BY <1>7, <2>1, <2>4
    <3>2. p \in Prefixes
      BY DEF Prefixes
    <3>3. 4 \in 1 .. Len(p) /\ p[4] = Autoclone
      OBVIOUS
    <3> HIDE DEF p
    <3> QED
      BY <1>6, <1>8, <3>1, <3>2, <3>3 DEF Fit
  <2> QED
    BY <2>3, <2>4
<1> QED
  BY <1>4, <1>5, <1>9, <1>10

\* The client itself: its version stays fit for the edits it has still to make.
LEMMA OwnFits ==
    ASSUME KeptInv, TodoTypeOK, VersionsFit, NEW c \in Clients, Step(c),
           outcome'[c] = "running", promised'[c], calm'[c]
    PROVE  Fit(c)'
<1>1. CASE \E command \in Commands : Start(c, command)
  BY <1>1 DEF Start, VersionsFit
<1>2. CASE SelectStep(c)
  BY <1>2, SelectFits
<1>3. ASSUME ~(\E command \in Commands : Start(c, command))
      PROVE  outcome[c] = "running" /\ todo[c] # << >> /\ todo[c] \in Steps
  BY <1>3, StepWorks DEF Works, TodoTypeOK
<1>4. \A how \in Outcomes \ {"running"} : ~Ends(c, how)
  BY DEF Ends, TodoTypeOK
<1>5. GoesOn(c) => todo'[c] = Tail(todo[c])
  BY DEF GoesOn, GoesOnWith, TodoTypeOK
<1>6. ASSUME outcome[c] = "running", todo[c] # << >>, GoesOn(c), chosen' = chosen,
             promised' = promised, calm[c],
             Frozen' \subseteq Frozen, Head(todo[c]).step # "autoclone"
      PROVE  Fit(c)'
  <2>1. Fit(c) /\ todo[c] \in Steps
    BY <1>6 DEF VersionsFit, TodoTypeOK
  <2>2. CASE chosen[c] \notin Frozen
    BY <1>6, <2>2 DEF Fit
  <2>3. CASE Free(todo[c], {"edit"}) \/ ClonesFirst(todo[c])
    BY <1>5, <1>6, <2>1, <2>3, FitStays DEF Fit
  <2> QED
    BY <2>1, <2>2, <2>3 DEF Fit
<1>7. ASSUME ~(\E command \in Commands : Start(c, command)), Head(todo[c]).step \in Freezing
      PROVE  Free(todo'[c], {"edit"})
  <2>1. /\ Freezing \cap Quiet = {} /\ {"select", "deployselect"} \subseteq Resuming
        /\ Freezing \ Resuming = Freezing
    BY DEF Freezing, Quiet, Resuming
  <2>2. Advances(todo[c], todo'[c]) /\ todo[c] \in Steps
    BY <1>7, StepAdvances
  <2>3. Free(todo'[c], Resuming)
    BY <1>7, <2>1, <2>2, Advanced DEF VersionsFit
  <2> QED
    BY <2>3 DEF Free, Resuming
<1>8. CASE QuietStep(c)
  <2>1. /\ UNCHANGED <<active, locked, chosen, promised, calm>>
        /\ Head(todo[c]).step # "autoclone" \/ Ends(c, "failed")
    BY <1>8 DEF QuietStep, Refuse, Ask, ServiceID, CallFails, SelectNothing, EditConflicts,
                WriteFile, PlainCall, DeleteService, AtStep, api, history
  <2>2. GoesOn(c) \/ \E how \in Outcomes \ {"running"} : Ends(c, how)
    BY <1>8 DEF QuietStep, Refuse, Ask, ServiceID, CallFails, SelectNothing, EditConflicts,
                WriteFile, PlainCall, DeleteService, Outcomes
  <2>3. outcome[c] = "running" /\ todo[c] # << >>
    BY <1>8 DEF QuietStep, Refuse, Ask, ServiceID, CallFails, SelectNothing, EditConflicts,
                WriteFile, PlainCall, DeleteService, AtStep
  <2> QED
    BY <1>4, <1>6, <2>1, <2>2, <2>3 DEF Frozen, Outcomes
<1>9. CASE MoveStep(c)
  <2>1. /\ outcome[c] = "running" /\ todo[c] # << >> /\ GoesOn(c)
        /\ UNCHANGED <<chosen, promised>> /\ Disturbs(c, chosen[c])
        /\ Head(todo[c]).step \in Freezing \cup {"deactivate", "unstage"}
        /\ Head(todo[c]).step \notin Freezing => Frozen' \subseteq Frozen
    BY <1>9 DEF MoveStep, Activate, Deactivate, Lock, Stage, Unstage, Moves, AtStep, Freezing,
                Frozen
  <2>2. calm[c] /\ ~(\E command \in Commands : Start(c, command))
    BY <2>1 DEF Disturbs, Start
  <2> QED
    BY <1>6, <1>7, <2>1, <2>2 DEF Fit, Freezing
<1>10. CASE AutocloneVersion(c)
  <2>1. chosen'[c] = last + 1 /\ last \in Nat /\ UNCHANGED <<active, locked>>
    BY <1>10, CloneFacts DEF AutocloneVersion, Adopts, CloneVersion, KeptInv, VersionsTypeOK
  <2> QED
    BY <2>1 DEF Fit, Frozen, KeptInv, VersionsTypeOK, VersionsFit
<1>11. CASE CloneCommand(c)
  BY <1>6, <1>11 DEF CloneCommand, CloneVersion, AtStep, Frozen
<1>12. CASE MakeEdit(c)
  BY <1>12 DEF MakeEdit, Fit, Frozen
<1>13. CASE FindActive(c)
  <2>1. ~(\E command \in Commands : Start(c, command)) /\ Head(todo[c]).step \in Freezing
    BY <1>13 DEF FindActive, AtStep, Start, Freezing
  <2> QED
    BY <1>7, <2>1 DEF Fit
<1> QED
  BY <1>1, <1>2, <1>8, <1>9, <1>10, <1>11, <1>12, <1>13, StepCases

\* The API's refusal of an edit is the only conflict.
LEMMA OnlyEditsConflict ==
    ASSUME TodoTypeOK, NEW c \in Clients, Step(c), outcome'[c] = "conflict"
    PROVE  EditConflicts(c)
<1>1. ~(\E command \in Commands : Start(c, command))
  BY DEF Start, TodoTypeOK
<1>2. outcome[c] = "running" /\ todo[c] # << >>
  BY <1>1, StepWorks DEF Works
<1>3. \A rest : ~GoesOnWith(c, rest)
  BY <1>2 DEF GoesOnWith, TodoTypeOK
<1>4. \A how : Ends(c, how) => how = "conflict"
  BY DEF Ends, TodoTypeOK
<1>5. ~GoesOn(c)
  BY <1>3 DEF GoesOn
<1>6. ~SelectStep(c)
  BY <1>3, <1>4, <1>5 DEF SelectStep, SelectPlain, SelectAutoclone, SelectForDeploy
<1>7. QuietStep(c) => EditConflicts(c)
  BY <1>4, <1>5 DEF QuietStep, Refuse, Ask, ServiceID, CallFails, SelectNothing, WriteFile,
                    PlainCall, DeleteService
<1>8. ~MoveStep(c)
  BY <1>5 DEF MoveStep, Activate, Deactivate, Lock, Stage, Unstage, Moves
<1>9. ~AutocloneVersion(c) /\ ~CloneCommand(c) /\ ~MakeEdit(c) /\ ~FindActive(c)
  BY <1>3, <1>5 DEF AutocloneVersion, Adopts, CloneCommand, MakeEdit, FindActive
<1> QED
  BY <1>1, <1>6, <1>7, <1>8, <1>9, StepCases

LEMMA ConflictStep ==
    ASSUME KeptInv, TodoTypeOK, VersionsFit, OnlyRacesConflict, NEW c \in Clients, Step(c)
    PROVE  OnlyRacesConflict'
<1>1. ASSUME outcome'[c] = "conflict", promised'[c] PROVE ~calm'[c]
  <2>1. /\ outcome[c] = "running" /\ todo[c] # << >> /\ Head(todo[c]).step = "edit"
        /\ chosen[c] \in Frozen /\ UNCHANGED <<promised, calm>>
    BY <1>1, OnlyEditsConflict DEF EditConflicts, AtStep, history
  <2>2. ~Free(todo[c], {"edit"}) /\ ~ClonesFirst(todo[c])
    BY <2>1, FitStays DEF TodoTypeOK
  <2> QED
    BY <1>1, <2>1, <2>2 DEF VersionsFit, Fit
<1>2. ASSUME NEW d \in Clients \ {c}, outcome'[d] = "conflict", promised'[d] PROVE ~calm'[d]
  BY <1>2, StepAdvances, OthersFit DEF OnlyRacesConflict
<1> QED
  BY <1>1, <1>2 DEF OnlyRacesConflict

\* Any commands that neither edit nor select once they have activated, locked or staged
\* a version: one that demanded an editable version of ServiceDetails, or had a frozen one
\* cloned (OptionalAutoClone.Parse), is refused an edit by the API only if another client
\* activated, locked or staged its version since.
THEOREM ConflictsAreRaces == ASSUME FreezesLast PROVE Spec => []OnlyRacesConflict
<1>1. Init => FitInv
  <2>1. Init => \A c \in Clients : NotAfter(todo[c], Freezing, Resuming)
    BY TodoInit
  <2>2. Init => locked \subseteq 1 .. last /\ outcome = [c \in Clients |-> "idle"]
    BY DEF Init
  <2>3. Init => promised \in [Clients -> BOOLEAN] /\ calm \in [Clients -> BOOLEAN]
    BY DEF Init
  <2> QED
    BY <2>1, <2>2, <2>3, InitKept, TodoInit DEF FitInv, VersionsFit, OnlyRacesConflict
<1>2. FitInv /\ [Next]_vars => FitInv'
  <2> SUFFICES ASSUME FitInv, [Next]_vars PROVE FitInv'
    OBVIOUS
  <2>1. KeptInv'
    BY NextKept DEF FitInv
  <2>2. ASSUME NEW c \in Clients, Step(c) PROVE FitInv'
    <3>1. TodoTypeOK' /\ OnlyRacesConflict'
      BY <2>2, StepAdvances, ConflictStep DEF FitInv
    <3>2. /\ Freezing \cap Quiet = {} /\ {"select", "deployselect"} \subseteq Resuming
      BY DEF Freezing, Quiet, Resuming
    <3>3. \A d \in Clients : NotAfter(todo'[d], Freezing, Resuming)
      BY <2>2, <3>2, OrderKept DEF FitInv, VersionsFit, FreezesLast
    <3>4. ASSUME NEW d \in Clients \ {c}, outcome'[d] = "running", promised'[d], calm'[d]
          PROVE  Fit(d)'
      BY <2>2, <3>4, StepAdvances, OthersFit DEF FitInv, VersionsFit, Fit
    <3>5. outcome'[c] = "running" /\ promised'[c] /\ calm'[c] => Fit(c)'
      BY <2>2, OwnFits DEF FitInv
    <3>6. VersionsFit'
      BY <2>2, <3>3, <3>4, <3>5, TypesFit DEF FitInv, VersionsFit, NotAfter
    <3> QED
      BY <2>1, <3>1, <3>6 DEF FitInv
  <2>3. CASE UNCHANGED vars
    BY <2>1, <2>3 DEF vars, api, client, history, FitInv, TodoTypeOK, VersionsFit, Fit, Frozen,
                      Free, ClonesFirst, NotAfter, OnlyRacesConflict
  <2> QED
    BY <2>2, <2>3 DEF Next
<1>3. FitInv => OnlyRacesConflict
  BY DEF FitInv
<1> QED
  BY <1>1, <1>2, <1>3, PTL DEF Spec

=============================================================================
