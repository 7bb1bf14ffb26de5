------------------------ MODULE AccountObjects_proof ------------------------
(***************************************************************************)
(* Theorems about commands that work on one object of an account at the    *)
(* same time: any clients, any number of changes, and any set of commands  *)
(* that keep two rules about the order of their steps.  The run            *)
(* account_objects checks the same properties of the commands there are.   *)
(***************************************************************************)
EXTENDS AccountObjects, SequenceTheorems, TLAPS

Changing == {"edit", "replace", "overwrite", "call"}
Checking == {"refuse", "service", "maystop"}

\* From step i of a command to step j it changes nothing.
Still(todos, i, j) == \A k \in i .. j : todos[k].step \notin Changing

\* Step i of a command is preceded by a read, with no change since.
ReadBefore(todos, i) ==
    \E j \in 1 .. i - 1 : todos[j].step = "read" /\ Still(todos, j, i - 1)

\* The first rule: what a command writes back it has read after its last change.
ReadsFirst ==
    \A row \in Commands : \A i \in 1 .. Len(row) :
        row[i].step = "replace" => ReadBefore(row, i)

\* The second rule: arguments are refused and questions asked before a change.
ChecksFirst ==
    \A row \in Commands : \A i, j \in 1 .. Len(row) :
        row[i].step \in Changing /\ i < j => row[j].step \notin Checking

Steps == Seq([step : StepNames])

ObjectsTypeOK ==
    /\ todo \in [Clients -> Steps]
    /\ outcome \in [Clients -> Outcomes]
    /\ object \subseteq Nat
    /\ copy \in [Clients -> SUBSET Nat]
    /\ outdated \in [Clients -> BOOLEAN]
    /\ touched \in [Clients -> BOOLEAN]
    /\ made \in Nat
    /\ \A c \in Clients : outcome[c] = "running" => todo[c] # << >>

\* The copy of a client holds the object as it is, or somebody else has changed it.
Current(c) == outdated[c] \/ object \subseteq copy[c]

\* What a client is about to write back is current, or will be read before.
CopiesCurrent ==
    \A c \in Clients : outcome[c] = "running" =>
        \A i \in 1 .. Len(todo[c]) : todo[c][i].step = "replace" =>
            ReadBefore(todo[c], i) \/ (Still(todo[c], 1, i - 1) /\ Current(c))

\* A client that has changed something has no check before it.
ChecksDone ==
    \A c \in Clients : outcome[c] = "running" =>
        /\ touched[c] => \A i \in 1 .. Len(todo[c]) : todo[c][i].step \notin Checking
        /\ \A i, j \in 1 .. Len(todo[c]) :
               todo[c][i].step \in Changing /\ i < j => todo[c][j].step \notin Checking

-----------------------------------------------------------------------------

\* A command that goes on has one step less to do, or has ended.
LEMMA TailFacts ==
    ASSUME NEW s \in Steps, s # << >>
    PROVE  /\ Tail(s) \in Steps /\ Len(Tail(s)) = Len(s) - 1 /\ Len(s) \in Nat \ {0}
           /\ \A i \in 1 .. Len(Tail(s)) : Tail(s)[i] = s[i + 1] /\ i + 1 \in 1 .. Len(s)
           /\ Head(s) = s[1] /\ (Len(s) # 1 => Tail(s) # << >>)
<1>1. /\ Tail(s) \in Steps /\ Len(Tail(s)) = Len(s) - 1 /\ Len(s) \in Nat \ {0}
      /\ \A i \in 1 .. Len(Tail(s)) : Tail(s)[i] = s[i + 1]
  BY HeadTailProperties, EmptySeq DEF Steps
<1>2. \A i \in 1 .. Len(Tail(s)) : i + 1 \in 1 .. Len(s)
  BY <1>1
<1>3. Len(s) # 1 => Tail(s) # << >>
  <2>1. Tail(s) = << >> => Len(Tail(s)) = 0
    <3>1. Len(<< >>) = 0
      OBVIOUS
    <3> QED
      BY <3>1, Zenon
  <2>2. Len(s) # 1 => Len(Tail(s)) # 0
    BY <1>1
  <2> QED
    BY <2>1, <2>2, Zenon
<1> QED
  BY <1>1, <1>2, <1>3

LEMMA InitType == Init => ObjectsTypeOK
BY DEF Init, ObjectsTypeOK, Outcomes, Steps

\* What GoesOn leaves to do.
LEMMA GoesOnType ==
    ASSUME ObjectsTypeOK, NEW c \in Clients, outcome[c] = "running", GoesOn(c)
    PROVE  /\ todo' \in [Clients -> Steps] /\ outcome' \in [Clients -> Outcomes]
           /\ \A d \in Clients : outcome'[d] = "running" =>
                  outcome[d] = "running" /\ todo'[d] # << >>
           /\ todo'[c] = Tail(todo[c])
           /\ \A d \in Clients \ {c} : todo'[d] = todo[d] /\ outcome'[d] = outcome[d]
           /\ outcome'[c] \in {"running", "ok"}
<1>1. todo[c] \in Steps /\ todo[c] # << >>
  BY DEF ObjectsTypeOK
<1>2. /\ Tail(todo[c]) \in Steps
      /\ Len(todo[c]) # 1 => Tail(todo[c]) # << >>
  BY <1>1, TailFacts
<1>3. /\ todo' = [todo EXCEPT ![c] = Tail(todo[c])]
      /\ outcome' = [outcome EXCEPT ![c] = IF Len(todo[c]) = 1 THEN "ok" ELSE "running"]
  BY DEF GoesOn
<1> QED
  BY <1>2, <1>3 DEF ObjectsTypeOK, Outcomes

LEMMA EndsType ==
    ASSUME ObjectsTypeOK, NEW c \in Clients, NEW how \in Outcomes \ {"running"}, Ends(c, how)
    PROVE  /\ todo' \in [Clients -> Steps] /\ outcome' \in [Clients -> Outcomes]
           /\ outcome'[c] = how
           /\ \A d \in Clients \ {c} : todo'[d] = todo[d] /\ outcome'[d] = outcome[d]
<1>1. << >> \in Steps
  BY DEF Steps
<1> QED
  BY <1>1 DEF ObjectsTypeOK, Ends

\* Reads and changes of a command, seen from its next step.
LEMMA TailReads ==
    ASSUME NEW s \in Steps, s # << >>, NEW i \in 1 .. Len(Tail(s))
    PROVE  /\ Tail(s)[i] = s[i + 1] /\ i + 1 \in 1 .. Len(s)
           /\ Still(s, 1, i) => Still(Tail(s), 1, i - 1) /\ s[1].step \notin Changing
           /\ ReadBefore(s, i + 1) =>
                  \/ ReadBefore(Tail(s), i)
                  \/ s[1].step = "read" /\ Still(Tail(s), 1, i - 1)
<1> DEFINE t == Tail(s)
<1>1. /\ Len(t) = Len(s) - 1 /\ Len(s) \in Nat
      /\ \A k \in 1 .. Len(t) : t[k] = s[k + 1] /\ k + 1 \in 1 .. Len(s)
  BY TailFacts
<1>2. ASSUME NEW j \in 1 .. i, Still(s, j, i)
      PROVE  /\ s[j].step \notin Changing
             /\ j > 1 => Still(t, j - 1, i - 1)
             /\ j = 1 => Still(t, 1, i - 1)
  BY <1>1, <1>2 DEF Still
<1>3. ASSUME ReadBefore(s, i + 1)
      PROVE  ReadBefore(t, i) \/ (s[1].step = "read" /\ Still(t, 1, i - 1))
  <2>1. PICK j \in 1 .. i : s[j].step = "read" /\ Still(s, j, i)
    BY <1>1, <1>3 DEF ReadBefore
  <2>2. CASE j = 1
    BY <2>1, <2>2, <1>2
  <2>3. CASE j > 1
    <3>1. j - 1 \in 1 .. i - 1 /\ t[j - 1] = s[j] /\ Still(t, j - 1, i - 1)
      BY <2>1, <2>3, <1>1, <1>2
    <3> QED
      BY <2>1, <3>1 DEF ReadBefore
  <2> QED
    BY <2>2, <2>3
<1> QED
  BY <1>1, <1>2, <1>3

\* A client that goes on keeps its copy current, or reads the object afresh.
LEMMA GoesOnCopies ==
    ASSUME ObjectsTypeOK, CopiesCurrent, NEW c \in Clients, outcome[c] = "running", GoesOn(c),
           Head(todo[c]).step = "read" => Current(c)',
           Head(todo[c]).step \notin Changing /\ Current(c) => Current(c)',
           \A d \in Clients \ {c} : Current(d) => Current(d)'
    PROVE  CopiesCurrent'
<1> SUFFICES ASSUME NEW d \in Clients, outcome'[d] = "running",
                    NEW i \in 1 .. Len(todo'[d]), todo'[d][i].step = "replace"
             PROVE  ReadBefore(todo'[d], i) \/ (Still(todo'[d], 1, i - 1) /\ Current(d)')
  BY DEF CopiesCurrent, ReadBefore, Still, Current
<1>1. outcome[d] = "running"
  BY GoesOnType
<1>2. CASE d # c
  BY <1>1, <1>2, GoesOnType DEF CopiesCurrent
<1>3. CASE d = c
  <2>1. todo[c] \in Steps /\ todo[c] # << >> /\ todo'[c] = Tail(todo[c])
    BY GoesOnType DEF ObjectsTypeOK
  <2>2. Head(todo[c]) = todo[c][1]
    BY <2>1, TailFacts
  <2>3. i + 1 \in 1 .. Len(todo[c]) /\ todo[c][i + 1].step = "replace"
    BY <1>3, <2>1, TailReads
  <2>4. ReadBefore(todo[c], i + 1) \/ (Still(todo[c], 1, i) /\ Current(c))
    BY <1>1, <1>3, <2>3 DEF CopiesCurrent
  <2> QED
    BY <1>3, <2>1, <2>2, <2>4, TailReads
<1> QED
  BY <1>2, <1>3

\* The others, and a client that does not run, cannot be what breaks the rule.
LEMMA EndsCopies ==
    ASSUME ObjectsTypeOK, CopiesCurrent, NEW c \in Clients,
           NEW how \in Outcomes \ {"running"}, Ends(c, how), UNCHANGED <<object, copy, outdated>>
    PROVE  CopiesCurrent'
BY EndsType DEF CopiesCurrent, ReadBefore, Still, Current

LEMMA StartCopies ==
    ASSUME ObjectsTypeOK, CopiesCurrent, ReadsFirst, NEW c \in Clients,
           NEW command \in Commands, Start(c, command)
    PROVE  CopiesCurrent'
<1> SUFFICES ASSUME NEW d \in Clients, outcome'[d] = "running",
                    NEW i \in 1 .. Len(todo'[d]), todo'[d][i].step = "replace"
             PROVE  ReadBefore(todo'[d], i) \/ (Still(todo'[d], 1, i - 1) /\ Current(d)')
  BY DEF CopiesCurrent, ReadBefore, Still, Current
<1>1. CASE d = c
  BY <1>1 DEF Start, ObjectsTypeOK, ReadsFirst
<1>2. CASE d # c
  BY <1>2 DEF Start, ObjectsTypeOK, CopiesCurrent, Current
<1> QED
  BY <1>1, <1>2

-----------------------------------------------------------------------------
(* Types *)

LEMMA StepType == ASSUME ObjectsTypeOK, NEW c \in Clients, Step(c) PROVE ObjectsTypeOK'
<1>1. CASE \E command \in Commands : Start(c, command)
  <2>1. PICK command \in Commands : Start(c, command)
    BY <1>1
  <2>2. command \in Steps /\ command # << >>
    BY ObjectsAssumption DEF Steps
  <2> QED
    BY <2>1, <2>2 DEF Start, ObjectsTypeOK, Outcomes
<1>2. CASE Refuse(c)
  <2>1. CASE GoesOn(c)
    BY <1>2, <2>1, GoesOnType DEF Refuse, AtStep, ObjectsTypeOK
  <2>2. CASE Ends(c, "refused")
    BY <1>2, <2>2, EndsType DEF Refuse, Outcomes, ObjectsTypeOK
  <2> QED
    BY <1>2, <2>1, <2>2 DEF Refuse
<1>3. CASE Stop(c)
  <2>1. CASE GoesOn(c)
    BY <1>3, <2>1, GoesOnType DEF Stop, AtStep, ObjectsTypeOK
  <2>2. CASE Ends(c, "stopped")
    BY <1>3, <2>2, EndsType DEF Stop, Outcomes, ObjectsTypeOK
  <2> QED
    BY <1>3, <2>1, <2>2 DEF Stop
<1>4. CASE Fail(c)
  BY <1>4, EndsType DEF Fail, Outcomes, ObjectsTypeOK
<1>5. CASE Read(c)
  BY <1>5, GoesOnType DEF Read, AtStep, ObjectsTypeOK
<1>6. CASE Verify(c)
  BY <1>6, GoesOnType DEF Verify, AtStep, ObjectsTypeOK
<1>7. CASE MakeEdit(c)
  BY <1>7, GoesOnType DEF MakeEdit, Changes, AtStep, ObjectsTypeOK
<1>8. CASE Replace(c)
  BY <1>8, GoesOnType DEF Replace, Changes, AtStep, ObjectsTypeOK
<1>9. CASE CallOther(c)
  BY <1>9, GoesOnType DEF CallOther, AtStep, ObjectsTypeOK
<1>10. CASE Overwrite(c)
  BY <1>10, GoesOnType DEF Overwrite, Changes, AtStep, ObjectsTypeOK
<1> QED
  BY <1>1, <1>2, <1>3, <1>4, <1>5, <1>6, <1>7, <1>8, <1>9, <1>10 DEF Step

-----------------------------------------------------------------------------
(* Changes are kept *)

KeptInv == ObjectsTypeOK /\ CopiesCurrent /\ ChangesKept

\* A change that was made is added to those there are to keep.
LEMMA OneMore == ASSUME NEW n \in Nat PROVE 1 .. n + 1 = (1 .. n) \cup {n + 1}
OBVIOUS

LEMMA StepCopies ==
    ASSUME ObjectsTypeOK, CopiesCurrent, ReadsFirst, NEW c \in Clients, Step(c)
    PROVE  CopiesCurrent'
<1> USE DEF AtStep, Current
<1>1. CASE \E command \in Commands : Start(c, command)
  BY <1>1, StartCopies
<1>2. CASE Refuse(c)
  BY <1>2, GoesOnCopies, EndsCopies DEF Refuse, Outcomes
<1>3. CASE Stop(c)
  BY <1>3, GoesOnCopies, EndsCopies DEF Stop, Outcomes
<1>4. CASE Fail(c)
  BY <1>4, EndsCopies DEF Fail, Outcomes
<1>5. CASE Read(c)
  BY <1>5, GoesOnCopies DEF Read, ObjectsTypeOK
<1>6. CASE Verify(c)
  BY <1>6, GoesOnCopies DEF Verify
<1>7. CASE MakeEdit(c)
  BY <1>7, GoesOnCopies DEF MakeEdit, Changes, Changing
<1>8. CASE Replace(c)
  BY <1>8, GoesOnCopies DEF Replace, Changes, Changing
<1>9. CASE CallOther(c)
  BY <1>9, GoesOnCopies DEF CallOther, Changing
<1>10. CASE Overwrite(c)
  BY <1>10, GoesOnCopies DEF Overwrite, Changes, Changing
<1> QED
  BY <1>1, <1>2, <1>3, <1>4, <1>5, <1>6, <1>7, <1>8, <1>9, <1>10 DEF Step

LEMMA StepKeeps ==
    ASSUME ObjectsTypeOK, CopiesCurrent, ChangesKept, NEW c \in Clients, Step(c)
    PROVE  ChangesKept'
<1>1. made \in Nat /\ 1 .. made + 1 = (1 .. made) \cup {made + 1}
  BY OneMore DEF ObjectsTypeOK
<1>2. CASE MakeEdit(c)
  BY <1>1, <1>2 DEF MakeEdit, Changes, ChangesKept
<1>3. CASE Replace(c)
  <2>1. todo[c] \in Steps /\ todo[c] # << >> /\ outcome[c] = "running"
    BY <1>3 DEF Replace, AtStep, ObjectsTypeOK
  <2>2. 1 \in 1 .. Len(todo[c]) /\ todo[c][1].step = "replace"
    BY <1>3, <2>1, TailFacts DEF Replace, AtStep
  <2>3. ~ReadBefore(todo[c], 1)
    BY DEF ReadBefore
  <2>4. Current(c)
    BY <2>1, <2>2, <2>3 DEF CopiesCurrent
  <2>5. CASE outdated[c]
    BY <1>1, <1>3, <2>5 DEF Replace, Changes, ChangesKept
  <2>6. CASE ~outdated[c]
    BY <1>1, <1>3, <2>4, <2>6 DEF Replace, Changes, ChangesKept, Current
  <2> QED
    BY <2>5, <2>6
<1>4. CASE Overwrite(c)
  <2>1. PICK kept \in SUBSET object : /\ object' = kept \cup {made + 1}
                                     /\ overwritten' = overwritten \cup (object \ kept)
    BY <1>4 DEF Overwrite
  <2>2. made' = made + 1 /\ lost' = lost
    BY <1>4 DEF Overwrite, Changes
  <2> QED
    BY <1>1, <2>1, <2>2 DEF ChangesKept
<1>5. CASE ~MakeEdit(c) /\ ~Replace(c) /\ ~Overwrite(c)
  BY <1>5 DEF Step, Start, Refuse, Stop, Fail, Read, Verify, CallOther, ChangesKept
<1> QED
  BY <1>2, <1>3, <1>4, <1>5

\* Let every command that writes an object back have read it after its own last
\* change (the commands of commands/dashboard/item do).  Then a change is undone
\* only by a command that overwrites what it has not read, as the updates of
\* rules, lists, alerts and domains do, or by a copy that somebody else's change
\* had outdated: no command loses a change that it could have known of.
THEOREM ChangesAreKept == ASSUME ReadsFirst PROVE Spec => []ChangesKept
<1>1. Init => KeptInv
  BY InitType DEF Init, KeptInv, CopiesCurrent, ChangesKept
<1>2. KeptInv /\ [Next]_vars => KeptInv'
  <2> SUFFICES ASSUME KeptInv, [Next]_vars PROVE KeptInv'
    OBVIOUS
  <2>1. CASE Next
    BY <2>1, StepType, StepCopies, StepKeeps DEF Next, KeptInv
  <2>2. CASE UNCHANGED vars
    BY <2>2 DEF vars, KeptInv, ObjectsTypeOK, CopiesCurrent, ChangesKept, Current, ReadBefore, Still
  <2> QED
    BY <2>1, <2>2
<1>3. KeptInv => ChangesKept
  BY DEF KeptInv
<1> QED
  BY <1>1, <1>2, <1>3, PTL DEF Spec

-----------------------------------------------------------------------------
(* A refusal comes before any change *)

ChecksInv == ObjectsTypeOK /\ ChecksDone /\ RefusedUntouched

\* What a client still has to do keeps the rule when it goes on.
LEMMA GoesOnChecks ==
    ASSUME ObjectsTypeOK, ChecksDone, NEW c \in Clients, outcome[c] = "running", GoesOn(c),
           touched'[c] => touched[c] \/ Head(todo[c]).step \in Changing,
           \A d \in Clients \ {c} : touched'[d] = touched[d]
    PROVE  ChecksDone'
<1>1. ASSUME NEW d \in Clients \ {c}, outcome'[d] = "running"
      PROVE  /\ touched'[d] => \A i \in 1 .. Len(todo'[d]) : todo'[d][i].step \notin Checking
             /\ \A i, j \in 1 .. Len(todo'[d]) :
                    todo'[d][i].step \in Changing /\ i < j => todo'[d][j].step \notin Checking
  BY <1>1, GoesOnType DEF ChecksDone
<1>2. /\ todo[c] \in Steps /\ todo[c] # << >> /\ todo'[c] = Tail(todo[c])
      /\ Head(todo[c]) = todo[c][1] /\ 1 \in 1 .. Len(todo[c])
      /\ Len(todo[c]) \in Nat /\ Len(Tail(todo[c])) = Len(todo[c]) - 1
      /\ \A i \in 1 .. Len(Tail(todo[c])) :
             Tail(todo[c])[i] = todo[c][i + 1] /\ i + 1 \in 1 .. Len(todo[c])
  BY GoesOnType, TailFacts DEF ObjectsTypeOK
<1>3. touched'[c] => \A i \in 1 .. Len(todo'[c]) : todo'[c][i].step \notin Checking
  BY <1>2 DEF ChecksDone
<1>4. \A i, j \in 1 .. Len(todo'[c]) :
          todo'[c][i].step \in Changing /\ i < j => todo'[c][j].step \notin Checking
  BY <1>2 DEF ChecksDone
<1> QED
  BY <1>1, <1>3, <1>4 DEF ChecksDone

LEMMA EndsChecks ==
    ASSUME ObjectsTypeOK, ChecksDone, NEW c \in Clients,
           NEW how \in Outcomes \ {"running"}, Ends(c, how), UNCHANGED touched
    PROVE  ChecksDone'
BY EndsType DEF ChecksDone

LEMMA StartChecks ==
    ASSUME ObjectsTypeOK, ChecksDone, ChecksFirst, NEW c \in Clients,
           NEW command \in Commands, Start(c, command)
    PROVE  ChecksDone'
BY DEF Start, ObjectsTypeOK, ChecksDone, ChecksFirst

LEMMA StepChecks ==
    ASSUME ObjectsTypeOK, ChecksDone, ChecksFirst, NEW c \in Clients, Step(c)
    PROVE  ChecksDone'
<1> USE DEF AtStep
<1>1. CASE \E command \in Commands : Start(c, command)
  BY <1>1, StartChecks
<1>2. CASE Refuse(c)
  BY <1>2, GoesOnChecks, EndsChecks DEF Refuse, Outcomes
<1>3. CASE Stop(c)
  BY <1>3, GoesOnChecks, EndsChecks DEF Stop, Outcomes
<1>4. CASE Fail(c)
  BY <1>4, EndsChecks DEF Fail, Outcomes
<1>5. CASE Read(c) \/ Verify(c)
  BY <1>5, GoesOnChecks DEF Read, Verify
<1>6. CASE MakeEdit(c) \/ Replace(c) \/ Overwrite(c)
  BY <1>6, GoesOnChecks DEF MakeEdit, Replace, Overwrite, Changes, Changing, ObjectsTypeOK
<1>7. CASE CallOther(c)
  BY <1>7, GoesOnChecks DEF CallOther, Changing, ObjectsTypeOK
<1> QED
  BY <1>1, <1>2, <1>3, <1>4, <1>5, <1>6, <1>7 DEF Step

LEMMA StepRefuses ==
    ASSUME ObjectsTypeOK, ChecksDone, RefusedUntouched, NEW c \in Clients, Step(c)
    PROVE  RefusedUntouched'
<1>1. ASSUME outcome[c] = "running", Head(todo[c]).step \in Checking
      PROVE  ~touched[c]
  <2>1. 1 \in 1 .. Len(todo[c]) /\ Head(todo[c]) = todo[c][1]
    BY <1>1, TailFacts DEF ObjectsTypeOK
  <2> QED
    BY <1>1, <2>1 DEF ChecksDone
<1>2. CASE \E command \in Commands : Start(c, command)
  BY <1>2 DEF Start, ObjectsTypeOK, RefusedUntouched
<1>3. CASE Refuse(c) \/ Stop(c)
  <2>1. ~touched[c] /\ touched' = touched /\ outcome[c] = "running"
    BY <1>1, <1>3 DEF Refuse, Stop, AtStep, Checking
  <2>2. \A d \in Clients \ {c} : outcome'[d] = outcome[d]
    BY <1>3, <2>1, GoesOnType, EndsType DEF Refuse, Stop, Outcomes
  <2> QED
    BY <2>1, <2>2 DEF RefusedUntouched
<1>4. CASE Fail(c)
  BY <1>4, EndsType DEF Fail, Outcomes, RefusedUntouched
<1>5. CASE \/ Read(c) \/ Verify(c) \/ CallOther(c)
           \/ MakeEdit(c) \/ Replace(c) \/ Overwrite(c)
  <2>1. outcome[c] = "running" /\ GoesOn(c)
    BY <1>5 DEF Read, Verify, MakeEdit, Replace, Overwrite, CallOther, Changes, AtStep
  <2>2. \A d \in Clients \ {c} : touched'[d] = touched[d]
    BY <1>5 DEF Read, Verify, MakeEdit, Replace, Overwrite, CallOther, Changes, ObjectsTypeOK
  <2> QED
    BY <2>1, <2>2, GoesOnType DEF RefusedUntouched
<1> QED
  BY <1>2, <1>3, <1>4, <1>5 DEF Step

\* Any commands whose checks and questions come before their first change change
\* nothing when they refuse or stop, whatever the others do.
THEOREM RefusalsLeaveUntouched == ASSUME ChecksFirst PROVE Spec => []RefusedUntouched
<1>1. Init => ChecksInv
  BY InitType DEF Init, ChecksInv, ChecksDone, RefusedUntouched
<1>2. ChecksInv /\ [Next]_vars => ChecksInv'
  <2> SUFFICES ASSUME ChecksInv, [Next]_vars PROVE ChecksInv'
    OBVIOUS
  <2>1. CASE Next
    BY <2>1, StepType, StepChecks, StepRefuses DEF Next, ChecksInv
  <2>2. CASE UNCHANGED vars
    BY <2>2 DEF vars, ChecksInv, ObjectsTypeOK, ChecksDone, RefusedUntouched
  <2> QED
    BY <2>1, <2>2
<1>3. ChecksInv => RefusedUntouched
  BY DEF ChecksInv
<1> QED
  BY <1>1, <1>2, <1>3, PTL DEF Spec

=============================================================================
