--------------------------- MODULE ServiceVersions ---------------------------
(***************************************************************************)
(* The versions of one service, and several invocations of the CLI that    *)
(* select, clone, edit, activate and lock them at the same time.           *)
(*                                                                         *)
(* Every command that works on a version begins with                       *)
(* argparser.ServiceDetails (src/pkg/argparser/cmd.go): it lists the       *)
(* versions, takes the one --version names, and clones it if it is active  *)
(* or locked and --autoclone was given.  The listing, the clone and the    *)
(* call that follows are separate requests, and other clients act between  *)
(* them.  What the commands do after that is taken from the tables         *)
(* (CONSTANT Commands), as sequences of the steps of CommandSteps.         *)
(*                                                                         *)
(* The API is external and modelled by what the code relies on: it refuses *)
(* edits of active and locked versions, a clone is an editable copy with   *)
(* the next number, and any call may fail.  Activating or staging a        *)
(* version may lock it or not.  Of a version's contents the model keeps    *)
(* the set of edits that went into it.                                     *)
(***************************************************************************)
EXTENDS Integers, FiniteSets, CommandSteps

CONSTANTS Clients,       \* processes of the CLI, each runs one command at a time
          Commands,      \* the commands they run: sequences of steps
          VersionFlags,  \* values of --version: "latest", "active", "number", "unset"
          MaxVersions,   \* bound: versions a service ever has
          MaxEdits,      \* bound: edits that succeed
          MaxCommands    \* bound: commands that are started

\* What a step of a command of this module can be.
StepNames ==
    {"refuse", "service", "maystop", "select", "deployselect", "autoclone", "read", "edit",
     "call", "clone", "activate", "deactivate", "lock", "stage", "unstage", "findactive",
     "deleteservice", "file"}

AllSteps ==
    [step : StepNames] \cup
    [step : {"select"}, isActive : {"yes", "no", "any"}, isLocked : {"yes", "no", "any"},
     isStaging : {"yes", "no", "any"}, autoclone : BOOLEAN]

ASSUME CommandsAssumption == Commands \subseteq Seq(AllSteps)

ASSUME VersionsAssumption ==
    /\ MaxVersions \in Nat \ {0}
    /\ MaxEdits \in Nat
    /\ MaxCommands \in Nat
    /\ VersionFlags \subseteq {"latest", "active", "unset", "number"}

VARIABLES
    last,      \* the highest version number
    active,    \* the active version, if any, as a set
    locked,    \* the locked versions
    staged,    \* the staged version, if any, as a set
    edits,     \* for each version the edits it contains
    exists,    \* FALSE once the service is deleted
    \* the clients:
    todo,      \* the steps the command has still to do
    chosen,    \* the version it works on, 0 before the selection
    outcome,   \* how the command stands or ended
    \* history, of which no step depends:
    made,      \* the number of edits that succeeded
    started,   \* the number of commands started
    base,      \* what the selected version contained when it was listed
    edited,    \* the edit the command made, 0 if none
    seen,      \* the highest version number the command knows of
    promised,  \* the selection is meant to give an editable version
    calm,      \* nobody has frozen the chosen version since it was selected
    touched,   \* the command has changed something, clones aside
    strayed    \* an edit or clone was not based on the highest version

api     == <<last, active, locked, staged, edits, exists>>
client  == <<todo, chosen, outcome>>
history == <<made, started, base, edited, seen, promised, calm, touched, strayed>>
vars    == <<api, client, history>>

Versions == 1 .. MaxVersions
Edit     == 1 .. MaxEdits
Outcomes == {"idle", "running", "ok", "declined", "refused", "failed", "conflict"}

Frozen == active \cup locked

Init ==
    /\ last = 1
    /\ active \in {{}, {1}}
    /\ locked \in {{}, {1}}
    /\ staged = {}
    /\ edits = [v \in Versions |-> {}]
    /\ exists = TRUE
    /\ todo = [c \in Clients |-> << >>]
    /\ chosen = [c \in Clients |-> 0]
    /\ outcome = [c \in Clients |-> "idle"]
    /\ made = 0
    /\ started = 0
    /\ base = [c \in Clients |-> {}]
    /\ edited = [c \in Clients |-> 0]
    /\ seen = [c \in Clients |-> 0]
    /\ promised = [c \in Clients |-> FALSE]
    /\ calm = [c \in Clients |-> TRUE]
    /\ touched = [c \in Clients |-> FALSE]
    /\ strayed = FALSE

-----------------------------------------------------------------------------
(* Running a command.                                                      *)

\* A client starts a command; what it knew of the previous one is gone.
Start(c, command) ==
    /\ outcome[c] # "running"
    /\ started < MaxCommands
    /\ started' = started + 1
    /\ todo' = [todo EXCEPT ![c] = command]
    /\ outcome' = [outcome EXCEPT ![c] = "running"]
    /\ chosen' = [chosen EXCEPT ![c] = 0]
    /\ base' = [base EXCEPT ![c] = {}]
    /\ edited' = [edited EXCEPT ![c] = 0]
    /\ seen' = [seen EXCEPT ![c] = 0]
    /\ promised' = [promised EXCEPT ![c] = FALSE]
    /\ calm' = [calm EXCEPT ![c] = TRUE]
    /\ touched' = [touched EXCEPT ![c] = FALSE]
    /\ UNCHANGED <<api, made, strayed>>

AtStep(c, step) ==
    /\ outcome[c] = "running"
    /\ todo[c] # << >>
    /\ Head(todo[c]).step = step

\* The command goes on with the steps "rest"; without any it has succeeded.
GoesOnWith(c, rest) ==
    /\ todo' = [todo EXCEPT ![c] = rest]
    /\ outcome' = IF rest = << >> THEN [outcome EXCEPT ![c] = "ok"] ELSE outcome

GoesOn(c) == GoesOnWith(c, Tail(todo[c]))

\* Exec returns, with an error unless the user declined.
Ends(c, how) ==
    /\ todo' = [todo EXCEPT ![c] = << >>]
    /\ outcome' = [outcome EXCEPT ![c] = how]

\* The arguments are accepted or not.
Refuse(c) ==
    /\ AtStep(c, "refuse")
    /\ GoesOn(c) \/ Ends(c, "refused")
    /\ UNCHANGED <<api, history, chosen>>

Ask(c) ==
    /\ AtStep(c, "maystop")
    /\ GoesOn(c) \/ Ends(c, "declined")
    /\ UNCHANGED <<api, history, chosen>>

\* Any request may fail; the error ends the command.
CallFails(c) ==
    /\ outcome[c] = "running"
    /\ todo[c] # << >>
    /\ Head(todo[c]).step \notin {"refuse", "maystop"}
    /\ Ends(c, "failed")
    /\ UNCHANGED <<api, history, chosen>>

\* Without a service ID or with one given twice the command is refused; a
\* name is looked up first.
ServiceID(c) ==
    /\ AtStep(c, "service")
    /\ \/ GoesOn(c)
       \/ Ends(c, "refused")
    /\ UNCHANGED <<api, history, chosen>>

-----------------------------------------------------------------------------
(* Selecting a version.                                                    *)

\* OptionalServiceVersion.Parse: the versions a value of --version may name.
\* Without the flag it is the active version, or else the highest.
Named(flag) ==
    CASE flag = "latest" -> {last}
      [] flag = "active" -> active
      [] flag = "unset"  -> IF active # {} THEN active ELSE {last}
      [] flag = "number" -> 1 .. last

\* The listing has arrived: the client works on v from here on.
Selects(c, v, flag, editable) ==
    /\ chosen' = [chosen EXCEPT ![c] = v]
    /\ base' = [base EXCEPT ![c] = edits[v]]
    /\ seen' = [seen EXCEPT ![c] = IF flag = "latest" THEN last ELSE 0]
    /\ promised' = [promised EXCEPT ![c] = editable]
    /\ calm' = [calm EXCEPT ![c] = TRUE]
    /\ UNCHANGED <<api, made, started, edited, touched, strayed>>

\* An Optional[bool] of ServiceDetailsOpts against the state of the version.
Meets(demand, holds) == demand = "any" \/ (demand = "yes") = holds

\* Mutant: the check of the lock is missing.
MeetsDemandsUnlocked(v, demands) ==
    /\ Meets(demands.isActive, v \in active)
    /\ Meets(demands.isStaging, v \in staged)

\* The checks of ServiceDetails, which it makes only without --autoclone.
MeetsDemands(v, demands) ==
    /\ Meets(demands.isActive, v \in active)
    /\ Meets(demands.isLocked, v \in locked)
    /\ Meets(demands.isStaging, v \in staged)

\* ServiceDetails without --autoclone.
SelectPlain(c, flag) ==
    /\ AtStep(c, "select")
    /\ exists
    /\ \E v \in Named(flag) :
         LET demands == Head(todo[c]) IN
         /\ IF MeetsDemands(v, demands) THEN GoesOn(c) ELSE Ends(c, "refused")
         /\ Selects(c, v, flag, demands.isActive = "no" /\ demands.isLocked = "no")

\* ServiceDetails with the flag: OptionalAutoClone.Parse takes the place of
\* the checks.  "off" is --no-autoclone.
SelectAutoclone(c, flag, value) ==
    /\ AtStep(c, "select")
    /\ Head(todo[c]).autoclone
    /\ exists
    /\ \E v \in Named(flag) :
         /\ CASE v \notin Frozen -> GoesOn(c)
              [] v \in Frozen /\ value = "on"  -> GoesOnWith(c, <<Autoclone>> \o Tail(todo[c]))
              [] v \in Frozen /\ value = "off" -> Ends(c, "refused")
         /\ Selects(c, v, flag, TRUE)

\* DeployCommand.ExistingServiceVersion: whether to clone is decided by the
\* listing, and done after the service's type and its package have been
\* compared with what is to be deployed.
SelectForDeploy(c, flag) ==
    /\ AtStep(c, "deployselect")
    /\ exists
    /\ \E v \in Named(flag) :
         /\ GoesOnWith(c, <<Reads, Refusable, MayStop>>
                          \o (IF v \in Frozen THEN <<Autoclone>> ELSE << >>)
                          \o Tail(todo[c]))
         /\ Selects(c, v, flag, TRUE)

\* The service is not known, or no version is what the flag names.
SelectNothing(c, flag) ==
    /\ AtStep(c, "select") \/ AtStep(c, "deployselect")
    /\ Named(flag) = {} \/ flag = "number" \/ ~exists
    /\ Ends(c, "refused")
    /\ UNCHANGED <<api, history, chosen>>

-----------------------------------------------------------------------------
(* Requests to the API.                                                    *)

\* A new version with the contents of v and the next number.
CloneVersion(v) ==
    /\ exists
    /\ v \in 1 .. last
    /\ last < MaxVersions
    /\ last' = last + 1
    /\ edits' = [edits EXCEPT ![last + 1] = edits[v]]
    /\ UNCHANGED <<active, locked, staged, exists>>

\* Another client's version has become active or locked.
Disturbs(c, v) ==
    calm' = [d \in Clients |-> IF d # c /\ chosen[d] = v THEN FALSE ELSE calm[d]]

\* The command goes on with v, the answer to its request for a clone.
Adopts(c, v) ==
    /\ GoesOn(c)
    /\ chosen' = [chosen EXCEPT ![c] = v]
    /\ seen' = [seen EXCEPT ![c] = IF @ = last THEN last + 1 ELSE 0]
    /\ strayed' = (strayed \/ seen[c] # last)
    /\ calm' = [calm EXCEPT ![c] = TRUE]
    /\ UNCHANGED <<made, started, base, edited, promised, touched>>

\* Mutant: it is always the active version that is cloned.
AutocloneActive(c) ==
    /\ AtStep(c, "autoclone")
    /\ \E v \in active : CloneVersion(v)
    /\ Adopts(c, last + 1)

\* The clone of --autoclone is what the command works on from then on.
AutocloneVersion(c) ==
    /\ AtStep(c, "autoclone")
    /\ CloneVersion(chosen[c])
    /\ Adopts(c, last + 1)

\* "service version clone": the clone is all there is to it.
CloneCommand(c) ==
    /\ AtStep(c, "clone")
    /\ CloneVersion(chosen[c])
    /\ GoesOn(c)
    /\ strayed' = (strayed \/ seen[c] # last)
    /\ touched' = [touched EXCEPT ![c] = TRUE]
    /\ UNCHANGED <<chosen, made, started, base, edited, seen, promised, calm>>

\* Anything that changes the contents of the chosen version.
MakeEdit(c) ==
    /\ AtStep(c, "edit")
    /\ exists
    /\ chosen[c] \in 1 .. last \ Frozen
    /\ made < MaxEdits
    /\ made' = made + 1
    /\ edits' = [edits EXCEPT ![chosen[c]] = @ \cup {made + 1}]
    /\ edited' = [edited EXCEPT ![c] = made + 1]
    /\ touched' = [touched EXCEPT ![c] = TRUE]
    /\ strayed' = (strayed \/ seen[c] # last)
    /\ GoesOn(c)
    /\ UNCHANGED <<last, active, locked, staged, exists, chosen, started, base,
                   seen, promised, calm>>

\* The API does not take an edit of a version that is active or locked.
EditConflicts(c) ==
    /\ AtStep(c, "edit")
    /\ exists
    /\ chosen[c] \in Frozen
    /\ Ends(c, "conflict")
    /\ UNCHANGED <<api, history, chosen>>

\* "service delete" takes the service's ID out of fastly.toml.
WriteFile(c) ==
    /\ AtStep(c, "file")
    /\ GoesOn(c)
    /\ UNCHANGED <<api, history, chosen>>

\* A request that changes nothing the model keeps.
PlainCall(c) ==
    /\ AtStep(c, "read") \/ AtStep(c, "call")
    /\ exists
    /\ touched' = [touched EXCEPT ![c] = @ \/ AtStep(c, "call")]
    /\ GoesOn(c)
    /\ UNCHANGED <<api, chosen, made, started, base, edited, seen, promised, calm, strayed>>

\* What the requests that move a version through its states have in common.
Moves(c, step) ==
    /\ AtStep(c, step)
    /\ exists
    /\ chosen[c] \in 1 .. last
    /\ GoesOn(c)
    /\ touched' = [touched EXCEPT ![c] = TRUE]
    /\ Disturbs(c, chosen[c])
    /\ UNCHANGED <<last, edits, exists, chosen, made, started, base, edited, seen,
                   promised, strayed>>

MayLock(v) == locked' = locked \/ locked' = locked \cup {v}

Activate(c) ==
    /\ Moves(c, "activate")
    /\ active' = {chosen[c]}
    /\ MayLock(chosen[c])
    /\ UNCHANGED staged

Deactivate(c) ==
    /\ Moves(c, "deactivate")
    /\ chosen[c] \in active
    /\ active' = active \ {chosen[c]}
    /\ UNCHANGED <<locked, staged>>

Lock(c) ==
    /\ Moves(c, "lock")
    /\ locked' = locked \cup {chosen[c]}
    /\ UNCHANGED <<active, staged>>

\* ActivateVersion and DeactivateVersion in the staging environment.
Stage(c) ==
    /\ Moves(c, "stage")
    /\ staged' = {chosen[c]}
    /\ MayLock(chosen[c])
    /\ UNCHANGED active

Unstage(c) ==
    /\ Moves(c, "unstage")
    /\ staged' = staged \ {chosen[c]}
    /\ UNCHANGED <<active, locked>>

\* "service delete --force" deactivates the version it finds active, if any.
FindActive(c) ==
    /\ AtStep(c, "findactive")
    /\ exists
    /\ \/ \E v \in active : GoesOn(c) /\ chosen' = [chosen EXCEPT ![c] = v]
                                    /\ base' = [base EXCEPT ![c] = edits[v]]
       \/ active = {} /\ GoesOnWith(c, SubSeq(todo[c], 3, Len(todo[c]))) /\ UNCHANGED <<chosen, base>>
    /\ seen' = [seen EXCEPT ![c] = 0]
    /\ UNCHANGED <<api, made, started, edited, promised, calm, touched, strayed>>

\* A service with an active version cannot be deleted.
DeleteService(c) ==
    /\ AtStep(c, "deleteservice")
    /\ exists
    /\ active = {}
    /\ exists' = FALSE
    /\ touched' = [touched EXCEPT ![c] = TRUE]
    /\ GoesOn(c)
    /\ UNCHANGED <<last, active, locked, staged, edits, chosen, made, started, base, edited,
                   seen, promised, calm, strayed>>

-----------------------------------------------------------------------------

Step(c) ==
    \/ \E command \in Commands : Start(c, command)
    \/ Refuse(c) \/ Ask(c) \/ ServiceID(c) \/ CallFails(c)
    \/ \E flag \in VersionFlags :
          \/ flag # "unset" /\ SelectPlain(c, flag)
          \/ \E value \in {"on", "off"} : flag # "unset" /\ SelectAutoclone(c, flag, value)
          \/ SelectForDeploy(c, flag)
          \/ SelectNothing(c, flag)
    \/ AutocloneVersion(c) \/ CloneCommand(c)
    \/ MakeEdit(c) \/ EditConflicts(c) \/ PlainCall(c)
    \/ Activate(c) \/ Deactivate(c) \/ Lock(c) \/ Stage(c) \/ Unstage(c)
    \/ FindActive(c) \/ DeleteService(c) \/ WriteFile(c)

Next == \E c \in Clients : Step(c)

Spec == Init /\ [][Next]_vars

-----------------------------------------------------------------------------
(* Rules on the order of the steps of a command, of which the theorems about *)
(* the properties below make their hypotheses.                               *)

Selecting == {"select", "deployselect", "findactive"}
Changing  == {"clone", "edit", "call", "activate", "deactivate", "lock", "stage", "unstage",
              "deleteservice"}
Checking  == {"refuse", "maystop", "service", "select", "deployselect"}
Freezing  == {"activate", "lock", "stage", "findactive"}
Resuming  == {"edit", "select", "deployselect"}

\* In s no step of B comes after one of A.
NotAfter(s, A, B) ==
    \A i, j \in 1 .. Len(s) : i < j /\ s[i].step \in A => s[j].step \notin B

\* The first rule: a command that has made an edit selects no other version.
SelectsFirst == \A row \in Commands : NotAfter(row, {"edit"}, Selecting)

\* The second rule: arguments are refused, versions are found unfit and questions are
\* asked before anything is changed.
ChecksFirst == \A row \in Commands : NotAfter(row, Changing, Checking)

\* The third rule: a command that has activated, locked or staged its version, or has
\* turned to the active one, neither edits nor selects a version any more.
FreezesLast == \A row \in Commands : NotAfter(row, Freezing, Resuming)

-----------------------------------------------------------------------------
(* Properties.                                                             *)

\* Edits accumulate.  As long as every command selects the latest version and
\* none acts on a listing that another client has made obsolete, the highest
\* version contains every edit ever made, whatever was activated, locked,
\* staged, refused or failed in between: a clone never leaves one behind
\* (OptionalAutoClone.Parse and the calls that use its result).
EditsKept == ~strayed => edits[last] = 1 .. made

\* A command works on top of all that the version it selected contained when
\* it was listed, its own edit included once made: neither the clone nor the
\* version that is activated in its place is an older one.
BuildsOnSelection ==
    \A c \in Clients : chosen[c] # 0 =>
        /\ base[c] \subseteq edits[chosen[c]]
        /\ edited[c] # 0 => edited[c] \in edits[chosen[c]]

\* A command that demands an editable version, or was told to clone one that
\* is not, runs into the API's refusal only if another client activated or
\* locked the version after it was selected: the checks of ServiceDetails
\* miss no other case.
OnlyRacesConflict ==
    \A c \in Clients : outcome[c] = "conflict" /\ promised[c] => ~calm[c]

\* A command that refuses its arguments, or whose user declines, has changed
\* nothing but for the version it may have cloned: in every Exec the checks
\* come before the first call that changes something.
RefusedUntouched ==
    \A c \in Clients : outcome[c] \in {"refused", "declined"} => ~touched[c]

=============================================================================
