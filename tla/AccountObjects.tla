---------------------------- MODULE AccountObjects ----------------------------
(***************************************************************************)
(* One object of an account (a store, a dashboard, a list, a user) and     *)
(* several invocations of the CLI that work on it at the same time.        *)
(*                                                                         *)
(* These commands select no version: they check their arguments, perhaps   *)
(* read the object, and change it, in one of three ways.  Most send only   *)
(* what is to change, and the API applies it to the object as it is then.  *)
(* The commands for the items of a dashboard cannot: there is no request   *)
(* for one item, so they get the dashboard, change the items in memory and *)
(* write the dashboard back (src/pkg/commands/dashboard/item).  And some   *)
(* updates send the object, or a part of it, as a whole without having     *)
(* read it: those of rules and lists of the Next-Gen WAF, of its           *)
(* workspaces and of its alerts for Datadog and Jira, of domains, alerts   *)
(* and TLS subscriptions.  What every command does is a CONSTANT, given by *)
(* the tables of commands.                                                 *)
(*                                                                         *)
(* The API is external: any request may fail before it has done anything.  *)
(* Of the object the model keeps the set of changes that are in effect.    *)
(***************************************************************************)
EXTENDS Integers, FiniteSets, CommandSteps

CONSTANTS Clients,      \* processes of the CLI, each runs one command at a time
          Commands,     \* the commands they run: sequences of steps
          MaxEdits,     \* bound: changes that succeed
          MaxCommands   \* bound: commands that are started

StepNames == {"refuse", "service", "maystop", "read", "verify", "edit", "replace",
              "overwrite", "call"}

ASSUME ObjectsAssumption ==
    /\ Commands \subseteq Seq([step : StepNames]) \ {<< >>}
    /\ MaxEdits \in Nat /\ MaxCommands \in Nat

VARIABLES
    object,       \* the changes in effect
    todo,         \* the steps the command of a client has still to do
    outcome,      \* how the command stands or ended
    copy,         \* the object as the client last read it
    \* history, on which no step depends:
    made,         \* the number of changes that succeeded
    started,      \* the number of commands started
    outdated,     \* somebody else has changed the object since the client read it
    touched,      \* the command has changed something at the API
    lost,         \* changes a client has overwritten with an outdated copy
    overwritten   \* changes replaced by a command that had not read them

vars == <<object, todo, outcome, copy, made, started, outdated, touched, lost,
          overwritten>>

Edit     == 1 .. MaxEdits
Outcomes == {"idle", "running", "ok", "stopped", "refused", "failed"}

Init ==
    /\ object = {}
    /\ todo = [c \in Clients |-> << >>]
    /\ outcome = [c \in Clients |-> "idle"]
    /\ copy = [c \in Clients |-> {}]
    /\ made = 0
    /\ started = 0
    /\ outdated = [c \in Clients |-> FALSE]
    /\ touched = [c \in Clients |-> FALSE]
    /\ lost = {}
    /\ overwritten = {}

-----------------------------------------------------------------------------

Start(c, command) ==
    /\ outcome[c] # "running"
    /\ started < MaxCommands
    /\ started' = started + 1
    /\ todo' = [todo EXCEPT ![c] = command]
    /\ outcome' = [outcome EXCEPT ![c] = "running"]
    /\ copy' = [copy EXCEPT ![c] = {}]
    /\ outdated' = [outdated EXCEPT ![c] = FALSE]
    /\ touched' = [touched EXCEPT ![c] = FALSE]
    /\ UNCHANGED <<object, made, lost, overwritten>>

AtStep(c, step) ==
    /\ outcome[c] = "running"
    /\ Head(todo[c]).step = step

GoesOn(c) ==
    /\ todo' = [todo EXCEPT ![c] = Tail(@)]
    /\ outcome' = [outcome EXCEPT ![c] = IF Len(todo[c]) = 1 THEN "ok" ELSE @]

\* Exec returns, with an error or because there is nothing left to do.
Ends(c, how) ==
    /\ todo' = [todo EXCEPT ![c] = << >>]
    /\ outcome' = [outcome EXCEPT ![c] = how]

\* The arguments, the ID of the service or of the workspace among them, are
\* accepted or not.
Refuse(c) ==
    /\ AtStep(c, "refuse") \/ AtStep(c, "service")
    /\ GoesOn(c) \/ Ends(c, "refused")
    /\ UNCHANGED <<object, copy, made, started, outdated, touched, lost,
                   overwritten>>

\* The user has seen enough or says no, or there is nothing to do.
Stop(c) ==
    /\ AtStep(c, "maystop")
    /\ GoesOn(c) \/ Ends(c, "stopped")
    /\ UNCHANGED <<object, copy, made, started, outdated, touched, lost,
                   overwritten>>

\* Any request may fail, or its answer be other than the command needs; the
\* error ends the command.
Fail(c) ==
    /\ outcome[c] = "running"
    /\ Head(todo[c]).step \notin {"refuse", "maystop"}
    /\ Ends(c, "failed")
    /\ UNCHANGED <<object, copy, made, started, outdated, touched, lost,
                   overwritten>>

Verify(c) ==
    /\ AtStep(c, "verify")
    /\ GoesOn(c)
    /\ UNCHANGED <<object, copy, made, started, outdated, touched, lost,
                   overwritten>>

Read(c) ==
    /\ AtStep(c, "read")
    /\ GoesOn(c)
    /\ copy' = [copy EXCEPT ![c] = object]
    /\ outdated' = [outdated EXCEPT ![c] = FALSE]
    /\ UNCHANGED <<object, made, started, touched, lost, overwritten>>

\* What every change has in common: what the others have read is outdated.
Changes(c) ==
    /\ made < MaxEdits
    /\ made' = made + 1
    /\ GoesOn(c)
    /\ touched' = [touched EXCEPT ![c] = TRUE]
    /\ outdated' = [d \in Clients |-> d # c \/ outdated[d]]
    /\ UNCHANGED <<copy, started>>

\* The API applies a change to the object as it is.
MakeEdit(c) ==
    /\ AtStep(c, "edit")
    /\ Changes(c)
    /\ object' = object \cup {made + 1}
    /\ UNCHANGED <<lost, overwritten>>

\* The object as it was read, with the change, replaces the object.
Replace(c) ==
    /\ AtStep(c, "replace")
    /\ Changes(c)
    /\ object' = copy[c] \cup {made + 1}
    /\ lost' = IF outdated[c] THEN lost \cup (object \ copy[c]) ELSE lost
    /\ UNCHANGED overwritten

\* A part of the object, or all of it, is replaced by what the command was
\* given; the API keeps the other parts.
Overwrite(c) ==
    /\ AtStep(c, "overwrite")
    /\ Changes(c)
    /\ \E kept \in SUBSET object :
        /\ object' = kept \cup {made + 1}
        /\ overwritten' = overwritten \cup (object \ kept)
    /\ UNCHANGED lost

\* A request that changes something else: a purge, a key that is created.
CallOther(c) ==
    /\ AtStep(c, "call")
    /\ GoesOn(c)
    /\ touched' = [touched EXCEPT ![c] = TRUE]
    /\ UNCHANGED <<object, copy, made, started, outdated, lost, overwritten>>

Step(c) ==
    \/ \E command \in Commands : Start(c, command)
    \/ Refuse(c) \/ Stop(c) \/ Fail(c)
    \/ Read(c) \/ Verify(c) \/ CallOther(c)
    \/ MakeEdit(c) \/ Replace(c) \/ Overwrite(c)

Next == \E c \in Clients : Step(c)

Spec == Init /\ [][Next]_vars

-----------------------------------------------------------------------------
(* Properties.                                                             *)

\* A change that was acknowledged is in effect unless a command has sent the
\* part of the object it was made in as a whole, unread, or has written the
\* object back after somebody else had changed it.  Every other command keeps
\* what others did: those that write the whole object back have read it since
\* they last changed it, and keep all that they do not mean to change (the
\* constructInput methods of dashboard/item).  An outdated copy may also bring
\* back what another client had undone.
ChangesKept == (1 .. made) \ (lost \cup overwritten) \subseteq object

\* A command that refuses its arguments, or that stops because the user says
\* no, has changed nothing: in every Exec the checks and questions come
\* before the first request that changes something.
RefusedUntouched ==
    \A c \in Clients : outcome[c] \in {"refused", "stopped"} => ~touched[c]

=============================================================================
