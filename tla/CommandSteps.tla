---------------------------- MODULE CommandSteps ----------------------------
(***************************************************************************)
(* What a command of the CLI is made of.  The Exec methods of              *)
(* src/pkg/commands differ in their flags and in what they print; what     *)
(* they do is a short sequence of steps out of a few: an argument is       *)
(* refused, a service and one of its versions are selected, the version is *)
(* cloned, the user is asked, the API is called.  The tables of commands   *)
(* give every command as such a sequence, in the order of its Exec, and    *)
(* the modules ServiceVersions and AccountObjects say what the steps do.   *)
(***************************************************************************)
EXTENDS Sequences

-----------------------------------------------------------------------------
(* Steps before the first call of the API.                                 *)

\* A combination or a value of the flags that the command does not accept.
Refusable == [step |-> "refuse"]

\* --verbose and --json exclude each other.
JSONOrVerbose == Refusable

\* The service of a command that selects no version (argparser.ServiceID).
Service == [step |-> "service"]

\* A reason to end well without doing anything more: the user says no, or the
\* command finds that nothing is left to do.
MayStop == [step |-> "maystop"]

-----------------------------------------------------------------------------
(* The selection of a version: the states the command demands of it        *)
(* ("yes", "no" or "any") and whether the command has an --autoclone flag. *)

ServiceDetails(isActive, isLocked, isStaging, autoclone) ==
    [step |-> "select", isActive |-> isActive, isLocked |-> isLocked,
     isStaging |-> isStaging, autoclone |-> autoclone]

\* The selection of nearly every command that edits a version.
Editable == ServiceDetails("no", "no", "any", TRUE)

\* The selection of nearly every command that only reads one.
AnyVersion == ServiceDetails("any", "any", "any", FALSE)

\* The selection of "compute deploy" in a service that exists already.
ExistingServiceVersion == [step |-> "deployselect"]

\* The clone a selection asks for before the command goes on with it.
Autoclone == [step |-> "autoclone"]

-----------------------------------------------------------------------------
(* Calls of the API.  Of an edit the models keep that it was made, not     *)
(* what it says, so that creating, updating and deleting are one step.     *)

Reads   == [step |-> "read"]
Edits   == [step |-> "edit"]
Creates == Edits
Updates == Edits
Deletes == Edits

\* What was read is not what the command needs; it fails.
Verifies == [step |-> "verify"]

\* An object that was read before is written back as a whole.
Replaces == [step |-> "replace"]

\* The object, or a part of it such as all its entries, is sent as a whole
\* and has not been read: what it held is replaced by what the flags or a
\* file say.
Overwrites == [step |-> "overwrite"]

\* A call whose effect is outside what the models keep: a purge, a key that
\* is generated, a comment of a version.
Calls == [step |-> "call"]

\* The calls that move a version through its states.
Clones      == [step |-> "clone"]
Activates   == [step |-> "activate"]
Deactivates == [step |-> "deactivate"]
Locks       == [step |-> "lock"]
Stages      == [step |-> "stage"]
Unstages    == [step |-> "unstage"]

\* "service delete --force" asks which version is active, and deletes the
\* service once that version is deactivated.
FindsActive    == [step |-> "findactive"]
DeletesService == [step |-> "deleteservice"]

\* Something is written on this machine, the API is not involved.
WritesFile == [step |-> "file"]

=============================================================================
