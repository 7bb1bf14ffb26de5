------------------------------- MODULE Deploy -------------------------------
(***************************************************************************)
(* `fastly compute deploy` (pkg/commands/compute/deploy.go).  The main     *)
(* goroutine finds or creates a service, fills a version with resources    *)
(* and the package and activates it; a monitor goroutine waits for a       *)
(* signal.  An error of the main goroutine and a signal alike undo the     *)
(* creation of a service, each on its own.  "old" is the service that      *)
(* existed before, "new" the one the command creates.  Stores (KV, config, *)
(* secret) belong to the account: they outlive the service, and one that   *)
(* an earlier deployment left may be there.                                *)
(***************************************************************************)
EXTENDS Naturals

CONSTANTS
    MaxFaults,  \* bound: the calls, prompts and file operations that fail
    Timeout     \* --status-check-timeout, in ticks of the status check

ASSUME DeployAssumption == MaxFaults \in Nat /\ Timeout \in Nat

Actors == {"main", "monitor"}
Services == {"old", "new"}
StoreNames == {"named", "other"}  \* that of [setup]; one entered at the prompt

VARIABLES
    services,     \* service -> "absent", "live" or "deleted" (external)
    contents,     \* what the command put into the version it edits (external)
    serving,      \* what the version this command activated holds (external)
    trial,        \* the account has the Compute trial (external)
    stores,       \* store -> "none", "empty" or "filled" with its items (external)
    manifest,     \* the service ID in fastly.toml: "none", "old", "new", "torn"
    byName,       \* --service-name is set; it is the name of the old service
    packagePath,  \* c.PackagePath: "unset" until Setup, "flag" or "default"
    serviceID,    \* Exec's variable, shared with the monitor: "none", "old", "new"
    noExistingService,
    using,        \* the store to fill and link; "none" if [setup] has none
    elapsed,      \* ticks of the status check
    pc,           \* where each goroutine is
    exit,         \* "running", or how the process ended
    faults

remote == <<services, contents, serving, trial, stores>>
setup == <<byName, packagePath, noExistingService, using>>
vars == <<remote, manifest, setup, serviceID, elapsed, pc, exit, faults>>

Init ==
    /\ \E s \in {"absent", "live"} :
           services = [x \in Services |-> IF x = "old" THEN s ELSE "absent"]
    /\ contents = {} /\ serving = {}
    /\ trial \in BOOLEAN
    /\ \E s \in {"none", "empty", "filled"} :
           stores = [n \in StoreNames |-> IF n = "named" THEN s ELSE "none"]
    /\ using \in {"none", "named"}
    /\ manifest \in {"none", "old"}
    /\ byName \in BOOLEAN
    /\ packagePath \in {"unset", "flag"}
    /\ serviceID = "none" /\ noExistingService = FALSE
    /\ elapsed = 0
    /\ pc = [a \in Actors |-> IF a = "main" THEN "setup" ELSE "off"]
    /\ exit = "running"
    /\ faults = 0

At(a, l) == exit = "running" /\ pc[a] = l
Goto(a, l) == pc' = [pc EXCEPT ![a] = l] /\ UNCHANGED exit
Fault == faults < MaxFaults /\ faults' = faults + 1
NoFault == UNCHANGED faults

\* An API call for the service: it goes through, or it fails, which a service
\* that is not there makes certain.
Succeeds == services[serviceID] = "live" /\ NoFault
Fails == Fault \/ (services[serviceID] # "live" /\ NoFault)
\* What a failing call may leave: nothing of it at a service that is not there.
Left(now, results) == {now} \cup (IF services[serviceID] = "live" THEN results ELSE {})

\* A version with the package is active.
Activated == serving # {}

-----------------------------------------------------------------------------
(* Setup and the choice of the service *)

\* The service argparser.ServiceID finds.
Found == IF byName THEN (IF services["old"] = "live" THEN "old" ELSE "none")
         ELSE IF manifest = "old" THEN "old" ELSE "none"

\* The error of the lookup is not handled: it leaves serviceID empty.
Setup ==
    /\ At("main", "setup")
    /\ \/ /\ serviceID' = Found
          /\ NoFault
       \/ /\ byName
          /\ serviceID' = "none"
          /\ Fault
    /\ packagePath' = IF packagePath = "unset" THEN "default" ELSE packagePath
    /\ noExistingService' = (serviceID' = "none")
    /\ pc' = [pc EXCEPT !["main"] = IF serviceID' = "none" THEN "prompt" ELSE "existing",
                        !["monitor"] = "listening"]
    /\ UNCHANGED <<remote, manifest, byName, using, elapsed, exit>>

\* validatePackage, or the token: nothing has been done yet.
SetupFails ==
    /\ At("main", "setup")
    /\ Fault
    /\ exit' = "error"
    /\ UNCHANGED <<remote, manifest, setup, serviceID, elapsed, pc>>

Prompt ==
    /\ At("main", "prompt")
    /\ \/ Goto("main", "create") /\ NoFault
       \/ Goto("main", "undo") /\ Fault
       \/ exit' = "stopped" /\ NoFault /\ UNCHANGED pc
    /\ UNCHANGED <<remote, manifest, setup, serviceID, elapsed>>

\* Mutant: the error is lost.
CreateIgnored ==
    /\ At("main", "create")
    /\ trial
    /\ \/ /\ services' = [services EXCEPT !["new"] = "live"]
          /\ NoFault
       \/ services' = services /\ Fault
    /\ Goto("main", "save")
    /\ UNCHANGED <<contents, serving, trial, stores, manifest, setup, serviceID, elapsed>>
\* The API may create the service although its answer does not arrive.
CreateService ==
    /\ At("main", "create")
    /\ trial
    /\ \/ /\ services' = [services EXCEPT !["new"] = "live"]
          /\ Goto("main", "save")
          /\ NoFault
       \/ /\ services' \in {services, [services EXCEPT !["new"] = "live"]}
          /\ Goto("main", "undo")
          /\ Fault
    /\ UNCHANGED <<contents, serving, trial, stores, manifest, setup, serviceID, elapsed>>

\* "trial not activated": activate it and try again.
ActivateTrial ==
    /\ At("main", "create")
    /\ ~trial
    /\ \/ trial' = TRUE /\ NoFault /\ UNCHANGED <<pc, exit>>
       \/ trial' \in BOOLEAN /\ Fault /\ Goto("main", "undo")
    /\ UNCHANGED <<services, contents, serving, stores, manifest, setup, serviceID, elapsed>>

-----------------------------------------------------------------------------
(* UpdateManifestServiceID: read fastly.toml, truncate it, write it.       *)

\* The caller goes to "read" once the file has been truncated.
Truncate(a, from, to) ==
    /\ At(a, from)
    /\ manifest' = "torn"
    /\ Goto(a, to)
    /\ NoFault

\* The file could not be read or created.  A torn one may not parse.
ReadFails(a, from) ==
    /\ At(a, from)
    /\ Fault \/ (manifest = "torn" /\ NoFault)
    /\ UNCHANGED manifest

Save ==
    /\ Truncate("main", "save", "write")
    /\ UNCHANGED <<remote, setup, serviceID, elapsed>>

Write ==
    /\ At("main", "write")
    /\ manifest' = "new"
    /\ Goto("main", "return")
    /\ NoFault
    /\ UNCHANGED <<remote, setup, serviceID, elapsed>>

\* The error is skipped unless c.PackagePath is empty.
SaveFails ==
    /\ \/ ReadFails("main", "save")
       \/ At("main", "write") /\ Fault /\ UNCHANGED manifest
    /\ IF packagePath = "unset" THEN serviceID' = "new" /\ Goto("main", "undo")
                           ELSE UNCHANGED serviceID /\ Goto("main", "return")
    /\ UNCHANGED <<remote, setup, elapsed>>

\* NewService returns and Exec has the ID.
Return ==
    /\ At("main", "return")
    /\ serviceID' = "new"
    /\ Goto("main", "configure")
    /\ UNCHANGED <<remote, manifest, setup, elapsed, faults>>

\* An unchanged package ends the command; an active or locked version is cloned.
ExistingServiceVersion ==
    /\ At("main", "existing")
    /\ \/ Succeeds /\ Goto("main", "configure")
       \/ Succeeds /\ exit' = "stopped" /\ UNCHANGED pc
       \/ Fails /\ Goto("main", "undo")
    /\ UNCHANGED <<remote, manifest, setup, serviceID, elapsed>>

-----------------------------------------------------------------------------
(* Resources, package and activation *)

\* A step of Exec: the version may end up with one of these contents.
Step(from, results, to) ==
    /\ At("main", from)
    /\ \/ /\ Succeeds
          /\ contents' \in results
          /\ Goto("main", to)
       \/ /\ Fails
          /\ contents' \in Left(contents, results)
          /\ Goto("main", "undo")
    /\ UNCHANGED <<services, serving, trial, stores, manifest, setup, serviceID, elapsed>>

\* The store of [setup] if there is none of its name yet; otherwise the user may
\* enter another name, and accepted defaults use the one that is there.
NamesOffered ==
    IF noExistingService /\ using = "named" /\ stores["named"] # "none"
    THEN StoreNames ELSE {using}

\* Validate, Configure, ConfigureServiceResources: find out what is missing.
Configure ==
    /\ At("main", "configure")
    /\ \/ Succeeds /\ using' \in NamesOffered /\ Goto("main", "domain")
       \/ Fails /\ UNCHANGED using /\ Goto("main", "undo")
    /\ UNCHANGED <<remote, manifest, byName, packagePath, noExistingService,
                   serviceID, elapsed>>

\* sr.domains.Create, if a domain is missing.
CreateDomain == Step("domain", {contents, contents \cup {"domain"}},
                     IF noExistingService THEN "resources" ELSE "upload")

\* CreateServiceResources: the backends first.
CreateBackends == Step("resources", {contents \cup {"backend"}},
                       IF using = "none" THEN "upload" ELSE "store")

\* A call for a store: it does not need the service.
StoreStep(from, results, to) ==
    /\ At("main", from)
    /\ \/ stores' \in results /\ NoFault /\ Goto("main", to)
       \/ stores' \in results \cup {stores} /\ Fault /\ Goto("main", "undo")
    /\ UNCHANGED <<services, contents, serving, trial, manifest, setup, serviceID, elapsed>>

\* A store that exists is only retrieved.
CreateStore ==
    StoreStep("store",
              {IF stores[using] = "none" THEN [stores EXCEPT ![using] = "empty"] ELSE stores},
              "fill")

\* The items of [setup] are inserted one by one; an existing one is replaced.
FillStore == StoreStep("fill", {[stores EXCEPT ![using] = "filled"]}, "link")

\* The resource link puts the store into the version.
LinkStore == Step("link", {contents \cup {"link"}}, "upload")

\* Mutant: the error is lost.
UploadIgnored ==
    /\ At("main", "upload")
    /\ Succeeds \/ Fails
    /\ contents' \in Left(contents, {contents \cup {"package"}})
    /\ Goto("main", "activate")
    /\ UNCHANGED <<services, serving, trial, stores, manifest, setup, serviceID, elapsed>>
UploadPackage == Step("upload", {contents \cup {"package"}}, "activate")

\* The comment of the version, then its activation.
ProcessService ==
    /\ At("main", "activate")
    /\ \/ Succeeds /\ serving' = contents /\ Goto("main", "url")
       \/ Fails /\ serving' \in Left(serving, {contents}) /\ Goto("main", "undo")
    /\ UNCHANGED <<services, contents, trial, stores, manifest, setup, serviceID, elapsed>>

\* A service without a domain has no URL; the check can be turned off.
GetServiceURL ==
    /\ At("main", "url")
    /\ \/ Succeeds /\ Goto("main", "report")
       \/ Succeeds /\ noExistingService /\ Goto("main", "check")
       \/ Fails /\ Goto("main", "undo")
    /\ UNCHANGED <<remote, manifest, setup, serviceID, elapsed>>

\* Mutant: the timeout is not selected.
CheckForever ==
    /\ At("main", "check")
    /\ \/ Goto("main", "report") /\ UNCHANGED elapsed
       \/ elapsed' = (elapsed + 1) % (Timeout + 1) /\ UNCHANGED <<pc, exit>>
    /\ UNCHANGED <<remote, manifest, setup, serviceID, faults>>
\* One ping per tick until an answer that will do, an error or the timeout;
\* none of them fails the command.
StatusCheck ==
    /\ At("main", "check")
    /\ \/ Goto("main", "report") /\ UNCHANGED elapsed
       \/ elapsed < Timeout /\ elapsed' = elapsed + 1 /\ UNCHANGED <<pc, exit>>
    /\ UNCHANGED <<remote, manifest, setup, serviceID, faults>>

Report ==
    /\ At("main", "report")
    /\ exit' = "success"
    /\ UNCHANGED <<remote, manifest, setup, serviceID, elapsed, pc, faults>>

-----------------------------------------------------------------------------
(* Cleaning up: RunIfError of the main goroutine, Unwind of the monitor *)

\* The signal is caught once: it is then delivered to the process again.
Signal ==
    /\ At("monitor", "listening")
    /\ Goto("monitor", IF noExistingService THEN "undo" ELSE "skipped")
    /\ UNCHANGED <<remote, manifest, setup, serviceID, elapsed, faults>>

\* Mutant: whichever service there is.
UndoAny(a) ==
    /\ At(a, "undo")
    /\ Goto(a, IF serviceID # "none" THEN "delete" ELSE "skipped")
    /\ UNCHANGED <<remote, manifest, setup, serviceID, elapsed, faults>>
\* Mutant: the ID serviceID had when the function was pushed.
UndoCaptured(a) ==
    /\ At(a, "undo")
    /\ Goto(a, "skipped")
    /\ UNCHANGED <<remote, manifest, setup, serviceID, elapsed, faults>>
\* The function on the undo stack.
Undo(a) ==
    /\ At(a, "undo")
    /\ Goto(a, IF noExistingService /\ serviceID # "none" THEN "delete" ELSE "skipped")
    /\ UNCHANGED <<remote, manifest, setup, serviceID, elapsed, faults>>

\* The version is not deactivated first, and the API refuses to delete a service
\* with an active version (service/delete.go).
DeleteService(a) ==
    /\ At(a, "delete")
    /\ \/ /\ Succeeds
          /\ ~Activated
          /\ services' = [services EXCEPT ![serviceID] = "deleted"]
          /\ Goto(a, "clear")
       \/ /\ (Succeeds /\ Activated) \/ Fails
          /\ \/ UNCHANGED services
             \/ ~Activated /\ services' = [services EXCEPT ![serviceID] = "deleted"]
          /\ Goto(a, "failed")
    /\ UNCHANGED <<contents, serving, trial, stores, manifest, setup, serviceID, elapsed>>

Clear(a) ==
    /\ Truncate(a, "clear", "blank")
    /\ UNCHANGED <<remote, setup, serviceID, elapsed>>

\* Mutant: the ID is put back.
BlankKeeping(a) ==
    /\ At(a, "blank")
    /\ manifest' = serviceID
    /\ Goto(a, "cleaned")
    /\ NoFault
    /\ UNCHANGED <<remote, setup, serviceID, elapsed>>
Blank(a) ==
    /\ At(a, "blank")
    /\ manifest' = "none"
    /\ Goto(a, "cleaned")
    /\ NoFault
    /\ UNCHANGED <<remote, setup, serviceID, elapsed>>

ClearFails(a) ==
    /\ \/ ReadFails(a, "clear")
       \/ At(a, "blank") /\ Fault /\ UNCHANGED manifest
    /\ Goto(a, "failed")
    /\ UNCHANGED <<remote, setup, serviceID, elapsed>>

\* The process ends, whatever the other goroutine is doing.
Finish(a) ==
    /\ exit = "running"
    /\ pc[a] \in {"skipped", "failed", "cleaned"}
    /\ exit' = IF a = "main" THEN "error" ELSE "interrupted"
    /\ UNCHANGED <<remote, manifest, setup, serviceID, elapsed, pc, faults>>

\* A second signal, SIGKILL, or a signal before the first is listened for.
Killed ==
    /\ exit = "running"
    /\ exit' = "killed"
    /\ UNCHANGED <<remote, manifest, setup, serviceID, elapsed, pc, faults>>

Cleanup(a) ==
    Undo(a) \/ DeleteService(a) \/ Clear(a) \/ Blank(a) \/ ClearFails(a) \/ Finish(a)

Main ==
    \/ Setup \/ SetupFails \/ Prompt \/ CreateService \/ ActivateTrial
    \/ Save \/ Write \/ SaveFails \/ Return \/ ExistingServiceVersion
    \/ Configure \/ CreateDomain \/ CreateBackends
    \/ CreateStore \/ FillStore \/ LinkStore
    \/ UploadPackage \/ ProcessService \/ GetServiceURL \/ StatusCheck \/ Report
    \/ Cleanup("main")

Monitor == Signal \/ Cleanup("monitor")

Next == Main \/ Monitor \/ Killed

Safety == Init /\ [][Next]_vars
\* The main goroutine is always scheduled; calls and prompts return.
Spec == Safety /\ WF_vars(Main)

-----------------------------------------------------------------------------
(* Properties *)

Parts == {"domain", "backend", "link", "package"}
Labels == {"setup", "prompt", "create", "save", "write", "return", "existing",
           "configure", "domain", "resources", "store", "fill", "link", "upload",
           "activate", "url", "check", "report", "undo", "delete", "clear", "blank",
           "skipped", "failed", "cleaned", "off", "listening"}

\* Types; an ID in Exec is that of a service, and of the right one.
DeployTypeOK ==
    /\ services \in [Services -> {"absent", "live", "deleted"}]
    /\ contents \subseteq Parts /\ serving \subseteq Parts
    /\ stores \in [StoreNames -> {"none", "empty", "filled"}]
    /\ using \in StoreNames \cup {"none"}
    /\ trial \in BOOLEAN /\ byName \in BOOLEAN /\ noExistingService \in BOOLEAN
    /\ manifest \in {"none", "old", "new", "torn"}
    /\ packagePath \in {"unset", "flag", "default"}
    /\ serviceID \in {"none", "old", "new"}
    /\ elapsed \in 0 .. Timeout /\ faults \in 0 .. MaxFaults
    /\ pc \in [Actors -> Labels]
    /\ exit \in {"running", "success", "stopped", "error", "interrupted", "killed"}
    /\ serviceID = "new" => noExistingService /\ services["new"] # "absent"
    /\ serviceID = "old" => ~noExistingService

\* A deployment to an existing service neither deletes a service nor writes
\* fastly.toml, however it ends and whatever signals arrive (deploy.go:189, 1300).
ExistingKept == [][serviceID = "old" => UNCHANGED <<services, manifest>>]_vars

\* What a version of a new service must hold besides the package: a backend and a
\* link to the store of [setup], with its items in it.
Equipped(version) ==
    noExistingService =>
        /\ "backend" \in version
        /\ using # "none" => "link" \in version /\ stores[using] = "filled"

\* "Deployed package" (deploy.go:354) is only said of a version that was
\* activated with the package in it and, for a new service, with everything
\* [setup] asks for, whatever an earlier deployment left in the account.
SuccessServesPackage ==
    exit = "success" => "package" \in serving /\ Equipped(serving)

\* All or nothing: what is undone before its activation is gone, and what is undone
\* after it stays, with its ID in fastly.toml.
\* Without a signal, one failing call, prompt or file operation before the
\* activation leaves neither a service behind whose ID was known nor an ID of one in
\* fastly.toml; after it, the next deployment finds the service in fastly.toml.
FailureCleansUp ==
    (exit = "error" /\ pc["monitor"] \in {"off", "listening"} /\ faults <= 1) =>
        IF noExistingService /\ Activated
        THEN services["new"] = "live" /\ manifest = "new"
        ELSE /\ services["new"] = "live" => serviceID = "none"
             /\ manifest \in {"none", "old"}

\* Likewise of a signal that finds the ID of the new service, whatever the main
\* goroutine does meanwhile, if no call fails by itself.
InterruptCleansUp ==
    (exit = "interrupted" /\ pc["monitor"] # "skipped" /\ faults = 0) =>
        IF Activated
        THEN services["new"] = "live" /\ manifest = "new"
        ELSE services["new"] = "deleted" /\ manifest = "none"

\* The command ends: the status check has a timeout.
Ends == <>(exit # "running")

\* "the service itself will be deleted while the manifest will continue to hold a
\* reference to it" (deploy.go:743) is what clearing the ID avoids.
NoDanglingID ==
    (exit \notin {"running", "killed"} /\ faults = 0) =>
        ~(services["new"] = "deleted" /\ manifest \in {"new", "torn"})
=============================================================================
