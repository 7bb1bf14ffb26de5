---------------------------- MODULE Deploy_proof ----------------------------
(***************************************************************************)
(* Theorems about `compute deploy`, for any number of failures and any     *)
(* timeout of the status check.                                            *)
(***************************************************************************)
EXTENDS Deploy, TLAPS

\* The places of a goroutine that cleans up.
CleanerLabels == {"undo", "delete", "clear", "blank", "skipped", "failed", "cleaned"}

\* Where the main goroutine is says what it knows; a clean-up that got past its
\* guard has the ID of the new service; a service that was deleted was not activated.
Control ==
    /\ pc["main"] \in {"setup", "prompt", "create", "save", "write", "return"}
           => serviceID = "none"
    /\ pc["main"] \in {"prompt", "create", "save", "write", "return"}
           => noExistingService
    /\ pc["main"] \in {"save", "write", "return"} => services["new"] # "absent"
    /\ \A a \in Actors : pc[a] \in {"delete", "clear", "blank"} => serviceID = "new"
    /\ pc["main"] \in {"existing", "configure", "domain", "resources", "store", "fill",
                       "link", "upload", "activate"} => serviceID # "none"
    /\ Activated => /\ serviceID # "none"
                    /\ pc["main"] \in {"url", "check", "report"} \cup CleanerLabels
    /\ serviceID = "new" /\ services["new"] = "deleted" => ~Activated

\* A new service has its backend before its store, the store before its items and
\* those before the link; then comes the package, and what is activated has it all.
PackageFirst ==
    /\ pc["main"] \in {"store", "fill", "link"} =>
           using # "none" /\ "backend" \in contents
    /\ pc["main"] = "link" => stores[using] = "filled"
    /\ pc["main"] \in {"upload", "activate"} => Equipped(contents)
    /\ pc["main"] = "activate" => "package" \in contents
    /\ pc["main"] \in {"url", "check", "report"} => "package" \in serving /\ Equipped(serving)
    /\ exit = "success" => "package" \in serving /\ Equipped(serving)

Inv == DeployTypeOK /\ Control /\ PackageFirst

LEMMA InitInv == Init => Inv
<1> SUFFICES ASSUME Init PROVE Inv
  OBVIOUS
<1>1. /\ services \in [Services -> {"absent", "live", "deleted"}]
      /\ pc \in [Actors -> Labels] /\ pc["main"] = "setup" /\ pc["monitor"] = "off"
  BY DEF Init, Services, Actors, Labels
<1>2. elapsed \in 0 .. Timeout /\ faults \in 0 .. MaxFaults
  BY DeployAssumption DEF Init
<1>3. /\ stores \in [StoreNames -> {"none", "empty", "filled"}]
      /\ using \in StoreNames \cup {"none"}
      /\ trial \in BOOLEAN /\ byName \in BOOLEAN /\ noExistingService \in BOOLEAN
      /\ contents \subseteq Parts /\ serving \subseteq Parts
      /\ packagePath \in {"unset", "flag", "default"}
  BY DEF Init, StoreNames
<1>4. DeployTypeOK
  BY <1>1, <1>2, <1>3 DEF Init, DeployTypeOK
<1>5. Control /\ PackageFirst
  BY <1>1 DEF Init, Control, PackageFirst, Actors, Activated
<1> QED
  BY <1>4, <1>5 DEF Inv

\* A failure is counted within its bound.
LEMMA FaultType == ASSUME DeployTypeOK, Fault \/ NoFault PROVE faults' \in 0 .. MaxFaults
BY DeployAssumption DEF DeployTypeOK, Fault, NoFault

\* What Goto does to the goroutine and to the other.
LEMMA GotoType ==
    ASSUME DeployTypeOK, NEW a \in Actors, NEW l \in Labels, Goto(a, l)
    PROVE  /\ pc' \in [Actors -> Labels] /\ exit' = exit
           /\ pc'[a] = l
           /\ \A b \in Actors \ {a} : pc'[b] = pc[b]
BY DEF DeployTypeOK, Goto

LEMMA SetupInv == ASSUME Inv, Setup PROVE Inv'
<1>1. faults' \in 0 .. MaxFaults
  BY FaultType DEF Inv, Setup
<1>2. /\ serviceID' \in {"none", "old"}
      /\ serviceID' = "none" <=> noExistingService'
      /\ pc' \in [Actors -> Labels] /\ pc'["monitor"] = "listening"
      /\ pc'["main"] = IF serviceID' = "none" THEN "prompt" ELSE "existing"
  BY DEF Inv, DeployTypeOK, Setup, Found, Actors, Labels, At
<1>3. noExistingService' \in BOOLEAN
  BY DEF Setup
<1>4. DeployTypeOK'
  BY <1>1, <1>2, <1>3 DEF Inv, DeployTypeOK, Setup, remote
<1>5. Control'
  BY <1>2 DEF Inv, Control, Setup, remote, At, Actors, Activated, CleanerLabels
<1>6. PackageFirst'
  BY <1>2 DEF Inv, PackageFirst, Setup, At
<1> QED
  BY <1>4, <1>5, <1>6 DEF Inv

LEMMA StartInv == ASSUME Inv, SetupFails \/ Prompt \/ CreateService \/ ActivateTrial PROVE Inv'
<1> USE DEF Inv, DeployTypeOK, Control, PackageFirst, Equipped, setup, remote,
           Actors, Labels, CleanerLabels, Services, At, Goto, Activated, Left
<1>1. CASE SetupFails
  BY <1>1, FaultType DEF SetupFails
<1>2. CASE Prompt
  BY <1>2, FaultType DEF Prompt
<1>3. CASE CreateService
  BY <1>3, FaultType DEF CreateService
<1>4. CASE ActivateTrial
  <2>1. trial' \in BOOLEAN
    BY <1>4 DEF ActivateTrial
  <2>2. Fault \/ NoFault
    BY <1>4 DEF ActivateTrial
  <2>3. /\ pc' \in [Actors -> Labels] /\ exit' = exit
        /\ pc'["main"] \in {"create", "undo"} /\ pc'["monitor"] = pc["monitor"]
    BY <1>4 DEF ActivateTrial
  <2> QED
    BY <1>4, <2>1, <2>2, <2>3, FaultType DEF ActivateTrial
<1> QED
  BY <1>1, <1>2, <1>3, <1>4

LEMMA ManifestInv == ASSUME Inv, Save \/ Write \/ SaveFails \/ Return PROVE Inv'
<1> USE DEF Inv, DeployTypeOK, Control, PackageFirst, Equipped, setup, remote,
           Actors, Labels, CleanerLabels, Services, At, Goto, Activated, Left
<1>1. CASE Save
  BY <1>1, FaultType DEF Save, Truncate
<1>2. CASE Write
  BY <1>2, FaultType DEF Write
<1>3. CASE SaveFails
  <2>1. Fault \/ NoFault
    BY <1>3 DEF SaveFails, ReadFails
  <2>2. pc["main"] \in {"save", "write"} /\ manifest' = manifest /\ exit = "running"
    BY <1>3 DEF SaveFails, ReadFails
  <2> QED
    BY <1>3, <2>1, <2>2, FaultType DEF SaveFails
<1>4. CASE Return
  BY <1>4 DEF Return
<1> QED
  BY <1>1, <1>2, <1>3, <1>4

\* A step of Exec that fills the version keeps the invariant if what it may leave
\* in the version is what its next place promises.
LEMMA StepInv ==
    ASSUME Inv, NEW from, NEW results, NEW to, Step(from, results, to),
           from \in {"domain", "resources", "link", "upload"},
           to \in {"resources", "store", "upload", "activate"},
           results \subseteq SUBSET Parts,
           to = "store" => using # "none" /\ \A c \in results : "backend" \in c,
           to \in {"upload", "activate"} => \A c \in results : Equipped(c),
           to = "activate" => \A c \in results : "package" \in c
    PROVE  Inv'
<1>1. Fault \/ NoFault
  BY DEF Step, Succeeds, Fails
<1>2. contents' \subseteq Parts
  BY DEF Step, Left, Inv, DeployTypeOK
<1>3. /\ pc' \in [Actors -> Labels] /\ pc["main"] = from /\ exit' = exit
      /\ pc'["main"] \in {to, "undo"} /\ pc'["monitor"] = pc["monitor"]
      /\ exit = "running"
  BY DEF Step, Inv, DeployTypeOK, Actors, Labels, At, Goto
<1>4. pc'["main"] = to => contents' \in results
  BY <1>3 DEF Step, Goto, At, Inv, DeployTypeOK, Actors
<1>5. DeployTypeOK'
  BY <1>1, <1>2, <1>3, FaultType DEF Inv, DeployTypeOK, Step, setup
<1>6. Control'
  BY <1>3 DEF Inv, Control, Step, setup, Actors, Activated, CleanerLabels
<1>7. PackageFirst'
  BY <1>3, <1>4 DEF PackageFirst, Equipped, Step, setup
<1> QED
  BY <1>5, <1>6, <1>7 DEF Inv

\* The places before the activation promise nothing that the store chosen for a
\* new service could break.
LEMMA ConfigureInv == ASSUME Inv, Configure PROVE Inv'
<1>1. Fault \/ NoFault
  BY DEF Configure, Succeeds, Fails
<1>2. /\ pc' \in [Actors -> Labels] /\ pc["main"] = "configure" /\ exit' = exit
      /\ pc'["main"] \in {"domain", "undo"} /\ pc'["monitor"] = pc["monitor"]
      /\ exit = "running"
  BY DEF Configure, Inv, DeployTypeOK, Actors, Labels, At, Goto
<1>3. using' \in StoreNames \cup {"none"}
  BY DEF Configure, NamesOffered, Inv, DeployTypeOK
<1>4. DeployTypeOK'
  BY <1>1, <1>2, <1>3, FaultType DEF Inv, DeployTypeOK, Configure, remote
<1>5. Control' /\ PackageFirst'
  BY <1>2 DEF Inv, Control, PackageFirst, Configure, remote, Actors, Activated, CleanerLabels
<1> QED
  BY <1>4, <1>5 DEF Inv

\* Once filled, a store stays filled; the version is not touched.
LEMMA StoreInv == ASSUME Inv, CreateStore \/ FillStore PROVE Inv'
<1>1. Fault \/ NoFault
  BY DEF CreateStore, FillStore, StoreStep
<1>2. /\ pc' \in [Actors -> Labels] /\ pc["main"] \in {"store", "fill"} /\ exit' = exit
      /\ pc'["main"] \in {"fill", "link", "undo"} /\ pc'["monitor"] = pc["monitor"]
      /\ pc'["main"] = "link" =>
             pc["main"] = "fill" /\ stores' = [stores EXCEPT ![using] = "filled"]
      /\ exit = "running"
  BY DEF CreateStore, FillStore, StoreStep, Inv, DeployTypeOK, Actors, Labels, At, Goto
<1>3. using \in StoreNames
  BY <1>2 DEF Inv, DeployTypeOK, PackageFirst
<1>4. stores' \in [StoreNames -> {"none", "empty", "filled"}]
  BY <1>3 DEF Inv, DeployTypeOK, CreateStore, FillStore, StoreStep
<1>5. DeployTypeOK'
  BY <1>1, <1>2, <1>4, FaultType DEF Inv, DeployTypeOK, CreateStore, FillStore, StoreStep, setup
<1>6. Control'
  BY <1>2 DEF Inv, Control, CreateStore, FillStore, StoreStep, setup, Actors, Activated, CleanerLabels
<1>7. PackageFirst'
  BY <1>2, <1>3 DEF Inv, DeployTypeOK, PackageFirst, CreateStore, FillStore, StoreStep, setup
<1> QED
  BY <1>5, <1>6, <1>7 DEF Inv

LEMMA ResourcesInv ==
    ASSUME Inv, CreateDomain \/ CreateBackends \/ LinkStore \/ UploadPackage
    PROVE  Inv'
<1>1. contents \subseteq Parts
  BY DEF Inv, DeployTypeOK
<1>2. CASE CreateDomain
  BY <1>1, <1>2, StepInv DEF CreateDomain, Parts, Equipped
<1>3. CASE CreateBackends
  BY <1>1, <1>3, StepInv DEF CreateBackends, Parts, Equipped
<1>4. CASE LinkStore
  <2>1. "backend" \in contents /\ stores[using] = "filled"
    BY <1>4 DEF LinkStore, Step, At, Inv, PackageFirst
  <2> QED
    BY <1>1, <1>4, <2>1, StepInv DEF LinkStore, Parts, Equipped
<1>5. CASE UploadPackage
  <2>1. Equipped(contents)
    BY <1>5 DEF UploadPackage, Step, At, Inv, PackageFirst
  <2> QED
    BY <1>1, <1>5, <2>1, StepInv DEF UploadPackage, Parts, Equipped
<1> QED
  BY <1>2, <1>3, <1>4, <1>5

LEMMA ActivationInv ==
    ASSUME Inv, \/ ExistingServiceVersion \/ ProcessService \/ GetServiceURL
                \/ StatusCheck \/ Report
    PROVE  Inv'
<1> USE DEF Inv, DeployTypeOK, Control, PackageFirst, Equipped, setup, remote,
           Actors, Labels, CleanerLabels, Services, At, Goto, Activated, Left
<1>1. CASE ExistingServiceVersion
  BY <1>1, FaultType DEF ExistingServiceVersion, Succeeds, Fails
<1>2. CASE ProcessService
  <2>1. /\ Fault \/ NoFault
        /\ pc' \in [Actors -> Labels] /\ pc["main"] = "activate" /\ exit' = exit
        /\ pc'["main"] \in {"url", "undo"} /\ pc'["monitor"] = pc["monitor"]
        /\ pc'["main"] = "url" => serving' = contents
        /\ serving' \in {serving, contents} /\ exit = "running"
    BY <1>2 DEF ProcessService, Succeeds, Fails
  <2>2. DeployTypeOK' /\ PackageFirst'
    BY <1>2, <2>1, FaultType DEF ProcessService
  <2>3. serviceID # "none" => serviceID \in Services
    OBVIOUS
  <2>4. services[serviceID] # "live" => serving' = serving
    BY <1>2 DEF ProcessService, Succeeds, Fails
  <2>5. Activated' => serviceID # "none"
    BY <1>2, <2>1 DEF ProcessService
  <2> QED
    BY <1>2, <2>1, <2>2, <2>3, <2>4, <2>5 DEF ProcessService
<1>3. CASE GetServiceURL
  BY <1>3, FaultType DEF GetServiceURL, Succeeds, Fails
<1>4. CASE StatusCheck
  BY <1>4, DeployAssumption DEF StatusCheck
<1>5. CASE Report
  BY <1>5 DEF Report
<1> QED
  BY <1>1, <1>2, <1>3, <1>4, <1>5

LEMMA CleanupInv == ASSUME Inv, NEW a \in Actors, Cleanup(a) PROVE Inv'
<1> USE DEF Inv, DeployTypeOK, Control, PackageFirst, Equipped, setup, remote,
           Actors, Labels, CleanerLabels, Services, At, Goto, Activated, Left
<1>1. CASE Undo(a)
  BY <1>1 DEF Undo
<1>2. CASE DeleteService(a)
  BY <1>2, FaultType DEF DeleteService, Succeeds, Fails
<1>3. CASE Clear(a)
  BY <1>3, FaultType DEF Clear, Truncate
<1>4. CASE Blank(a)
  BY <1>4, FaultType DEF Blank
<1>5. CASE ClearFails(a)
  BY <1>5, FaultType DEF ClearFails, ReadFails
<1>6. CASE Finish(a)
  BY <1>6 DEF Finish
<1> QED
  BY <1>1, <1>2, <1>3, <1>4, <1>5, <1>6 DEF Cleanup

LEMMA MonitorInv == ASSUME Inv, Signal \/ Killed PROVE Inv'
<1> USE DEF Inv, DeployTypeOK, Control, PackageFirst, Equipped, setup, remote,
           Actors, Labels, CleanerLabels, Services, At, Goto, Activated, Left
<1>1. CASE Signal
  BY <1>1 DEF Signal
<1>2. CASE Killed
  BY <1>2 DEF Killed
<1> QED
  BY <1>1, <1>2

\* The inductive invariant: types, what each place of the main goroutine and of a
\* clean-up knows, and the package before the activation.
THEOREM DeployInvariant == Safety => []Inv
<1>1. Inv /\ [Next]_vars => Inv'
  <2> SUFFICES ASSUME Inv, [Next]_vars PROVE Inv'
    OBVIOUS
  <2>1. CASE Setup
    BY <2>1, SetupInv
  <2>2. CASE SetupFails \/ Prompt \/ CreateService \/ ActivateTrial
    BY <2>2, StartInv
  <2>3. CASE Save \/ Write \/ SaveFails \/ Return
    BY <2>3, ManifestInv
  <2>4. CASE CreateDomain \/ CreateBackends \/ LinkStore \/ UploadPackage
    BY <2>4, ResourcesInv
  <2>9. CASE Configure \/ CreateStore \/ FillStore
    BY <2>9, ConfigureInv, StoreInv
  <2>5. CASE \/ ExistingServiceVersion \/ ProcessService \/ GetServiceURL
             \/ StatusCheck \/ Report
    BY <2>5, ActivationInv
  <2>6. CASE Cleanup("main") \/ Cleanup("monitor")
    BY <2>6, CleanupInv DEF Actors
  <2>7. CASE Signal \/ Killed
    BY <2>7, MonitorInv
  <2>8. CASE UNCHANGED vars
    BY <2>8 DEF vars, remote, setup, Activated, Inv, DeployTypeOK, Control, PackageFirst, Equipped
  <2> QED
    BY <2>1, <2>2, <2>3, <2>4, <2>5, <2>6, <2>7, <2>8, <2>9 DEF Next, Main, Monitor
<1> QED
  BY InitInv, <1>1, PTL DEF Safety

\* The state of the deployment keeps its types, and the ID it holds is that of
\* the new service only if there was none.
THEOREM DeployTypeCorrect == Safety => []DeployTypeOK
<1>1. Inv => DeployTypeOK
  BY DEF Inv
<1> QED
  BY <1>1, DeployInvariant, PTL

\* "Deployed package" is only said when a version with the package was activated.
THEOREM SuccessIsServed == Safety => []SuccessServesPackage
<1>1. Inv => SuccessServesPackage
  BY DEF Inv, PackageFirst, SuccessServesPackage
<1> QED
  BY <1>1, DeployInvariant, PTL

\* No step of either goroutine changes an existing service or its fastly.toml.
THEOREM ExistingServiceKept == Safety => ExistingKept
<1>1. Inv /\ [Next]_vars => [serviceID = "old" => UNCHANGED <<services, manifest>>]_vars
  <2> SUFFICES ASSUME Inv, Next, serviceID = "old" PROVE UNCHANGED <<services, manifest>>
    OBVIOUS
  <2>1. /\ pc["main"] \notin {"setup", "prompt", "create", "save", "write", "return"}
        /\ \A a \in Actors : pc[a] \notin {"delete", "clear", "blank"}
    BY DEF Inv, Control
  <2>2. ASSUME NEW a \in Actors, Cleanup(a) PROVE UNCHANGED <<services, manifest>>
    BY <2>1, <2>2
    DEF Cleanup, Undo, DeleteService, Clear, Blank, ClearFails, ReadFails, Truncate,
        Finish, At, remote
  <2>3. CASE Main /\ ~Cleanup("main")
    BY <2>1, <2>3
    DEF Main, Setup, SetupFails, Prompt, CreateService, ActivateTrial, Save, Write,
        SaveFails, ReadFails, Truncate, Return, ExistingServiceVersion, Configure,
        CreateDomain, CreateBackends, CreateStore, FillStore, StoreStep, LinkStore,
        UploadPackage, Step, ProcessService,
        GetServiceURL, StatusCheck, Report, At, remote
  <2>4. CASE Signal \/ Killed
    BY <2>4 DEF Signal, Killed, remote
  <2> QED
    BY <2>2, <2>3, <2>4 DEF Next, Main, Monitor, Actors
<1> QED
  BY <1>1, DeployInvariant, PTL DEF Safety, ExistingKept

-----------------------------------------------------------------------------
(* Failures: the main goroutine by itself.                                 *)

\* No signal has come and at most one call has failed.
Quiet == pc["monitor"] \in {"off", "listening"} /\ faults <= 1

\* What the main goroutine, in the quiet, leaves in the account and in fastly.toml
\* at each place.
FailureKnown ==
    /\ pc["main"] = "setup" => pc["monitor"] = "off"
    /\ pc["main"] # "setup" => packagePath # "unset"
    /\ Quiet =>
        /\ serviceID = "none" =>
              pc["main"] \in {"write", "return"} \/ manifest \in {"none", "old"}
        /\ serviceID = "old" => services["new"] = "absent" /\ manifest \in {"none", "old"}
        /\ serviceID = "new" /\ pc["main"] \notin CleanerLabels =>
              services["new"] = "live" /\ (manifest = "new" \/ faults = 1)
        /\ pc["main"] = "return" => manifest = "new" \/ faults = 1
        /\ pc["main"] \in {"setup", "prompt"} => services["new"] = "absent"
        /\ pc["main"] \in {"save", "write", "return"} => services["new"] = "live"
        /\ manifest = "torn" /\ pc["main"] # "write" => faults = 1
        /\ serviceID = "new" /\ pc["main"] \in {"undo", "delete"} =>
              services["new"] = "live" /\ faults = 1 /\ manifest # "torn"
        /\ serviceID = "new" /\ pc["main"] \in {"undo", "delete"} /\ Activated =>
              manifest = "new"
        /\ pc["main"] \in {"clear", "blank", "cleaned"} =>
              services["new"] = "deleted" /\ faults = 1 /\ ~Activated
        /\ pc["main"] = "clear" => manifest # "torn"
        /\ pc["main"] = "cleaned" => manifest = "none"
        /\ pc["main"] = "skipped" => serviceID # "new"
        /\ pc["main"] = "failed" =>
              Activated /\ serviceID = "new" /\ services["new"] = "live" /\ manifest = "new"
        /\ exit = "error" =>
              IF noExistingService /\ Activated
              THEN services["new"] = "live" /\ manifest = "new"
              ELSE /\ services["new"] = "live" => serviceID = "none"
                   /\ manifest \in {"none", "old"}

LEMMA FailureInit == Init => FailureKnown
<1> SUFFICES ASSUME Init PROVE FailureKnown
  OBVIOUS
<1>1. pc["main"] = "setup" /\ pc["monitor"] = "off" /\ services["new"] = "absent"
  BY DEF Init, Services, Actors
<1> QED
  BY <1>1 DEF Init, FailureKnown, CleanerLabels

\* What a step of the main goroutine to place l changes of both places.
LEMMA MainGoes ==
    ASSUME DeployTypeOK, NEW l, Goto("main", l)
    PROVE  pc'["main"] = l /\ pc'["monitor"] = pc["monitor"] /\ exit' = exit
BY DEF DeployTypeOK, Goto, Actors

LEMMA FailureStart ==
    ASSUME Inv, FailureKnown, Setup \/ SetupFails \/ Prompt \/ CreateService \/ ActivateTrial
    PROVE  FailureKnown'
<1> USE MainGoes, DeployAssumption DEF Inv, DeployTypeOK, Control, FailureKnown, Quiet, CleanerLabels,
        setup, remote, Actors, Services, At, Fault, NoFault, Activated, Left
<1>1. CASE Setup
  <2>1. /\ pc["main"] = "setup" /\ pc'["main"] \in {"prompt", "existing"} /\ exit' = "running"
        /\ packagePath' # "unset" /\ serviceID' \in {"none", "old"}
        /\ UNCHANGED <<services, manifest>>
    BY <1>1 DEF Setup, Found
  <2>2. Quiet' => Quiet
    BY <1>1 DEF Setup
  <2> QED
    BY <2>1, <2>2
<1>2. CASE SetupFails
  BY <1>2 DEF SetupFails
<1>3. CASE Prompt
  BY <1>3 DEF Prompt
<1>4. CASE CreateService
  BY <1>4 DEF CreateService
<1>5. CASE ActivateTrial
  BY <1>5 DEF ActivateTrial
<1> QED
  BY <1>1, <1>2, <1>3, <1>4, <1>5

LEMMA FailureManifest ==
    ASSUME Inv, FailureKnown, Save \/ Write \/ SaveFails \/ Return PROVE FailureKnown'
<1> USE MainGoes, DeployAssumption DEF Inv, DeployTypeOK, Control, FailureKnown, Quiet, CleanerLabels,
        setup, remote, Actors, Services, At, Fault, NoFault, Activated, Left
<1>1. CASE Save
  BY <1>1 DEF Save, Truncate
<1>2. CASE Write
  BY <1>2 DEF Write
<1>3. CASE SaveFails
  BY <1>3 DEF SaveFails, ReadFails
<1>4. CASE Return
  BY <1>4 DEF Return
<1> QED
  BY <1>1, <1>2, <1>3, <1>4

\* A call for a service that is there fails only if a failure is left.
LEMMA FailureCalls ==
    ASSUME Inv, FailureKnown, pc["main"] \notin CleanerLabels,
           pc["main"] \notin {"setup", "prompt", "create", "save", "write", "return"},
           exit = "running", UNCHANGED <<services, manifest, packagePath, serviceID>>,
           \/ NoFault /\ UNCHANGED <<pc, exit>>
           \/ NoFault /\ UNCHANGED pc /\ exit' \in {"stopped", "success"}
           \/ NoFault /\ \E l \in Labels \ (CleanerLabels \cup {"setup", "prompt", "create",
                                             "save", "write", "return"}) : Goto("main", l)
           \/ Fails /\ Goto("main", "undo")
    PROVE  FailureKnown'
<1>1. pc'["monitor"] = pc["monitor"] /\ (Quiet' => Quiet)
  BY MainGoes, DeployAssumption DEF Inv, DeployTypeOK, Quiet, Fault, NoFault, Fails
<1>2. pc'["main"] = "undo" \/ pc'["main"] \notin CleanerLabels \cup
                                {"setup", "prompt", "create", "save", "write", "return"}
  BY MainGoes DEF Inv
<1>3. pc'["main"] = "undo" => Fails /\ exit' = "running"
  BY MainGoes DEF Inv, CleanerLabels
<1>4. exit' # "error"
  BY MainGoes DEF Inv
<1>5. Quiet' => faults' = faults \/ (faults = 0 /\ faults' = 1)
  BY <1>1, DeployAssumption DEF Inv, DeployTypeOK, Quiet, Fails, Fault, NoFault
<1>6. Quiet' /\ pc'["main"] = "undo" /\ serviceID = "new" => faults' = 1 /\ manifest = "new"
  BY <1>1, <1>3, <1>5, DeployAssumption
  DEF FailureKnown, Quiet, Inv, DeployTypeOK, Fails, Fault, NoFault
<1> QED
  BY <1>1, <1>2, <1>4, <1>5, <1>6 DEF FailureKnown, CleanerLabels

LEMMA FailureVersion ==
    ASSUME Inv, FailureKnown,
           \/ ExistingServiceVersion \/ Configure \/ CreateDomain \/ CreateBackends
           \/ CreateStore \/ FillStore \/ LinkStore \/ UploadPackage
           \/ ProcessService \/ GetServiceURL \/ StatusCheck \/ Report
    PROVE  FailureKnown'
<1> DEFINE Version == {"existing", "configure", "domain", "resources", "store", "fill", "link",
                       "upload", "activate", "url", "check", "report"}
<1>1. /\ pc["main"] \in Version /\ exit = "running"
      /\ UNCHANGED <<services, manifest, packagePath, serviceID>>
  BY DEF ExistingServiceVersion, Configure, CreateDomain, CreateBackends, CreateStore, FillStore,
         LinkStore, UploadPackage, Step, StoreStep, ProcessService, GetServiceURL, StatusCheck,
         Report, At, remote, setup
<1>2. \/ NoFault /\ UNCHANGED <<pc, exit>>
      \/ NoFault /\ UNCHANGED pc /\ exit' \in {"stopped", "success"}
      \/ NoFault /\ \E l \in Version : Goto("main", l)
      \/ Fails /\ Goto("main", "undo")
  BY DEF ExistingServiceVersion, Configure, CreateDomain, CreateBackends, CreateStore, FillStore,
         LinkStore, UploadPackage, Step, StoreStep, ProcessService, GetServiceURL, StatusCheck,
         Report, At, Succeeds, Fails, NoFault
<1>3. Version \subseteq Labels \ (CleanerLabels \cup {"setup", "prompt", "create", "save", "write", "return"})
  BY DEF Labels, CleanerLabels
<1> QED
  BY <1>1, <1>2, <1>3, FailureCalls

LEMMA FailureCleanup == ASSUME Inv, FailureKnown, Cleanup("main") PROVE FailureKnown'
<1> USE MainGoes, DeployAssumption DEF Inv, DeployTypeOK, Control, FailureKnown, Quiet, CleanerLabels,
        setup, remote, Actors, Services, At, Fault, NoFault, Activated, Left
<1>1. CASE Undo("main")
  BY <1>1 DEF Undo
<1>2. CASE DeleteService("main")
  BY <1>2 DEF DeleteService, Succeeds, Fails
<1>3. CASE Clear("main")
  BY <1>3 DEF Clear, Truncate
<1>4. CASE Blank("main")
  BY <1>4 DEF Blank
<1>5. CASE ClearFails("main")
  BY <1>5 DEF ClearFails, ReadFails
<1>6. CASE Finish("main")
  BY <1>6 DEF Finish
<1> QED
  BY <1>1, <1>2, <1>3, <1>4, <1>5, <1>6 DEF Cleanup

\* A signal, and what it makes the monitor do, is the end of the quiet.
LEMMA FailureMonitor == ASSUME Inv, FailureKnown, Monitor \/ Killed PROVE FailureKnown'
<1>1. CASE Killed
  BY <1>1 DEF Killed, FailureKnown, Quiet, Activated, remote, setup
<1>2. CASE Monitor
  <2>1. pc["monitor"] # "off" /\ ~Quiet'
    BY <1>2 DEF Monitor, Signal, Cleanup, Undo, DeleteService, Clear, Truncate, Blank, ClearFails,
                ReadFails, Finish, At, Goto, Quiet, Inv, DeployTypeOK, Actors
  <2>2. UNCHANGED packagePath /\ pc'["main"] = pc["main"]
    BY <1>2 DEF Monitor, Signal, Cleanup, Undo, DeleteService, Clear, Truncate, Blank, ClearFails,
                ReadFails, Finish, Goto, setup, Inv, DeployTypeOK, Actors
  <2> QED
    BY <2>1, <2>2 DEF FailureKnown
<1> QED
  BY <1>1, <1>2

LEMMA FailureAlways == Safety => []FailureKnown
<1>1. Inv /\ FailureKnown /\ [Next]_vars => FailureKnown'
  <2>1. Inv /\ FailureKnown /\ Next => FailureKnown'
    BY FailureStart, FailureManifest, FailureVersion, FailureCleanup, FailureMonitor DEF Next, Main
  <2>2. FailureKnown /\ UNCHANGED vars => FailureKnown'
    BY DEF vars, remote, setup, FailureKnown, Quiet, Activated
  <2> QED
    BY <2>1, <2>2
<1> QED
  BY FailureInit, DeployInvariant, <1>1, PTL DEF Safety

\* Without a signal, one failing call, prompt or file operation leaves neither a
\* service behind whose ID was known nor an ID of one in fastly.toml, or, once the
\* version is active, leaves both (CleanupNewService on the undo stack, run by
\* RunIfError, compute/deploy.go).
THEOREM OneFailureCleansUp == Safety => []FailureCleansUp
<1>1. FailureKnown => FailureCleansUp
  BY DEF FailureKnown, FailureCleansUp, Quiet
<1> QED
  BY FailureAlways, <1>1, PTL

-----------------------------------------------------------------------------
(* A signal: the monitor beside the main goroutine.                        *)

\* As long as nothing has failed: what the monitor has done, beside whichever
\* place the main goroutine is at.
SignalKnown ==
    /\ exit = "interrupted" => pc["monitor"] \in {"skipped", "failed", "cleaned"}
    /\ faults = 0 =>
        /\ serviceID = "none" =>
              /\ pc["main"] = "return" => manifest = "new"
              /\ pc["main"] \notin {"write", "return"} => manifest # "torn"
              /\ pc["main"] \in {"save", "write", "return"} => services["new"] = "live"
              /\ pc["main"] \in {"setup", "prompt", "create", "save", "write", "return"}
              /\ pc["monitor"] \in {"off", "listening", "undo", "skipped"}
        /\ serviceID = "new" =>
              /\ services["new"] = IF pc["monitor"] \in {"clear", "blank", "cleaned"}
                                   THEN "deleted" ELSE "live"
              /\ manifest = IF pc["monitor"] = "blank" THEN "torn"
                            ELSE IF pc["monitor"] = "cleaned" THEN "none" ELSE "new"
              /\ pc["main"] \in {"undo", "delete"} => services["new"] = "deleted"
        /\ pc["main"] \notin {"clear", "blank", "cleaned"}
        /\ pc["monitor"] = "failed" => Activated /\ serviceID = "new"
        /\ pc["monitor"] \in {"delete", "clear", "blank", "cleaned"} => serviceID = "new"

\* What a step of goroutine a to place l changes of both places.
LEMMA OneGoes ==
    ASSUME DeployTypeOK, NEW a \in Actors, NEW l, Goto(a, l)
    PROVE  /\ pc'[a] = l /\ exit' = exit
           /\ a = "main" => pc'["monitor"] = pc["monitor"]
           /\ a = "monitor" => pc'["main"] = pc["main"]
BY DEF DeployTypeOK, Goto, Actors

LEMMA SignalStart ==
    ASSUME Inv, FailureKnown, SignalKnown,
           Setup \/ SetupFails \/ Prompt \/ CreateService \/ ActivateTrial
    PROVE  SignalKnown'
<1> USE OneGoes, DeployAssumption DEF Inv, DeployTypeOK, Control, SignalKnown,
        setup, remote, Actors, Services, At, Fault, NoFault, Activated, Left
<1>1. CASE Setup
  <2>1. /\ pc["main"] = "setup" /\ exit' = "running" /\ serviceID' \in {"none", "old"}
        /\ pc'["main"] = IF serviceID' = "none" THEN "prompt" ELSE "existing"
        /\ pc'["monitor"] = "listening" /\ (faults' = 0 => faults = 0)
        /\ UNCHANGED <<services, manifest>>
    BY <1>1 DEF Setup, Found
  <2> QED
    BY <2>1
<1>2. CASE SetupFails
  BY <1>2 DEF SetupFails
<1>3. CASE Prompt
  BY <1>3 DEF Prompt
<1>4. CASE CreateService
  BY <1>4 DEF CreateService
<1>5. CASE ActivateTrial
  BY <1>5 DEF ActivateTrial
<1> QED
  BY <1>1, <1>2, <1>3, <1>4, <1>5

LEMMA SignalManifest ==
    ASSUME Inv, SignalKnown, Save \/ Write \/ SaveFails \/ Return PROVE SignalKnown'
<1> USE OneGoes, DeployAssumption DEF Inv, DeployTypeOK, Control, SignalKnown,
        setup, remote, Actors, Services, At, Fault, NoFault, Activated, Left
<1>1. CASE Save
  BY <1>1 DEF Save, Truncate
<1>2. CASE Write
  BY <1>2 DEF Write
<1>3. CASE SaveFails
  BY <1>3 DEF SaveFails, ReadFails
<1>4. CASE Return
  BY <1>4 DEF Return
<1> QED
  BY <1>1, <1>2, <1>3, <1>4

\* Unless a call fails by itself, the main goroutine cleans up only if the
\* monitor has deleted the service before.
LEMMA SignalVersion ==
    ASSUME Inv, SignalKnown,
           \/ ExistingServiceVersion \/ Configure \/ CreateDomain \/ CreateBackends
           \/ CreateStore \/ FillStore \/ LinkStore \/ UploadPackage
           \/ ProcessService \/ GetServiceURL \/ StatusCheck \/ Report
    PROVE  SignalKnown'
<1> DEFINE Version == {"existing", "configure", "domain", "resources", "store", "fill", "link",
                       "upload", "activate", "url", "check", "report"}
<1>1. /\ pc["main"] \in Version /\ exit = "running"
      /\ UNCHANGED <<services, manifest, packagePath, serviceID>>
  BY DEF ExistingServiceVersion, Configure, CreateDomain, CreateBackends, CreateStore, FillStore,
         LinkStore, UploadPackage, Step, StoreStep, ProcessService, GetServiceURL, StatusCheck,
         Report, At, remote, setup
<1>2. \/ NoFault /\ UNCHANGED <<pc, exit>>
      \/ NoFault /\ UNCHANGED pc /\ exit' \in {"stopped", "success"}
      \/ NoFault /\ \E l \in Version : Goto("main", l)
      \/ Fails /\ Goto("main", "undo")
  BY DEF ExistingServiceVersion, Configure, CreateDomain, CreateBackends, CreateStore, FillStore,
         LinkStore, UploadPackage, Step, StoreStep, ProcessService, GetServiceURL, StatusCheck,
         Report, At, Succeeds, Fails, NoFault
<1>3. pc'["monitor"] = pc["monitor"] /\ pc'["main"] \in Version \cup {"undo"}
  BY <1>1, <1>2, OneGoes DEF Inv, Actors
<1>4. exit' # "interrupted"
  BY <1>1, <1>2, OneGoes DEF Inv, Actors
<1>5. faults' = 0 => faults = 0
  BY <1>2, DeployAssumption DEF Inv, DeployTypeOK, Fails, Fault, NoFault
<1>6. faults' = 0 /\ pc'["main"] = "undo" /\ serviceID = "new" => services["new"] = "deleted"
  <2>1. pc'["main"] = "undo" => Fails
    BY <1>1, <1>2, OneGoes DEF Inv, Actors
  <2> QED
    BY <1>1, <2>1, DeployAssumption DEF Inv, DeployTypeOK, Services, Fails, Fault, NoFault
<1>7. faults' = 0 => serviceID # "none"
  BY <1>1, <1>5 DEF SignalKnown, Inv, DeployTypeOK
<1>8. Activated => Activated'
  BY <1>1 DEF Inv, Control, CleanerLabels, Activated,
         ExistingServiceVersion, Configure, CreateDomain, CreateBackends, CreateStore, FillStore,
         LinkStore, UploadPackage, Step, StoreStep, ProcessService, GetServiceURL, StatusCheck,
         Report, At, remote
<1> QED
  BY <1>1, <1>3, <1>4, <1>5, <1>6, <1>7, <1>8 DEF SignalKnown, Inv, DeployTypeOK

LEMMA SignalCleanup == ASSUME Inv, SignalKnown, Cleanup("main") PROVE SignalKnown'
<1> USE OneGoes, DeployAssumption DEF Inv, DeployTypeOK, Control, SignalKnown,
        setup, remote, Actors, Services, At, Fault, NoFault, Activated, Left
<1>1. CASE Undo("main")
  BY <1>1 DEF Undo
<1>2. CASE DeleteService("main")
  BY <1>2 DEF DeleteService, Succeeds, Fails
<1>3. CASE Clear("main")
  BY <1>3 DEF Clear, Truncate
<1>4. CASE Blank("main")
  BY <1>4 DEF Blank
<1>5. CASE ClearFails("main")
  BY <1>5 DEF ClearFails, ReadFails
<1>6. CASE Finish("main")
  BY <1>6 DEF Finish
<1> QED
  BY <1>1, <1>2, <1>3, <1>4, <1>5, <1>6 DEF Cleanup

LEMMA SignalMonitor == ASSUME Inv, SignalKnown, Monitor \/ Killed PROVE SignalKnown'
<1> USE OneGoes, DeployAssumption DEF Inv, DeployTypeOK, Control, SignalKnown,
        setup, remote, Actors, Services, At, Fault, NoFault, Activated, Left
<1>1. CASE Killed
  BY <1>1 DEF Killed
<1>2. CASE Signal
  BY <1>2 DEF Signal
<1>3. CASE Undo("monitor")
  BY <1>3 DEF Undo
<1>4. CASE DeleteService("monitor")
  BY <1>4 DEF DeleteService, Succeeds, Fails
<1>5. CASE Clear("monitor")
  BY <1>5 DEF Clear, Truncate
<1>6. CASE Blank("monitor")
  BY <1>6 DEF Blank
<1>7. CASE ClearFails("monitor")
  BY <1>7 DEF ClearFails, ReadFails
<1>8. CASE Finish("monitor")
  BY <1>8 DEF Finish
<1> QED
  BY <1>1, <1>2, <1>3, <1>4, <1>5, <1>6, <1>7, <1>8 DEF Cleanup, Monitor

\* A signal that finds the ID of the new service leaves no trace of it or, once the
\* version is active, leaves it with its ID, if no call fails by itself, whatever the
\* main goroutine does meanwhile (monitorSignals, compute/deploy.go).
THEOREM SignalCleansUp == Safety => []InterruptCleansUp
<1>1. Init => SignalKnown
  <2>1. Init => pc["main"] = "setup" /\ pc["monitor"] = "off"
    BY DEF Init, Actors
  <2> QED
    BY <2>1 DEF Init, SignalKnown
<1>2. Inv /\ FailureKnown /\ SignalKnown /\ [Next]_vars => SignalKnown'
  <2>1. Inv /\ FailureKnown /\ SignalKnown /\ Next => SignalKnown'
    BY SignalStart, SignalManifest, SignalVersion, SignalCleanup, SignalMonitor DEF Next, Main
  <2>2. SignalKnown /\ UNCHANGED vars => SignalKnown'
    BY DEF vars, remote, setup, SignalKnown, Activated
  <2> QED
    BY <2>1, <2>2
<1>3. Inv /\ SignalKnown => InterruptCleansUp
  BY DEF Inv, DeployTypeOK, Control, SignalKnown, InterruptCleansUp
<1> QED
  BY FailureAlways, DeployInvariant, <1>1, <1>2, <1>3, PTL DEF Safety

=============================================================================
