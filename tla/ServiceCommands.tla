--------------------------- MODULE ServiceCommands -------------------------
(***************************************************************************)
(* The commands that select a version of a service, outside "service       *)
(* logging": those of its resources, of its versions and of its            *)
(* deployments. Reading them is always allowed; editing them demands a     *)
(* version that is neither active nor locked, with the exceptions the      *)
(* comments name.                                                          *)
(***************************************************************************)
EXTENDS CommandSteps

\* The package of a Compute service: only --autoclone looks at the version
ComputeUpdate == <<ServiceDetails("any", "any", "any", TRUE), Refusable, Updates>>

\* The service itself
ServiceDelete      == <<Service, DeletesService, WritesFile>>
ServiceDeleteForce == <<Service, FindsActive, Deactivates, DeletesService, WritesFile>>

\* Access control lists
ACLCreate   == <<Editable, Creates>>
ACLUpdate   == <<Editable, Updates>>
ACLDelete   == <<Editable, Deletes>>
ACLDescribe == <<JSONOrVerbose, AnyVersion, Reads>>
ACLList     == <<JSONOrVerbose, AnyVersion, Reads>>

\* Backends
\* Mutant: the flags are looked at once the backend exists.
BackendCreateUnchecked == <<Editable, Creates, Refusable>>

BackendCreate   == <<Editable, Refusable, Creates>>
BackendUpdate   == <<Editable, Refusable, Updates>>
BackendDelete   == <<Editable, Deletes>>
BackendDescribe == <<JSONOrVerbose, AnyVersion, Reads>>
BackendList     == <<JSONOrVerbose, AnyVersion, Reads>>

\* Dictionaries
DictionaryCreate   == <<Editable, Creates>>
DictionaryUpdate   == <<Editable, Refusable, Updates>>
DictionaryDelete   == <<Editable, Deletes>>
DictionaryDescribe == <<JSONOrVerbose, AnyVersion, Reads, Reads, Reads>>
DictionaryList     == <<JSONOrVerbose, AnyVersion, Reads>>

\* Domains
DomainCreate      == <<Editable, Creates>>
DomainUpdate      == <<Editable, Refusable, Updates>>
DomainDelete      == <<Editable, Deletes>>
DomainDescribe    == <<JSONOrVerbose, AnyVersion, Reads>>
DomainList        == <<JSONOrVerbose, AnyVersion, Reads>>
DomainValidateAll == <<AnyVersion, Reads>>
DomainValidate    == <<AnyVersion, Refusable, Reads>>

\* Health checks
HealthCheckCreate   == <<Editable, Creates>>
HealthCheckUpdate   == <<Editable, Updates>>
HealthCheckDelete   == <<Editable, Deletes>>
HealthCheckDescribe == <<JSONOrVerbose, AnyVersion, Reads>>
HealthCheckList     == <<JSONOrVerbose, AnyVersion, Reads>>

\* Defaults of the image optimizer: no check of the version, no --autoclone
ImageOptimizerDefaultsUpdate == <<JSONOrVerbose, AnyVersion, Refusable, Updates>>
ImageOptimizerDefaultsGet    == <<JSONOrVerbose, AnyVersion, Reads>>

\* Rate limiters
RateLimitCreate == <<JSONOrVerbose, Refusable, Editable, Creates>>
RateLimitList   == <<JSONOrVerbose, AnyVersion, Reads>>

\* Links of the account's stores to a version
ResourceLinkCreate   == <<JSONOrVerbose, Editable, Creates>>
ResourceLinkUpdate   == <<JSONOrVerbose, Editable, Updates>>
ResourceLinkDelete   == <<JSONOrVerbose, Editable, Deletes>>
ResourceLinkDescribe == <<JSONOrVerbose, AnyVersion, Reads>>
ResourceLinkList     == <<JSONOrVerbose, AnyVersion, Reads>>

\* The VCL that is generated
VCLDescribe == <<JSONOrVerbose, AnyVersion, Reads>>

\* Conditions
ConditionCreate   == <<Editable, Creates>>
ConditionUpdate   == <<Editable, Refusable, Updates>>
ConditionDelete   == <<Editable, Deletes>>
ConditionDescribe == <<JSONOrVerbose, AnyVersion, Reads>>
ConditionList     == <<JSONOrVerbose, AnyVersion, Reads>>

\* VCL files
CustomCreate   == <<Editable, Creates>>
CustomUpdate   == <<Editable, Refusable, Updates>>
CustomDelete   == <<Editable, Deletes>>
CustomDescribe == <<JSONOrVerbose, AnyVersion, Reads>>
CustomList     == <<JSONOrVerbose, AnyVersion, Reads>>

\* VCL snippets.  A dynamic snippet belongs to no version, yet --autoclone clones
SnippetCreate           == <<Editable, Creates>>
SnippetUpdate           == <<Editable, Refusable, Updates>>
SnippetUpdateDynamic    == <<ServiceDetails("any", "any", "any", TRUE), Refusable, Calls>>
SnippetUpdateNotDynamic == <<Editable, Refusable, Calls>>
SnippetDelete           == <<Editable, Deletes>>
SnippetDescribe         == <<JSONOrVerbose, AnyVersion, Refusable, Reads>>
SnippetList             == <<JSONOrVerbose, AnyVersion, Reads>>

\* The version itself
VersionUpdate     == <<ServiceDetails("any", "any", "any", TRUE), Refusable, Calls>>
VersionActivate   == <<ServiceDetails("no", "any", "any", TRUE), Activates>>
VersionClone      == <<JSONOrVerbose, AnyVersion, Clones>>
VersionDeactivate == <<ServiceDetails("yes", "any", "any", FALSE), Deactivates>>
VersionLock       == <<ServiceDetails("any", "no", "any", FALSE), Locks>>
VersionStage      == <<ServiceDetails("no", "no", "any", FALSE), Stages>>
VersionUnstage    == <<ServiceDetails("any", "any", "yes", FALSE), Unstages>>

\* "compute deploy" to a service that exists, with or without a domain to add
DeployExisting   == <<ExistingServiceVersion, Reads, Updates, Calls, Activates>>
DeployWithDomain == <<ExistingServiceVersion, Reads, Refusable, Creates, Updates, Calls, Activates>>

-----------------------------------------------------------------------------
ServiceCommands == {
    ComputeUpdate, ServiceDelete, ServiceDeleteForce, ACLCreate, ACLUpdate,
    ACLDelete, ACLDescribe, ACLList, BackendCreate, BackendUpdate,
    BackendDelete, BackendDescribe, BackendList, DictionaryCreate,
    DictionaryUpdate, DictionaryDelete, DictionaryDescribe, DictionaryList,
    DomainCreate, DomainUpdate, DomainDelete, DomainDescribe, DomainList,
    DomainValidateAll, DomainValidate, HealthCheckCreate, HealthCheckUpdate,
    HealthCheckDelete, HealthCheckDescribe, HealthCheckList,
    ImageOptimizerDefaultsUpdate, ImageOptimizerDefaultsGet, RateLimitCreate,
    RateLimitList, ResourceLinkCreate, ResourceLinkUpdate, ResourceLinkDelete,
    ResourceLinkDescribe, ResourceLinkList, VCLDescribe, ConditionCreate,
    ConditionUpdate, ConditionDelete, ConditionDescribe, ConditionList,
    CustomCreate, CustomUpdate, CustomDelete, CustomDescribe, CustomList,
    SnippetCreate, SnippetUpdate, SnippetUpdateDynamic,
    SnippetUpdateNotDynamic, SnippetDelete, SnippetDescribe, SnippetList,
    VersionUpdate, VersionActivate, VersionClone, VersionDeactivate,
    VersionLock, VersionStage, VersionUnstage, DeployExisting, DeployWithDomain }

=============================================================================
