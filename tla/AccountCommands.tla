--------------------------- MODULE AccountCommands -------------------------
(***************************************************************************)
(* The commands for what belongs to an account or a service as a whole: no *)
(* version of a service is selected. Where several requests are            *)
(* alternatives the one row stands for each of them.                       *)
(***************************************************************************)
EXTENDS CommandSteps

\* API tokens: --current, --file and --id delete one, many, one
AuthTokenCreate   == <<Creates>>
AuthTokenDelete   == <<Refusable, Deletes>>
AuthTokenDescribe == <<JSONOrVerbose, Reads>>
AuthTokenList     == <<JSONOrVerbose, Reads>>

\* Dashboards
DashboardCreate   == <<JSONOrVerbose, Creates>>
DashboardUpdate   == <<JSONOrVerbose, Updates>>
DashboardDelete   == <<JSONOrVerbose, Deletes>>
DashboardDescribe == <<JSONOrVerbose, Reads>>
DashboardList     == <<JSONOrVerbose, Refusable, Reads, MayStop, Reads>>

\* Items of a dashboard: the whole dashboard is read and written back
\* Mutant: the dashboard is written without having been read.
DashboardItemCreateBlind == <<JSONOrVerbose, Replaces>>

DashboardItemCreate   == <<JSONOrVerbose, Reads, Replaces>>
DashboardItemUpdate   == <<JSONOrVerbose, Reads, Verifies, Replaces>>
DashboardItemDelete   == <<JSONOrVerbose, Reads, MayStop, Replaces>>
DashboardItemDescribe == <<JSONOrVerbose, Reads, Verifies>>

\* Domains of the account.  An update that names no service unlinks it
DomainCreate   == <<Creates>>
DomainUpdate   == <<Overwrites>>
DomainDelete   == <<Deletes>>
DomainDescribe == <<JSONOrVerbose, Reads>>
DomainList     == <<JSONOrVerbose, Reads, MayStop, Reads>>

\* Public addresses
IPList == <<Reads>>

\* Points of presence
POPList == <<Reads>>

\* Products of a service: shown, or one enabled or disabled
Products       == <<Refusable, JSONOrVerbose, Service, Reads>>
ProductsChange == <<Refusable, JSONOrVerbose, Service, Refusable, Updates>>

\* The service itself
ServiceCreate   == <<Creates>>
ServiceUpdate   == <<Service, Refusable, Updates>>
ServiceDescribe == <<JSONOrVerbose, Service, Reads>>
ServiceList     == <<JSONOrVerbose, Reads, Reads>>
ServiceSearch   == <<JSONOrVerbose, Reads>>

\* Entries of ACLs, which exist in no particular version
ACLEntryCreate   == <<Service, Creates>>
ACLEntryUpdate   == <<Service, Refusable, Updates>>
ACLEntryDelete   == <<Service, Deletes>>
ACLEntryDescribe == <<JSONOrVerbose, Service, Reads>>
ACLEntryList     == <<JSONOrVerbose, Service, Reads, Reads>>

\* Alerts.  An update sends every field, given or not
ServiceAlertCreate   == <<JSONOrVerbose, Creates>>
ServiceAlertUpdate   == <<JSONOrVerbose, Overwrites>>
ServiceAlertDelete   == <<JSONOrVerbose, Deletes>>
ServiceAlertDescribe == <<JSONOrVerbose, Reads>>
ServiceAlertList     == <<JSONOrVerbose, Refusable, Reads, MayStop, Reads>>
ServiceAlertHistory  == <<JSONOrVerbose, Refusable, Reads, MayStop, Reads>>

\* Service authorizations
ServiceAuthCreate   == <<Service, Creates>>
ServiceAuthUpdate   == <<Updates>>
ServiceAuthDelete   == <<Deletes>>
ServiceAuthDescribe == <<JSONOrVerbose, Reads>>
ServiceAuthList     == <<JSONOrVerbose, Reads>>

\* Items of dictionaries, which exist in no particular version
DictionaryEntryCreate   == <<Service, Creates>>
DictionaryEntryUpdate   == <<Service, Refusable, Updates>>
DictionaryEntryDelete   == <<Service, Deletes>>
DictionaryEntryDescribe == <<JSONOrVerbose, Service, Reads>>
DictionaryEntryList     == <<JSONOrVerbose, Service, Reads, Reads>>

\* Purging: everything, the keys of a file, one key or one URL
Purge == <<Service, Refusable, Calls>>

\* Rate limiters by their own ID
RateLimitUpdate   == <<JSONOrVerbose, Refusable, Updates>>
RateLimitDelete   == <<Deletes>>
RateLimitDescribe == <<JSONOrVerbose, Reads>>

\* Versions
VersionList == <<JSONOrVerbose, Service, Reads>>

\* Statistics
StatsHistorical == <<Service, Reads, Verifies>>
StatsRegions    == <<Reads>>

\* TLS configurations
TLSConfigUpdate   == <<Updates>>
TLSConfigDescribe == <<JSONOrVerbose, Reads>>
TLSConfigList     == <<JSONOrVerbose, Reads>>

\* Custom TLS: activations
TLSCustomActivationCreate   == <<Creates>>
TLSCustomActivationUpdate   == <<Updates>>
TLSCustomActivationDelete   == <<Deletes>>
TLSCustomActivationDescribe == <<JSONOrVerbose, Reads>>
TLSCustomActivationList     == <<JSONOrVerbose, Reads>>

\* Custom TLS: certificates, read from a file or a flag
TLSCustomCertificateCreate   == <<Refusable, Creates>>
TLSCustomCertificateUpdate   == <<Refusable, Updates>>
TLSCustomCertificateDelete   == <<Deletes>>
TLSCustomCertificateDescribe == <<JSONOrVerbose, Reads>>
TLSCustomCertificateList     == <<JSONOrVerbose, Reads>>

\* Custom TLS: domains
TLSCustomDomainList == <<JSONOrVerbose, Reads>>

\* Custom TLS: private keys, read from a file or a flag
TLSCustomPrivateKeyCreate   == <<Refusable, Creates>>
TLSCustomPrivateKeyDelete   == <<Deletes>>
TLSCustomPrivateKeyDescribe == <<JSONOrVerbose, Reads>>
TLSCustomPrivateKeyList     == <<JSONOrVerbose, Reads>>

\* TLS bulk certificates
TLSPlatformCreate   == <<Creates>>
TLSPlatformUpdate   == <<Updates>>
TLSPlatformDelete   == <<Deletes>>
TLSPlatformDescribe == <<JSONOrVerbose, Reads>>
TLSPlatformList     == <<JSONOrVerbose, Reads>>

\* TLS subscriptions.  An update sends all the domains
TLSSubscriptionCreate   == <<Creates>>
TLSSubscriptionUpdate   == <<Overwrites>>
TLSSubscriptionDelete   == <<Deletes>>
TLSSubscriptionDescribe == <<JSONOrVerbose, Reads>>
TLSSubscriptionList     == <<JSONOrVerbose, Reads>>

\* Domain tools
ToolsDomainStatus  == <<JSONOrVerbose, Refusable, Reads>>
ToolsDomainSuggest == <<JSONOrVerbose, Refusable, Reads>>

\* Users
UserCreate          == <<Creates>>
UserUpdate          == <<Refusable, Updates>>
UserUpdateReset     == <<Refusable, Calls>>
UserDelete          == <<Deletes>>
UserDescribe        == <<JSONOrVerbose, Refusable, Reads>>
UserDescribeCurrent == <<JSONOrVerbose, Reads>>
UserList            == <<JSONOrVerbose, Refusable, Reads>>

\* The owner of the token
Whoami == <<Reads, Verifies>>

-----------------------------------------------------------------------------
AccountCommands == {
    AuthTokenCreate, AuthTokenDelete, AuthTokenDescribe, AuthTokenList,
    DashboardCreate, DashboardUpdate, DashboardDelete, DashboardDescribe,
    DashboardList, DashboardItemCreate, DashboardItemUpdate,
    DashboardItemDelete, DashboardItemDescribe, DomainCreate, DomainUpdate,
    DomainDelete, DomainDescribe, DomainList, IPList, POPList, Products,
    ProductsChange, ServiceCreate, ServiceUpdate, ServiceDescribe, ServiceList,
    ServiceSearch, ACLEntryCreate, ACLEntryUpdate, ACLEntryDelete,
    ACLEntryDescribe, ACLEntryList, ServiceAlertCreate, ServiceAlertUpdate,
    ServiceAlertDelete, ServiceAlertDescribe, ServiceAlertList,
    ServiceAlertHistory, ServiceAuthCreate, ServiceAuthUpdate,
    ServiceAuthDelete, ServiceAuthDescribe, ServiceAuthList,
    DictionaryEntryCreate, DictionaryEntryUpdate, DictionaryEntryDelete,
    DictionaryEntryDescribe, DictionaryEntryList, Purge, RateLimitUpdate,
    RateLimitDelete, RateLimitDescribe, VersionList, StatsHistorical,
    StatsRegions, TLSConfigUpdate, TLSConfigDescribe, TLSConfigList,
    TLSCustomActivationCreate, TLSCustomActivationUpdate,
    TLSCustomActivationDelete, TLSCustomActivationDescribe,
    TLSCustomActivationList, TLSCustomCertificateCreate,
    TLSCustomCertificateUpdate, TLSCustomCertificateDelete,
    TLSCustomCertificateDescribe, TLSCustomCertificateList,
    TLSCustomDomainList, TLSCustomPrivateKeyCreate, TLSCustomPrivateKeyDelete,
    TLSCustomPrivateKeyDescribe, TLSCustomPrivateKeyList, TLSPlatformCreate,
    TLSPlatformUpdate, TLSPlatformDelete, TLSPlatformDescribe, TLSPlatformList,
    TLSSubscriptionCreate, TLSSubscriptionUpdate, TLSSubscriptionDelete,
    TLSSubscriptionDescribe, TLSSubscriptionList, ToolsDomainStatus,
    ToolsDomainSuggest, UserCreate, UserUpdate, UserUpdateReset, UserDelete,
    UserDescribe, UserDescribeCurrent, UserList, Whoami }

=============================================================================
