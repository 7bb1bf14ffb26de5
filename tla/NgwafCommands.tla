---------------------------- MODULE NgwafCommands --------------------------
(***************************************************************************)
(* The commands of "fastly ngwaf". What belongs to a workspace needs its   *)
(* ID, from a flag or from the environment (OptionalWorkspaceID.Parse);    *)
(* the commands for lists look for it in ngwaflist, which all of them      *)
(* share.                                                                  *)
(***************************************************************************)
EXTENDS CommandSteps

\* Lists of the account: type country.  An update sends all the entries
CountryListCreate == <<JSONOrVerbose, Creates>>
CountryListUpdate == <<JSONOrVerbose, Overwrites>>
CountryListDelete == <<JSONOrVerbose, Deletes>>
CountryListList   == <<JSONOrVerbose, Reads>>
CountryListGet    == <<JSONOrVerbose, Reads>>

\* Signals of the account
CustomSignalCreate == <<JSONOrVerbose, Creates>>
CustomSignalUpdate == <<JSONOrVerbose, Updates>>
CustomSignalDelete == <<JSONOrVerbose, Deletes>>
CustomSignalList   == <<JSONOrVerbose, Reads>>
CustomSignalGet    == <<JSONOrVerbose, Reads>>

\* Lists of the account: type ip.  An update sends all the entries
IPListCreate == <<JSONOrVerbose, Creates>>
IPListUpdate == <<JSONOrVerbose, Overwrites>>
IPListDelete == <<JSONOrVerbose, Deletes>>
IPListList   == <<JSONOrVerbose, Reads>>
IPListGet    == <<JSONOrVerbose, Reads>>

\* Rules of the account.  The whole rule comes from a JSON file
RuleCreate == <<JSONOrVerbose, Refusable, Creates>>
RuleUpdate == <<JSONOrVerbose, Refusable, Overwrites>>
RuleDelete == <<JSONOrVerbose, Deletes>>
RuleList   == <<JSONOrVerbose, Reads>>
RuleGet    == <<JSONOrVerbose, Reads>>

\* Lists of the account: type signal.  An update sends all the entries
SignalListCreate == <<JSONOrVerbose, Creates>>
SignalListUpdate == <<JSONOrVerbose, Overwrites>>
SignalListDelete == <<JSONOrVerbose, Deletes>>
SignalListList   == <<JSONOrVerbose, Reads>>
SignalListGet    == <<JSONOrVerbose, Reads>>

\* Lists of the account: type string.  An update sends all the entries
StringListCreate == <<JSONOrVerbose, Creates>>
StringListUpdate == <<JSONOrVerbose, Overwrites>>
StringListDelete == <<JSONOrVerbose, Deletes>>
StringListList   == <<JSONOrVerbose, Reads>>
StringListGet    == <<JSONOrVerbose, Reads>>

\* Lists of the account: type wildcard.  An update sends all the entries
WildcardListCreate == <<JSONOrVerbose, Creates>>
WildcardListUpdate == <<JSONOrVerbose, Overwrites>>
WildcardListDelete == <<JSONOrVerbose, Deletes>>
WildcardListList   == <<JSONOrVerbose, Reads>>
WildcardListGet    == <<JSONOrVerbose, Reads>>

\* Workspaces.  An update sends all the thresholds
WorkspaceCreate == <<JSONOrVerbose, Refusable, Creates>>
WorkspaceUpdate == <<JSONOrVerbose, Refusable, Overwrites>>
WorkspaceDelete == <<JSONOrVerbose, Deletes>>
WorkspaceList   == <<JSONOrVerbose, Reads>>
WorkspaceGet    == <<JSONOrVerbose, Reads>>

\* Alerts of a workspace: Datadog
WorkspaceDatadogCreate == <<Refusable, JSONOrVerbose, Creates>>
WorkspaceDatadogUpdate == <<JSONOrVerbose, Refusable, Overwrites>>
WorkspaceDatadogDelete == <<Refusable, JSONOrVerbose, Deletes>>
WorkspaceDatadogList   == <<Refusable, JSONOrVerbose, Reads>>
WorkspaceDatadogGet    == <<Refusable, JSONOrVerbose, Reads>>

\* Alerts of a workspace: Jira
WorkspaceJiraCreate == <<Refusable, JSONOrVerbose, Creates>>
WorkspaceJiraUpdate == <<Refusable, JSONOrVerbose, Overwrites>>
WorkspaceJiraDelete == <<Refusable, JSONOrVerbose, Deletes>>
WorkspaceJiraList   == <<Refusable, JSONOrVerbose, Reads>>
WorkspaceJiraGet    == <<Refusable, JSONOrVerbose, Reads>>

\* Alerts of a workspace: mailing lists
WorkspaceMailingListCreate == <<Refusable, JSONOrVerbose, Creates>>
WorkspaceMailingListUpdate == <<Refusable, JSONOrVerbose, Updates>>
WorkspaceMailingListDelete == <<Refusable, JSONOrVerbose, Deletes>>
WorkspaceMailingListList   == <<Refusable, JSONOrVerbose, Reads>>
WorkspaceMailingListGet    == <<Refusable, JSONOrVerbose, Reads>>

\* Alerts of a workspace: Microsoft Teams
WorkspaceMicrosoftTeamsCreate == <<Refusable, JSONOrVerbose, Creates>>
WorkspaceMicrosoftTeamsUpdate == <<Refusable, JSONOrVerbose, Updates>>
WorkspaceMicrosoftTeamsDelete == <<Refusable, JSONOrVerbose, Deletes>>
WorkspaceMicrosoftTeamsList   == <<Refusable, JSONOrVerbose, Reads>>
WorkspaceMicrosoftTeamsGet    == <<Refusable, JSONOrVerbose, Reads>>

\* Alerts of a workspace: Opsgenie
WorkspaceOpsgenieCreate == <<Refusable, JSONOrVerbose, Creates>>
WorkspaceOpsgenieUpdate == <<Refusable, JSONOrVerbose, Updates>>
WorkspaceOpsgenieDelete == <<Refusable, JSONOrVerbose, Deletes>>
WorkspaceOpsgenieList   == <<Refusable, JSONOrVerbose, Reads>>
WorkspaceOpsgenieGet    == <<Refusable, JSONOrVerbose, Reads>>

\* Alerts of a workspace: PagerDuty
WorkspacePagerDutyCreate == <<Refusable, JSONOrVerbose, Creates>>
WorkspacePagerDutyUpdate == <<Refusable, JSONOrVerbose, Updates>>
WorkspacePagerDutyDelete == <<Refusable, JSONOrVerbose, Deletes>>
WorkspacePagerDutyList   == <<Refusable, JSONOrVerbose, Reads>>
WorkspacePagerDutyGet    == <<Refusable, JSONOrVerbose, Reads>>

\* Alerts of a workspace: Slack
WorkspaceSlackCreate == <<Refusable, JSONOrVerbose, Creates>>
WorkspaceSlackUpdate == <<Refusable, JSONOrVerbose, Updates>>
WorkspaceSlackDelete == <<Refusable, JSONOrVerbose, Deletes>>
WorkspaceSlackList   == <<Refusable, JSONOrVerbose, Reads>>
WorkspaceSlackGet    == <<Refusable, JSONOrVerbose, Reads>>

\* Alerts of a workspace: webhooks
WorkspaceWebhookCreate           == <<Refusable, JSONOrVerbose, Creates>>
WorkspaceWebhookUpdate           == <<Refusable, JSONOrVerbose, Updates>>
WorkspaceWebhookDelete           == <<Refusable, JSONOrVerbose, Deletes>>
WorkspaceWebhookList             == <<Refusable, JSONOrVerbose, Reads>>
WorkspaceWebhookGetSigningKey    == <<Refusable, JSONOrVerbose, Reads>>
WorkspaceWebhookGet              == <<Refusable, JSONOrVerbose, Reads>>
WorkspaceWebhookRotateSigningKey == <<Refusable, JSONOrVerbose, Updates>>

\* Lists of a workspace: type country
WorkspaceCountryListCreate == <<JSONOrVerbose, Refusable, Creates>>
WorkspaceCountryListUpdate == <<JSONOrVerbose, Refusable, Overwrites>>
WorkspaceCountryListDelete == <<JSONOrVerbose, Refusable, Deletes>>
WorkspaceCountryListList   == <<JSONOrVerbose, Refusable, Reads>>
WorkspaceCountryListGet    == <<JSONOrVerbose, Refusable, Reads>>

\* Signals of a workspace
WorkspaceCustomSignalCreate == <<JSONOrVerbose, Refusable, Creates>>
WorkspaceCustomSignalUpdate == <<JSONOrVerbose, Refusable, Updates>>
WorkspaceCustomSignalDelete == <<JSONOrVerbose, Refusable, Deletes>>
WorkspaceCustomSignalList   == <<JSONOrVerbose, Refusable, Reads>>
WorkspaceCustomSignalGet    == <<JSONOrVerbose, Refusable, Reads>>

\* Lists of a workspace: type ip
WorkspaceIPListCreate == <<JSONOrVerbose, Refusable, Creates>>
WorkspaceIPListUpdate == <<JSONOrVerbose, Refusable, Overwrites>>
WorkspaceIPListDelete == <<JSONOrVerbose, Refusable, Deletes>>
WorkspaceIPListList   == <<JSONOrVerbose, Refusable, Reads>>
WorkspaceIPListGet    == <<JSONOrVerbose, Refusable, Reads>>

\* Redactions
WorkspaceRedactionCreate   == <<Refusable, JSONOrVerbose, Creates>>
WorkspaceRedactionUpdate   == <<Refusable, JSONOrVerbose, Updates>>
WorkspaceRedactionDelete   == <<Refusable, JSONOrVerbose, Deletes>>
WorkspaceRedactionList     == <<Refusable, JSONOrVerbose, Reads>>
WorkspaceRedactionRetrieve == <<Refusable, JSONOrVerbose, Reads>>

\* Rules of a workspace.  The whole rule comes from a JSON file
WorkspaceRuleCreate == <<JSONOrVerbose, Refusable, Creates>>
WorkspaceRuleUpdate == <<JSONOrVerbose, Refusable, Overwrites>>
WorkspaceRuleDelete == <<JSONOrVerbose, Refusable, Deletes>>
WorkspaceRuleList   == <<JSONOrVerbose, Refusable, Reads>>
WorkspaceRuleGet    == <<JSONOrVerbose, Refusable, Reads>>

\* Lists of a workspace: type signal
WorkspaceSignalListCreate == <<JSONOrVerbose, Refusable, Creates>>
WorkspaceSignalListUpdate == <<JSONOrVerbose, Refusable, Overwrites>>
WorkspaceSignalListDelete == <<JSONOrVerbose, Refusable, Deletes>>
WorkspaceSignalListList   == <<JSONOrVerbose, Refusable, Reads>>
WorkspaceSignalListGet    == <<JSONOrVerbose, Refusable, Reads>>

\* Lists of a workspace: type string
WorkspaceStringListCreate == <<JSONOrVerbose, Refusable, Creates>>
WorkspaceStringListUpdate == <<JSONOrVerbose, Refusable, Overwrites>>
WorkspaceStringListDelete == <<JSONOrVerbose, Refusable, Deletes>>
WorkspaceStringListList   == <<JSONOrVerbose, Refusable, Reads>>
WorkspaceStringListGet    == <<JSONOrVerbose, Refusable, Reads>>

\* Thresholds
WorkspaceThresholdCreate == <<JSONOrVerbose, Refusable, Creates>>
WorkspaceThresholdUpdate == <<JSONOrVerbose, Refusable, Updates>>
WorkspaceThresholdDelete == <<JSONOrVerbose, Refusable, Deletes>>
WorkspaceThresholdList   == <<JSONOrVerbose, Refusable, Reads>>
WorkspaceThresholdGet    == <<JSONOrVerbose, Refusable, Reads>>

\* Virtual patches
WorkspaceVirtualPatchUpdate   == <<JSONOrVerbose, Refusable, Updates>>
WorkspaceVirtualPatchList     == <<JSONOrVerbose, Reads>>
WorkspaceVirtualPatchRetrieve == <<JSONOrVerbose, Reads>>

\* Lists of a workspace: type wildcard
WorkspaceWildcardListCreate == <<JSONOrVerbose, Refusable, Creates>>
WorkspaceWildcardListUpdate == <<JSONOrVerbose, Refusable, Overwrites>>
WorkspaceWildcardListDelete == <<JSONOrVerbose, Refusable, Deletes>>
WorkspaceWildcardListList   == <<JSONOrVerbose, Refusable, Reads>>
WorkspaceWildcardListGet    == <<JSONOrVerbose, Refusable, Reads>>

-----------------------------------------------------------------------------
NgwafCommands == {
    CountryListCreate, CountryListUpdate, CountryListDelete, CountryListList,
    CountryListGet, CustomSignalCreate, CustomSignalUpdate, CustomSignalDelete,
    CustomSignalList, CustomSignalGet, IPListCreate, IPListUpdate,
    IPListDelete, IPListList, IPListGet, RuleCreate, RuleUpdate, RuleDelete,
    RuleList, RuleGet, SignalListCreate, SignalListUpdate, SignalListDelete,
    SignalListList, SignalListGet, StringListCreate, StringListUpdate,
    StringListDelete, StringListList, StringListGet, WildcardListCreate,
    WildcardListUpdate, WildcardListDelete, WildcardListList, WildcardListGet,
    WorkspaceCreate, WorkspaceUpdate, WorkspaceDelete, WorkspaceList,
    WorkspaceGet, WorkspaceDatadogCreate, WorkspaceDatadogUpdate,
    WorkspaceDatadogDelete, WorkspaceDatadogList, WorkspaceDatadogGet,
    WorkspaceJiraCreate, WorkspaceJiraUpdate, WorkspaceJiraDelete,
    WorkspaceJiraList, WorkspaceJiraGet, WorkspaceMailingListCreate,
    WorkspaceMailingListUpdate, WorkspaceMailingListDelete,
    WorkspaceMailingListList, WorkspaceMailingListGet,
    WorkspaceMicrosoftTeamsCreate, WorkspaceMicrosoftTeamsUpdate,
    WorkspaceMicrosoftTeamsDelete, WorkspaceMicrosoftTeamsList,
    WorkspaceMicrosoftTeamsGet, WorkspaceOpsgenieCreate,
    WorkspaceOpsgenieUpdate, WorkspaceOpsgenieDelete, WorkspaceOpsgenieList,
    WorkspaceOpsgenieGet, WorkspacePagerDutyCreate, WorkspacePagerDutyUpdate,
    WorkspacePagerDutyDelete, WorkspacePagerDutyList, WorkspacePagerDutyGet,
    WorkspaceSlackCreate, WorkspaceSlackUpdate, WorkspaceSlackDelete,
    WorkspaceSlackList, WorkspaceSlackGet, WorkspaceWebhookCreate,
    WorkspaceWebhookUpdate, WorkspaceWebhookDelete, WorkspaceWebhookList,
    WorkspaceWebhookGetSigningKey, WorkspaceWebhookGet,
    WorkspaceWebhookRotateSigningKey, WorkspaceCountryListCreate,
    WorkspaceCountryListUpdate, WorkspaceCountryListDelete,
    WorkspaceCountryListList, WorkspaceCountryListGet,
    WorkspaceCustomSignalCreate, WorkspaceCustomSignalUpdate,
    WorkspaceCustomSignalDelete, WorkspaceCustomSignalList,
    WorkspaceCustomSignalGet, WorkspaceIPListCreate, WorkspaceIPListUpdate,
    WorkspaceIPListDelete, WorkspaceIPListList, WorkspaceIPListGet,
    WorkspaceRedactionCreate, WorkspaceRedactionUpdate,
    WorkspaceRedactionDelete, WorkspaceRedactionList,
    WorkspaceRedactionRetrieve, WorkspaceRuleCreate, WorkspaceRuleUpdate,
    WorkspaceRuleDelete, WorkspaceRuleList, WorkspaceRuleGet,
    WorkspaceSignalListCreate, WorkspaceSignalListUpdate,
    WorkspaceSignalListDelete, WorkspaceSignalListList, WorkspaceSignalListGet,
    WorkspaceStringListCreate, WorkspaceStringListUpdate,
    WorkspaceStringListDelete, WorkspaceStringListList, WorkspaceStringListGet,
    WorkspaceThresholdCreate, WorkspaceThresholdUpdate,
    WorkspaceThresholdDelete, WorkspaceThresholdList, WorkspaceThresholdGet,
    WorkspaceVirtualPatchUpdate, WorkspaceVirtualPatchList,
    WorkspaceVirtualPatchRetrieve, WorkspaceWildcardListCreate,
    WorkspaceWildcardListUpdate, WorkspaceWildcardListDelete,
    WorkspaceWildcardListList, WorkspaceWildcardListGet }

=============================================================================
