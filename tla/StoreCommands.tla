---------------------------- MODULE StoreCommands --------------------------
(***************************************************************************)
(* The commands for the stores of an account and what is in them: KV       *)
(* stores, config stores, secret stores, the ACLs of Compute and the       *)
(* access keys of the object storage. Deleting all entries of a store and  *)
(* uploading many are modelled by KVDeleteAll, ConfigStoreDeleteAll and    *)
(* KVUpload.                                                               *)
(***************************************************************************)
EXTENDS CommandSteps

\* ACLs of Compute
ComputeACLCreate      == <<JSONOrVerbose, Creates>>
ComputeACLUpdate      == <<Refusable, Updates>>
ComputeACLDelete      == <<JSONOrVerbose, Deletes>>
ComputeACLDescribe    == <<JSONOrVerbose, Reads>>
ComputeACLList        == <<JSONOrVerbose, Reads>>
ComputeACLListEntries == <<JSONOrVerbose, Reads, MayStop, Reads>>
ComputeACLLookup      == <<JSONOrVerbose, Reads>>

\* Config stores
ConfigStoreCreate       == <<JSONOrVerbose, Creates>>
ConfigStoreUpdate       == <<JSONOrVerbose, Updates>>
ConfigStoreDelete       == <<JSONOrVerbose, Deletes>>
ConfigStoreDescribe     == <<JSONOrVerbose, Reads, Reads>>
ConfigStoreList         == <<JSONOrVerbose, Reads>>
ConfigStoreListServices == <<JSONOrVerbose, Reads>>

\* One item of a config store
ConfigStoreEntryCreate   == <<JSONOrVerbose, Refusable, Creates>>
ConfigStoreEntryUpdate   == <<JSONOrVerbose, Refusable, Updates>>
ConfigStoreEntryDelete   == <<JSONOrVerbose, Refusable, Deletes>>
ConfigStoreEntryDescribe == <<JSONOrVerbose, Reads>>
ConfigStoreEntryList     == <<JSONOrVerbose, Reads>>

\* KV stores.  With --all the keys are deleted before the store is
KVStoreCreate    == <<JSONOrVerbose, Creates>>
KVStoreDelete    == <<JSONOrVerbose, Deletes>>
KVStoreDeleteAll == <<JSONOrVerbose, MayStop, Reads, Deletes, Deletes>>
KVStoreDescribe  == <<JSONOrVerbose, Reads>>
KVStoreList      == <<JSONOrVerbose, Reads, MayStop, Reads>>

\* One key of a KV store
KVStoreEntryCreate   == <<JSONOrVerbose, Refusable, Creates>>
KVStoreEntryDelete   == <<JSONOrVerbose, Refusable, Deletes>>
KVStoreEntryDescribe == <<JSONOrVerbose, Refusable, Reads>>
KVStoreEntryList     == <<JSONOrVerbose, Reads, Reads>>
KVStoreEntryGet      == <<Refusable, JSONOrVerbose, Refusable, Reads, Verifies>>

\* Access keys of the object storage
AccessKeyCreate == <<JSONOrVerbose, Creates>>
AccessKeyDelete == <<JSONOrVerbose, Deletes>>
AccessKeyList   == <<JSONOrVerbose, Reads>>
AccessKeyGet    == <<JSONOrVerbose, Reads>>

\* Secret stores
SecretStoreCreate   == <<JSONOrVerbose, Creates>>
SecretStoreDelete   == <<JSONOrVerbose, Deletes>>
SecretStoreDescribe == <<JSONOrVerbose, Reads>>
SecretStoreList     == <<JSONOrVerbose, Reads, MayStop, Reads>>

\* Secrets.  The key to encrypt one with is created first, then verified
\* Mutant: the key is created before the secret has been checked.
SecretStoreEntryCreateEarly == <<JSONOrVerbose, Calls, Refusable, Reads, Verifies, Creates>>

SecretStoreEntryCreate   == <<JSONOrVerbose, Refusable, Calls, Reads, Verifies, Creates>>
SecretStoreEntryDelete   == <<JSONOrVerbose, Deletes>>
SecretStoreEntryDescribe == <<JSONOrVerbose, Reads>>
SecretStoreEntryList     == <<JSONOrVerbose, Reads, MayStop, Reads>>

-----------------------------------------------------------------------------
StoreCommands == {
    ComputeACLCreate, ComputeACLUpdate, ComputeACLDelete, ComputeACLDescribe,
    ComputeACLList, ComputeACLListEntries, ComputeACLLookup, ConfigStoreCreate,
    ConfigStoreUpdate, ConfigStoreDelete, ConfigStoreDescribe, ConfigStoreList,
    ConfigStoreListServices, ConfigStoreEntryCreate, ConfigStoreEntryUpdate,
    ConfigStoreEntryDelete, ConfigStoreEntryDescribe, ConfigStoreEntryList,
    KVStoreCreate, KVStoreDelete, KVStoreDeleteAll, KVStoreDescribe,
    KVStoreList, KVStoreEntryCreate, KVStoreEntryDelete, KVStoreEntryDescribe,
    KVStoreEntryList, KVStoreEntryGet, AccessKeyCreate, AccessKeyDelete,
    AccessKeyList, AccessKeyGet, SecretStoreCreate, SecretStoreDelete,
    SecretStoreDescribe, SecretStoreList, SecretStoreEntryCreate,
    SecretStoreEntryDelete, SecretStoreEntryDescribe, SecretStoreEntryList }

=============================================================================
