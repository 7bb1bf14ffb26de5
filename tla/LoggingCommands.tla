--------------------------- MODULE LoggingCommands -------------------------
(***************************************************************************)
(* The commands of "fastly service logging": five for each of the          *)
(* providers logs can be sent to.  All of them select a version.  Those    *)
(* that create an endpoint may find the flags at odds with each other (a   *)
(* compression codec and a gzip level, say); by then the version has been  *)
(* cloned, if it had to be.  Where an Exec and the flags it reads are      *)
(* long, the flags and what becomes of them are a definition of their own, *)
(* named ...Input.                                                         *)
(***************************************************************************)
EXTENDS CommandSteps

\* Azure Blob Storage
AzureblobCreateInput == <<Refusable>>
AzureblobCreate      == <<Editable>> \o AzureblobCreateInput \o <<Creates>>
AzureblobUpdate      == <<Editable, Updates>>
AzureblobDelete      == <<Editable, Deletes>>
AzureblobDescribe    == <<JSONOrVerbose, AnyVersion, Reads>>
AzureblobList        == <<JSONOrVerbose, AnyVersion, Reads>>

\* BigQuery
BigqueryCreate   == <<Editable, Creates>>
BigqueryUpdate   == <<Editable, Updates>>
BigqueryDelete   == <<Editable, Deletes>>
BigqueryDescribe == <<JSONOrVerbose, AnyVersion, Reads>>
BigqueryList     == <<JSONOrVerbose, AnyVersion, Reads>>

\* Cloud Files
CloudfilesCreateInput == <<Refusable>>
CloudfilesCreate      == <<Editable>> \o CloudfilesCreateInput \o <<Creates>>
CloudfilesUpdate      == <<Editable, Updates>>
CloudfilesDelete      == <<Editable, Deletes>>
CloudfilesDescribe    == <<JSONOrVerbose, AnyVersion, Reads>>
CloudfilesList        == <<JSONOrVerbose, AnyVersion, Reads>>

\* Datadog
DatadogCreate   == <<Editable, Creates>>
DatadogUpdate   == <<Editable, Updates>>
DatadogDelete   == <<Editable, Deletes>>
DatadogDescribe == <<JSONOrVerbose, AnyVersion, Reads>>
DatadogList     == <<JSONOrVerbose, AnyVersion, Reads>>

\* DigitalOcean Spaces
DigitaloceanCreateInput == <<Refusable>>
DigitaloceanCreate      == <<Editable>> \o DigitaloceanCreateInput \o <<Creates>>
DigitaloceanUpdate      == <<Editable, Updates>>
DigitaloceanDelete      == <<Editable, Deletes>>
DigitaloceanDescribe    == <<JSONOrVerbose, AnyVersion, Reads>>
DigitaloceanList        == <<JSONOrVerbose, AnyVersion, Reads>>

\* Elasticsearch
ElasticsearchCreate   == <<Editable, Creates>>
ElasticsearchUpdate   == <<Editable, Updates>>
ElasticsearchDelete   == <<Editable, Deletes>>
ElasticsearchDescribe == <<JSONOrVerbose, AnyVersion, Reads>>
ElasticsearchList     == <<JSONOrVerbose, AnyVersion, Reads>>

\* FTP
FtpCreateInput == <<Refusable>>
FtpCreate      == <<Editable>> \o FtpCreateInput \o <<Creates>>
FtpUpdate      == <<Editable, Updates>>
FtpDelete      == <<Editable, Deletes>>
FtpDescribe    == <<JSONOrVerbose, AnyVersion, Reads>>
FtpList        == <<JSONOrVerbose, AnyVersion, Reads>>

\* Google Cloud Storage
GcsCreateInput == <<Refusable>>
GcsCreate      == <<Editable>> \o GcsCreateInput \o <<Creates>>
GcsUpdate      == <<Editable, Updates>>
GcsDelete      == <<Editable, Deletes>>
GcsDescribe    == <<JSONOrVerbose, AnyVersion, Reads>>
GcsList        == <<JSONOrVerbose, AnyVersion, Reads>>

\* Google Pub/Sub
GooglepubsubCreate   == <<Editable, Creates>>
GooglepubsubUpdate   == <<Editable, Updates>>
GooglepubsubDelete   == <<Editable, Deletes>>
GooglepubsubDescribe == <<JSONOrVerbose, AnyVersion, Reads>>
GooglepubsubList     == <<JSONOrVerbose, AnyVersion, Reads>>

\* Grafana Cloud Logs
GrafanacloudlogsCreate   == <<Editable, Creates>>
GrafanacloudlogsUpdate   == <<Editable, Updates>>
GrafanacloudlogsDelete   == <<Editable, Deletes>>
GrafanacloudlogsDescribe == <<JSONOrVerbose, AnyVersion, Reads>>
GrafanacloudlogsList     == <<JSONOrVerbose, AnyVersion, Reads>>

\* Heroku
HerokuCreate   == <<Editable, Creates>>
HerokuUpdate   == <<Editable, Updates>>
HerokuDelete   == <<Editable, Deletes>>
HerokuDescribe == <<JSONOrVerbose, AnyVersion, Reads>>
HerokuList     == <<JSONOrVerbose, AnyVersion, Reads>>

\* Honeycomb
HoneycombCreate   == <<Editable, Creates>>
HoneycombUpdate   == <<Editable, Updates>>
HoneycombDelete   == <<Editable, Deletes>>
HoneycombDescribe == <<JSONOrVerbose, AnyVersion, Reads>>
HoneycombList     == <<JSONOrVerbose, AnyVersion, Reads>>

\* HTTPS
HttpsCreateInput == <<Refusable>>
HttpsCreate      == <<Editable>> \o HttpsCreateInput \o <<Creates>>
HttpsUpdate      == <<Editable, Updates>>
HttpsDelete      == <<Editable, Deletes>>
HttpsDescribe    == <<JSONOrVerbose, AnyVersion, Reads>>
HttpsList        == <<JSONOrVerbose, AnyVersion, Reads>>

\* Kafka: the SASL flags must fit each other
KafkaCreateInput == <<Refusable>>
KafkaCreate      == <<Editable>> \o KafkaCreateInput \o <<Creates>>
KafkaUpdateInput == <<Refusable>>
KafkaUpdate      == <<Editable>> \o KafkaUpdateInput \o <<Updates>>
KafkaDelete      == <<Editable, Deletes>>
KafkaDescribe    == <<JSONOrVerbose, AnyVersion, Reads>>
KafkaList        == <<JSONOrVerbose, AnyVersion, Reads>>

\* Kinesis: an access key and a secret key, or a role
KinesisCreateInput == <<Refusable>>
KinesisCreate      == <<Editable>> \o KinesisCreateInput \o <<Creates>>
KinesisUpdate      == <<Editable, Updates>>
KinesisDelete      == <<Editable, Deletes>>
KinesisDescribe    == <<JSONOrVerbose, AnyVersion, Reads>>
KinesisList        == <<JSONOrVerbose, AnyVersion, Reads>>

\* Loggly
LogglyCreate   == <<Editable, Creates>>
LogglyUpdate   == <<Editable, Updates>>
LogglyDelete   == <<Editable, Deletes>>
LogglyDescribe == <<JSONOrVerbose, AnyVersion, Reads>>
LogglyList     == <<JSONOrVerbose, AnyVersion, Reads>>

\* Logshuttle
LogshuttleCreate   == <<Editable, Creates>>
LogshuttleUpdate   == <<Editable, Updates>>
LogshuttleDelete   == <<Editable, Deletes>>
LogshuttleDescribe == <<JSONOrVerbose, AnyVersion, Reads>>
LogshuttleList     == <<JSONOrVerbose, AnyVersion, Reads>>

\* New Relic
NewrelicCreate   == <<Editable, Creates>>
NewrelicUpdate   == <<Editable, Updates>>
NewrelicDelete   == <<Editable, Deletes>>
NewrelicDescribe == <<JSONOrVerbose, AnyVersion, Reads>>
NewrelicList     == <<JSONOrVerbose, AnyVersion, Reads>>

\* New Relic OTLP
NewrelicotlpCreate   == <<Editable, Creates>>
NewrelicotlpUpdate   == <<Editable, Updates>>
NewrelicotlpDelete   == <<Editable, Deletes>>
NewrelicotlpDescribe == <<JSONOrVerbose, AnyVersion, Reads>>
NewrelicotlpList     == <<JSONOrVerbose, AnyVersion, Reads>>

\* OpenStack
OpenstackCreateInput == <<Refusable>>
OpenstackCreate      == <<Editable>> \o OpenstackCreateInput \o <<Creates>>
OpenstackUpdate      == <<Editable, Updates>>
OpenstackDelete      == <<Editable, Deletes>>
OpenstackDescribe    == <<JSONOrVerbose, AnyVersion, Reads>>
OpenstackList        == <<JSONOrVerbose, AnyVersion, Reads>>

\* Papertrail
PapertrailCreate   == <<Editable, Creates>>
PapertrailUpdate   == <<Editable, Updates>>
PapertrailDelete   == <<Editable, Deletes>>
PapertrailDescribe == <<JSONOrVerbose, AnyVersion, Reads>>
PapertrailList     == <<JSONOrVerbose, AnyVersion, Reads>>

\* Amazon S3: an access key and a secret key, or a role
S3CreateInput == <<Refusable>>
S3Create      == <<Editable>> \o S3CreateInput \o <<Creates>>
S3Update      == <<Editable, Updates>>
S3Delete      == <<Editable, Deletes>>
S3Describe    == <<JSONOrVerbose, AnyVersion, Reads>>
S3List        == <<JSONOrVerbose, AnyVersion, Reads>>

\* Scalyr
ScalyrCreate   == <<Editable, Creates>>
ScalyrUpdate   == <<Editable, Updates>>
ScalyrDelete   == <<Editable, Deletes>>
ScalyrDescribe == <<JSONOrVerbose, AnyVersion, Reads>>
ScalyrList     == <<JSONOrVerbose, AnyVersion, Reads>>

\* SFTP
SftpCreateInput == <<Refusable>>
SftpCreate      == <<Editable>> \o SftpCreateInput \o <<Creates>>
SftpUpdate      == <<Editable, Updates>>
SftpDelete      == <<Editable, Deletes>>
SftpDescribe    == <<JSONOrVerbose, AnyVersion, Reads>>
SftpList        == <<JSONOrVerbose, AnyVersion, Reads>>

\* Splunk
SplunkCreate   == <<Editable, Creates>>
SplunkUpdate   == <<Editable, Updates>>
SplunkDelete   == <<Editable, Deletes>>
SplunkDescribe == <<JSONOrVerbose, AnyVersion, Reads>>
SplunkList     == <<JSONOrVerbose, AnyVersion, Reads>>

\* Sumo Logic
SumologicCreate   == <<Editable, Creates>>
SumologicUpdate   == <<Editable, Updates>>
SumologicDelete   == <<Editable, Deletes>>
SumologicDescribe == <<JSONOrVerbose, AnyVersion, Reads>>
SumologicList     == <<JSONOrVerbose, AnyVersion, Reads>>

\* Syslog
SyslogCreate   == <<Editable, Creates>>
SyslogUpdate   == <<Editable, Updates>>
SyslogDelete   == <<Editable, Deletes>>
SyslogDescribe == <<JSONOrVerbose, AnyVersion, Reads>>
SyslogList     == <<JSONOrVerbose, AnyVersion, Reads>>

-----------------------------------------------------------------------------
LoggingCommands == {
    AzureblobCreate, AzureblobUpdate, AzureblobDelete, AzureblobDescribe,
    AzureblobList, BigqueryCreate, BigqueryUpdate, BigqueryDelete,
    BigqueryDescribe, BigqueryList, CloudfilesCreate, CloudfilesUpdate,
    CloudfilesDelete, CloudfilesDescribe, CloudfilesList, DatadogCreate,
    DatadogUpdate, DatadogDelete, DatadogDescribe, DatadogList,
    DigitaloceanCreate, DigitaloceanUpdate, DigitaloceanDelete,
    DigitaloceanDescribe, DigitaloceanList, ElasticsearchCreate,
    ElasticsearchUpdate, ElasticsearchDelete, ElasticsearchDescribe,
    ElasticsearchList, FtpCreate, FtpUpdate, FtpDelete, FtpDescribe, FtpList,
    GcsCreate, GcsUpdate, GcsDelete, GcsDescribe, GcsList, GooglepubsubCreate,
    GooglepubsubUpdate, GooglepubsubDelete, GooglepubsubDescribe,
    GooglepubsubList, GrafanacloudlogsCreate, GrafanacloudlogsUpdate,
    GrafanacloudlogsDelete, GrafanacloudlogsDescribe, GrafanacloudlogsList,
    HerokuCreate, HerokuUpdate, HerokuDelete, HerokuDescribe, HerokuList,
    HoneycombCreate, HoneycombUpdate, HoneycombDelete, HoneycombDescribe,
    HoneycombList, HttpsCreate, HttpsUpdate, HttpsDelete, HttpsDescribe,
    HttpsList, KafkaCreate, KafkaUpdate, KafkaDelete, KafkaDescribe, KafkaList,
    KinesisCreate, KinesisUpdate, KinesisDelete, KinesisDescribe, KinesisList,
    LogglyCreate, LogglyUpdate, LogglyDelete, LogglyDescribe, LogglyList,
    LogshuttleCreate, LogshuttleUpdate, LogshuttleDelete, LogshuttleDescribe,
    LogshuttleList, NewrelicCreate, NewrelicUpdate, NewrelicDelete,
    NewrelicDescribe, NewrelicList, NewrelicotlpCreate, NewrelicotlpUpdate,
    NewrelicotlpDelete, NewrelicotlpDescribe, NewrelicotlpList,
    OpenstackCreate, OpenstackUpdate, OpenstackDelete, OpenstackDescribe,
    OpenstackList, PapertrailCreate, PapertrailUpdate, PapertrailDelete,
    PapertrailDescribe, PapertrailList, S3Create, S3Update, S3Delete,
    S3Describe, S3List, ScalyrCreate, ScalyrUpdate, ScalyrDelete,
    ScalyrDescribe, ScalyrList, SftpCreate, SftpUpdate, SftpDelete,
    SftpDescribe, SftpList, SplunkCreate, SplunkUpdate, SplunkDelete,
    SplunkDescribe, SplunkList, SumologicCreate, SumologicUpdate,
    SumologicDelete, SumologicDescribe, SumologicList, SyslogCreate,
    SyslogUpdate, SyslogDelete, SyslogDescribe, SyslogList }

=============================================================================
