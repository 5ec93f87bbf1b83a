------------------------------ MODULE OpenAPI -------------------------------
(***************************************************************************)
(* The schemas of openapi_generated.go, one definition for each schema_    *)
(* function: those of the notebook, from which the operator makes the      *)
(* validation of its custom resource definition, and those of the pod      *)
(* template, the service and the secret, with all they refer to.  A ref is *)
(* replaced by what it refers to, as SchemaPropsToJSONProps does it.       *)
(* Formats and descriptions are left out.                                  *)
(***************************************************************************)

String == [type |-> "string"]
Integer == [type |-> "integer"]
Boolean == [type |-> "boolean"]
ListOf(items) == [type |-> "array", items |-> items]
MapOf(values) == [type |-> "map", values |-> values]
Object(properties, required) ==
  [type |-> "object", properties |-> properties, required |-> required]

\* What becomes of a ref to a schema that the file lacks (IngressBackend,
\* IntOrString and Quantity): the empty schema, which allows everything.
\* fixKnownTypes defines IntOrString for the custom resource definition, but
\* nothing that is in the file refers to it from a notebook.
Any == [type |-> "any"]

-----------------------------------------------------------------------------
(* pkg/apis/jupyter/v1 *)

\* Mutant: the items of the list of packages have no type.
UntypedPackages == Object(
  [flavor |-> String, gpu |-> Boolean, host |-> String, ingress |-> Any,
   packages |-> ListOf(Any), password |-> String, serviceAccountName |-> String,
   tls |-> String], {"gpu"})

NotebookSpec == Object(
  [flavor |-> String, gpu |-> Boolean, host |-> String, ingress |-> Any,
   packages |-> ListOf(String), password |-> String, serviceAccountName |-> String,
   tls |-> String], {"gpu"})
NotebookStatus == Object([observedGeneration |-> Integer, phase |-> String], {"phase"})
Notebook == Object(
  [kind |-> String, apiVersion |-> String, spec |-> NotebookSpec, status |-> NotebookStatus],
  {"spec"})
-----------------------------------------------------------------------------
(* k8s.io/api/core/v1, apimachinery/pkg/apis/meta/v1: what a pod template is made of *)

NodeSelectorRequirement == Object(
  [key |-> String, operator |-> String, values |-> ListOf(String)], {"key", "operator"})
NodeSelectorTerm == Object(
  [matchExpressions |-> ListOf(NodeSelectorRequirement),
   matchFields |-> ListOf(NodeSelectorRequirement)], {})
NodeSelector == Object([nodeSelectorTerms |-> ListOf(NodeSelectorTerm)], {"nodeSelectorTerms"})
PreferredSchedulingTerm == Object(
  [weight |-> Integer, preference |-> NodeSelectorTerm], {"weight", "preference"})
NodeAffinity == Object(
  [requiredDuringSchedulingIgnoredDuringExecution |-> NodeSelector,
   preferredDuringSchedulingIgnoredDuringExecution |-> ListOf(PreferredSchedulingTerm)], {})
LabelSelectorRequirement == Object(
  [key |-> String, operator |-> String, values |-> ListOf(String)], {"key", "operator"})
LabelSelector == Object(
  [matchLabels |-> MapOf(String), matchExpressions |-> ListOf(LabelSelectorRequirement)], {})
PodAffinityTerm == Object(
  [labelSelector |-> LabelSelector, namespaces |-> ListOf(String), topologyKey |-> String],
  {"topologyKey"})
WeightedPodAffinityTerm == Object(
  [weight |-> Integer, podAffinityTerm |-> PodAffinityTerm], {"weight", "podAffinityTerm"})
PodAffinity == Object(
  [requiredDuringSchedulingIgnoredDuringExecution |-> ListOf(PodAffinityTerm),
   preferredDuringSchedulingIgnoredDuringExecution |-> ListOf(WeightedPodAffinityTerm)], {})
PodAntiAffinity == Object(
  [requiredDuringSchedulingIgnoredDuringExecution |-> ListOf(PodAffinityTerm),
   preferredDuringSchedulingIgnoredDuringExecution |-> ListOf(WeightedPodAffinityTerm)], {})
Affinity == Object(
  [nodeAffinity |-> NodeAffinity, podAffinity |-> PodAffinity,
   podAntiAffinity |-> PodAntiAffinity], {})
ContainerPort == Object(
  [name |-> String, hostPort |-> Integer, containerPort |-> Integer, protocol |-> String,
   hostIP |-> String], {"containerPort"})
ConfigMapEnvSource == Object([name |-> String, optional |-> Boolean], {})
SecretEnvSource == Object([name |-> String, optional |-> Boolean], {})
EnvFromSource == Object(
  [prefix |-> String, configMapRef |-> ConfigMapEnvSource, secretRef |-> SecretEnvSource], {})
ConfigMapKeySelector == Object([name |-> String, key |-> String, optional |-> Boolean], {"key"})
ObjectFieldSelector == Object([apiVersion |-> String, fieldPath |-> String], {"fieldPath"})
ResourceFieldSelector == Object(
  [containerName |-> String, resource |-> String, divisor |-> Any], {"resource"})
SecretKeySelector == Object([name |-> String, key |-> String, optional |-> Boolean], {"key"})
EnvVarSource == Object(
  [fieldRef |-> ObjectFieldSelector, resourceFieldRef |-> ResourceFieldSelector,
   configMapKeyRef |-> ConfigMapKeySelector, secretKeyRef |-> SecretKeySelector], {})
EnvVar == Object([name |-> String, value |-> String, valueFrom |-> EnvVarSource], {"name"})
ExecAction == Object([command |-> ListOf(String)], {})
HTTPHeader == Object([name |-> String, value |-> String], {"name", "value"})
HTTPGetAction == Object(
  [path |-> String, port |-> Any, host |-> String, scheme |-> String,
   httpHeaders |-> ListOf(HTTPHeader)], {"port"})
TCPSocketAction == Object([port |-> Any, host |-> String], {"port"})
Handler == Object(
  [exec |-> ExecAction, httpGet |-> HTTPGetAction, tcpSocket |-> TCPSocketAction], {})
Lifecycle == Object([postStart |-> Handler, preStop |-> Handler], {})
Probe == Object(
  [exec |-> ExecAction, httpGet |-> HTTPGetAction, tcpSocket |-> TCPSocketAction,
   initialDelaySeconds |-> Integer, timeoutSeconds |-> Integer, periodSeconds |-> Integer,
   successThreshold |-> Integer, failureThreshold |-> Integer], {})
ResourceRequirements == Object([limits |-> MapOf(Any), requests |-> MapOf(Any)], {})
Capabilities == Object([add |-> ListOf(String), drop |-> ListOf(String)], {})
SELinuxOptions == Object(
  [user |-> String, role |-> String, type |-> String, level |-> String], {})
SecurityContext == Object(
  [capabilities |-> Capabilities, privileged |-> Boolean, seLinuxOptions |-> SELinuxOptions,
   runAsUser |-> Integer, runAsGroup |-> Integer, runAsNonRoot |-> Boolean,
   readOnlyRootFilesystem |-> Boolean, allowPrivilegeEscalation |-> Boolean,
   procMount |-> String], {})
VolumeDevice == Object([name |-> String, devicePath |-> String], {"name", "devicePath"})
VolumeMount == Object(
  [name |-> String, readOnly |-> Boolean, mountPath |-> String, subPath |-> String,
   mountPropagation |-> String], {"name", "mountPath"})
Container == Object(
  [name |-> String, image |-> String, command |-> ListOf(String), args |-> ListOf(String),
   workingDir |-> String, ports |-> ListOf(ContainerPort), envFrom |-> ListOf(EnvFromSource),
   env |-> ListOf(EnvVar), resources |-> ResourceRequirements,
   volumeMounts |-> ListOf(VolumeMount), volumeDevices |-> ListOf(VolumeDevice),
   livenessProbe |-> Probe, readinessProbe |-> Probe, lifecycle |-> Lifecycle,
   terminationMessagePath |-> String, terminationMessagePolicy |-> String,
   imagePullPolicy |-> String, securityContext |-> SecurityContext, stdin |-> Boolean,
   stdinOnce |-> Boolean, tty |-> Boolean], {"name"})
HostAlias == Object([ip |-> String, hostnames |-> ListOf(String)], {})
LocalObjectReference == Object([name |-> String], {})
PodDNSConfigOption == Object([name |-> String, value |-> String], {})
PodDNSConfig == Object(
  [nameservers |-> ListOf(String), searches |-> ListOf(String),
   options |-> ListOf(PodDNSConfigOption)], {})
PodReadinessGate == Object([conditionType |-> String], {"conditionType"})
Sysctl == Object([name |-> String, value |-> String], {"name", "value"})
PodSecurityContext == Object(
  [seLinuxOptions |-> SELinuxOptions, runAsUser |-> Integer, runAsGroup |-> Integer,
   runAsNonRoot |-> Boolean, supplementalGroups |-> ListOf(Integer), fsGroup |-> Integer,
   sysctls |-> ListOf(Sysctl)], {})
Toleration == Object(
  [key |-> String, operator |-> String, value |-> String, effect |-> String,
   tolerationSeconds |-> Integer], {})
AWSElasticBlockStoreVolumeSource == Object(
  [volumeID |-> String, fsType |-> String, partition |-> Integer, readOnly |-> Boolean],
  {"volumeID"})
AzureDiskVolumeSource == Object(
  [diskName |-> String, diskURI |-> String, cachingMode |-> String, fsType |-> String,
   readOnly |-> Boolean, kind |-> String], {"diskName", "diskURI"})
AzureFileVolumeSource == Object(
  [secretName |-> String, shareName |-> String, readOnly |-> Boolean],
  {"secretName", "shareName"})
CephFSVolumeSource == Object(
  [monitors |-> ListOf(String), path |-> String, user |-> String, secretFile |-> String,
   secretRef |-> LocalObjectReference, readOnly |-> Boolean], {"monitors"})
CinderVolumeSource == Object(
  [volumeID |-> String, fsType |-> String, readOnly |-> Boolean,
   secretRef |-> LocalObjectReference], {"volumeID"})
KeyToPath == Object([key |-> String, path |-> String, mode |-> Integer], {"key", "path"})
ConfigMapVolumeSource == Object(
  [name |-> String, items |-> ListOf(KeyToPath), defaultMode |-> Integer, optional |-> Boolean],
  {})
DownwardAPIVolumeFile == Object(
  [path |-> String, fieldRef |-> ObjectFieldSelector,
   resourceFieldRef |-> ResourceFieldSelector, mode |-> Integer], {"path"})
DownwardAPIVolumeSource == Object(
  [items |-> ListOf(DownwardAPIVolumeFile), defaultMode |-> Integer], {})
EmptyDirVolumeSource == Object([medium |-> String, sizeLimit |-> Any], {})
FCVolumeSource == Object(
  [targetWWNs |-> ListOf(String), lun |-> Integer, fsType |-> String, readOnly |-> Boolean,
   wwids |-> ListOf(String)], {})
FlexVolumeSource == Object(
  [driver |-> String, fsType |-> String, secretRef |-> LocalObjectReference,
   readOnly |-> Boolean, options |-> MapOf(String)], {"driver"})
FlockerVolumeSource == Object([datasetName |-> String, datasetUUID |-> String], {})
GCEPersistentDiskVolumeSource == Object(
  [pdName |-> String, fsType |-> String, partition |-> Integer, readOnly |-> Boolean],
  {"pdName"})
GitRepoVolumeSource == Object(
  [repository |-> String, revision |-> String, directory |-> String], {"repository"})
GlusterfsVolumeSource == Object(
  [endpoints |-> String, path |-> String, readOnly |-> Boolean], {"endpoints", "path"})
HostPathVolumeSource == Object([path |-> String, type |-> String], {"path"})
ISCSIVolumeSource == Object(
  [targetPortal |-> String, iqn |-> String, lun |-> Integer, iscsiInterface |-> String,
   fsType |-> String, readOnly |-> Boolean, portals |-> ListOf(String),
   chapAuthDiscovery |-> Boolean, chapAuthSession |-> Boolean,
   secretRef |-> LocalObjectReference, initiatorName |-> String],
  {"targetPortal", "iqn", "lun"})
NFSVolumeSource == Object(
  [server |-> String, path |-> String, readOnly |-> Boolean], {"server", "path"})
PersistentVolumeClaimVolumeSource == Object(
  [claimName |-> String, readOnly |-> Boolean], {"claimName"})
PhotonPersistentDiskVolumeSource == Object([pdID |-> String, fsType |-> String], {"pdID"})
PortworxVolumeSource == Object(
  [volumeID |-> String, fsType |-> String, readOnly |-> Boolean], {"volumeID"})
ConfigMapProjection == Object(
  [name |-> String, items |-> ListOf(KeyToPath), optional |-> Boolean], {})
DownwardAPIProjection == Object([items |-> ListOf(DownwardAPIVolumeFile)], {})
SecretProjection == Object(
  [name |-> String, items |-> ListOf(KeyToPath), optional |-> Boolean], {})
ServiceAccountTokenProjection == Object(
  [audience |-> String, expirationSeconds |-> Integer, path |-> String], {"path"})
VolumeProjection == Object(
  [secret |-> SecretProjection, downwardAPI |-> DownwardAPIProjection,
   configMap |-> ConfigMapProjection, serviceAccountToken |-> ServiceAccountTokenProjection],
  {})
ProjectedVolumeSource == Object(
  [sources |-> ListOf(VolumeProjection), defaultMode |-> Integer], {"sources"})
QuobyteVolumeSource == Object(
  [registry |-> String, volume |-> String, readOnly |-> Boolean, user |-> String,
   group |-> String], {"registry", "volume"})
RBDVolumeSource == Object(
  [monitors |-> ListOf(String), image |-> String, fsType |-> String, pool |-> String,
   user |-> String, keyring |-> String, secretRef |-> LocalObjectReference, readOnly |-> Boolean],
  {"monitors", "image"})
ScaleIOVolumeSource == Object(
  [gateway |-> String, system |-> String, secretRef |-> LocalObjectReference,
   sslEnabled |-> Boolean, protectionDomain |-> String, storagePool |-> String,
   storageMode |-> String, volumeName |-> String, fsType |-> String, readOnly |-> Boolean],
  {"gateway", "system", "secretRef"})
SecretVolumeSource == Object(
  [secretName |-> String, items |-> ListOf(KeyToPath), defaultMode |-> Integer,
   optional |-> Boolean], {})
StorageOSVolumeSource == Object(
  [volumeName |-> String, volumeNamespace |-> String, fsType |-> String, readOnly |-> Boolean,
   secretRef |-> LocalObjectReference], {})
VsphereVirtualDiskVolumeSource == Object(
  [volumePath |-> String, fsType |-> String, storagePolicyName |-> String,
   storagePolicyID |-> String], {"volumePath"})
Volume == Object(
  [name |-> String, hostPath |-> HostPathVolumeSource, emptyDir |-> EmptyDirVolumeSource,
   gcePersistentDisk |-> GCEPersistentDiskVolumeSource,
   awsElasticBlockStore |-> AWSElasticBlockStoreVolumeSource, gitRepo |-> GitRepoVolumeSource,
   secret |-> SecretVolumeSource, nfs |-> NFSVolumeSource, iscsi |-> ISCSIVolumeSource,
   glusterfs |-> GlusterfsVolumeSource,
   persistentVolumeClaim |-> PersistentVolumeClaimVolumeSource, rbd |-> RBDVolumeSource,
   flexVolume |-> FlexVolumeSource, cinder |-> CinderVolumeSource,
   cephfs |-> CephFSVolumeSource, flocker |-> FlockerVolumeSource,
   downwardAPI |-> DownwardAPIVolumeSource, fc |-> FCVolumeSource,
   azureFile |-> AzureFileVolumeSource, configMap |-> ConfigMapVolumeSource,
   vsphereVolume |-> VsphereVirtualDiskVolumeSource, quobyte |-> QuobyteVolumeSource,
   azureDisk |-> AzureDiskVolumeSource,
   photonPersistentDisk |-> PhotonPersistentDiskVolumeSource,
   projected |-> ProjectedVolumeSource, portworxVolume |-> PortworxVolumeSource,
   scaleIO |-> ScaleIOVolumeSource, storageos |-> StorageOSVolumeSource], {"name"})
PodSpec == Object(
  [volumes |-> ListOf(Volume), initContainers |-> ListOf(Container),
   containers |-> ListOf(Container), restartPolicy |-> String,
   terminationGracePeriodSeconds |-> Integer, activeDeadlineSeconds |-> Integer,
   dnsPolicy |-> String, nodeSelector |-> MapOf(String), serviceAccountName |-> String,
   serviceAccount |-> String, automountServiceAccountToken |-> Boolean, nodeName |-> String,
   hostNetwork |-> Boolean, hostPID |-> Boolean, hostIPC |-> Boolean,
   shareProcessNamespace |-> Boolean, securityContext |-> PodSecurityContext,
   imagePullSecrets |-> ListOf(LocalObjectReference), hostname |-> String, subdomain |-> String,
   affinity |-> Affinity, schedulerName |-> String, tolerations |-> ListOf(Toleration),
   hostAliases |-> ListOf(HostAlias), priorityClassName |-> String, priority |-> Integer,
   dnsConfig |-> PodDNSConfig, readinessGates |-> ListOf(PodReadinessGate),
   runtimeClassName |-> String], {"containers"})
Initializer == Object([name |-> String], {"name"})
ListMeta == Object([selfLink |-> String, resourceVersion |-> String, continue |-> String], {})
StatusCause == Object([reason |-> String, message |-> String, field |-> String], {})
StatusDetails == Object(
  [name |-> String, group |-> String, kind |-> String, uid |-> String,
   causes |-> ListOf(StatusCause), retryAfterSeconds |-> Integer], {})
Status == Object(
  [kind |-> String, apiVersion |-> String, metadata |-> ListMeta, status |-> String,
   message |-> String, reason |-> String, details |-> StatusDetails, code |-> Integer], {})
Initializers == Object([pending |-> ListOf(Initializer), result |-> Status], {"pending"})
OwnerReference == Object(
  [apiVersion |-> String, kind |-> String, name |-> String, uid |-> String,
   controller |-> Boolean, blockOwnerDeletion |-> Boolean],
  {"apiVersion", "kind", "name", "uid"})
Time == String
ObjectMeta == Object(
  [name |-> String, generateName |-> String, namespace |-> String, selfLink |-> String,
   uid |-> String, resourceVersion |-> String, generation |-> Integer,
   creationTimestamp |-> Time, deletionTimestamp |-> Time,
   deletionGracePeriodSeconds |-> Integer, labels |-> MapOf(String),
   annotations |-> MapOf(String), ownerReferences |-> ListOf(OwnerReference),
   initializers |-> Initializers, finalizers |-> ListOf(String), clusterName |-> String], {})
PodTemplateSpec == Object([metadata |-> ObjectMeta, spec |-> PodSpec], {})
-----------------------------------------------------------------------------
(* The service and the secret *)

ServicePort == Object(
  [name |-> String, protocol |-> String, port |-> Integer, targetPort |-> Any,
   nodePort |-> Integer], {"port"})
ClientIPConfig == Object([timeoutSeconds |-> Integer], {})
SessionAffinityConfig == Object([clientIP |-> ClientIPConfig], {})
ServiceSpec == Object(
  [ports |-> ListOf(ServicePort), selector |-> MapOf(String), clusterIP |-> String,
   type |-> String, externalIPs |-> ListOf(String), sessionAffinity |-> String,
   loadBalancerIP |-> String, loadBalancerSourceRanges |-> ListOf(String),
   externalName |-> String, externalTrafficPolicy |-> String, healthCheckNodePort |-> Integer,
   publishNotReadyAddresses |-> Boolean, sessionAffinityConfig |-> SessionAffinityConfig], {})
LoadBalancerIngress == Object([ip |-> String, hostname |-> String], {})
LoadBalancerStatus == Object([ingress |-> ListOf(LoadBalancerIngress)], {})
ServiceStatus == Object([loadBalancer |-> LoadBalancerStatus], {})
Service == Object(
  [kind |-> String, apiVersion |-> String, metadata |-> ObjectMeta, spec |-> ServiceSpec,
   status |-> ServiceStatus], {})
Secret == Object(
  [kind |-> String, apiVersion |-> String, metadata |-> ObjectMeta, data |-> MapOf(String),
   stringData |-> MapOf(String), type |-> String], {})
=============================================================================
