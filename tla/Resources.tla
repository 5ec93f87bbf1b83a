----------------------------- MODULE Resources ------------------------------
(***************************************************************************)
(* The resources of a notebook in full: what the Calculate functions of    *)
(* k8sutil make of a specification, and what the API server makes of a pod *)
(* template.  NotebookSpec keeps of all this only what tells one           *)
(* specification from another.                                             *)
(*                                                                         *)
(* A Go value is a record with one field that says what it is.  In a       *)
(* struct the zero values are left out, as the JSON encoding of the        *)
(* Kubernetes types leaves them out; an embedded struct is its field       *)
(* inline.  Namespaces are left out, because all of it is in one.          *)
(***************************************************************************)
EXTENDS NotebookSpec

\* The operators of module TLC, as it defines them.
k :> v == [x \in {k} |-> v]
f @@ g == [x \in DOMAIN f \cup DOMAIN g |-> IF x \in DOMAIN f THEN f[x] ELSE g[x]]

Str(s) == [string |-> s]
Int(digits) == [integer |-> digits]
Bool(b) == [boolean |-> b]
Ptr(v) == [ptr |-> v]
Map(f) == [map |-> f]
Array(elements) == [array |-> elements]
Quantity(q, format) == [quantity |-> q, format |-> format]

\* A value that is not there: a nil pointer, slice or map.
Zero == [zero |-> TRUE]

\* An object with those of the fields that satisfy Kept.
Filled(fields, Kept(_)) ==
  [object |-> [f \in {f \in DOMAIN fields : Kept(fields[f])} |-> fields[f]]]

NotZero(v) == v \notin {Zero, Str(""), Bool(FALSE), Array(<<>>)}

Struct(fields) == Filled(fields, NotZero)
Empty == [object |-> [f \in {} |-> Zero]]

Given(condition, v) == IF condition THEN v ELSE Zero

Has(v, field) == field \in DOMAIN v.object
Field(v, field) == IF Has(v, field) THEN v.object[field] ELSE Zero

\* The fields of a struct and of the structs it embeds.
Fields(v) ==
  IF Has(v, "inline")
  THEN [f \in DOMAIN v.object \ {"inline"} |-> v.object[f]] @@ v.object["inline"].object
  ELSE v.object
-----------------------------------------------------------------------------
(* k8s.go: names and labels *)

Port == "8888"
PortName == "notebook-port"
PasswordKey == "password"
MountPath == "/var/lib/tls"
CertKey == "tls.crt"
KeyKey == "tls.key"

resourceName(name) == "jupyter-notebook-" \o name
IngressTLSSecretName(name) == resourceName(name) \o "-tls"

MatchLabels(name) == "jupyter.squat.ai/notebook" :> Str(name)
Labels(name) == MatchLabels(name) @@ ("managed-by" :> Str("jupyter-operator"))

\* Mutant: the kind is left as it was.
Untyped(kind) == Str(kind)

\* sync fills in the kind that a notebook from the lister may lack.
Typed(kind) == Str(IF kind = "" THEN "Notebook" ELSE kind)

AsOwner(name, kind) ==
  Struct([apiVersion |-> Str("jupyter.squat.ai/v1"), kind |-> Typed(kind), name |-> Str(name),
          uid |-> Str("uid"), blockOwnerDeletion |-> Ptr(Bool(TRUE)),
          controller |-> Ptr(Bool(TRUE))])

Metadata(name, kind, annotations) ==
  Struct([name |-> Str(resourceName(name)), labels |-> Map(Labels(name)),
          annotations |-> annotations, ownerReferences |-> Array(<<AsOwner(name, kind)>>)])
-----------------------------------------------------------------------------
(* The Calculate functions, for the notebook with this name, kind and        *)
(* specification.                                                           *)

CalculateService(name, kind) ==
  Struct([metadata |-> Metadata(name, kind,
                         Map("service.alpha.kubernetes.io/tolerate-unready-endpoints" :> Str("true"))),
          spec |-> Struct([
            ports |-> Array(<<Struct([name |-> Str(PortName), port |-> Int(Port),
                                      protocol |-> Str("TCP")])>>),
            selector |-> Map(MatchLabels(name)),
            type |-> Str("ClusterIP")])])

\* Mutant: with acme, the certificate is left to the ingress.
OnlySelfSigned(s) == s.tls = SelfSigned

Certified(s) == ShouldHaveCerts(s)

\* Certificate and key are as good as their names; the authority and the host
\* that they are made for are in Controller.
CalculateSecret(name, kind, s) ==
  LET certs == IF Certified(s) THEN CertKey :> Str("certificate") @@ KeyKey :> Str("key")
               ELSE <<>>
      password == IF IsSet(s.password) THEN PasswordKey :> Str(s.password) ELSE <<>>
  IN Struct([metadata |-> Metadata(name, kind, Map(<<>>)), data |-> Map(certs @@ password)])

Word(package) == IF Len(package) = 1 THEN package[1] ELSE package[1] \o "=" \o package[2]

PostStart(s) ==
  LET command == <<Str("conda"), Str("install"), Str("-y")>>
                   \o [i \in DOMAIN s.packages |-> Str(Word(s.packages[i]))]
  IN Ptr(Struct([exec |-> Ptr(Struct([command |-> Array(command)]))]))

PasswordVariable(name) ==
  Struct([name |-> Str("PASSWORD"),
          valueFrom |-> Ptr(Struct([secretKeyRef |-> Ptr(Struct([
            inline |-> Struct([name |-> Str(resourceName(name))]),
            key |-> Str(PasswordKey)]))]))])

\* Mutant: the API server's default is good enough.
TerminationMessagePath == Zero

terminationMessagePath == Str("/dev/termination-log")

Image(flavor) == "jupyter/" \o flavor \o "-notebook:latest"

ContainerFields(name, s) ==
  [args |-> Array(<<Str("start-notebook.sh"), Str("--NotebookApp.token=")>>
     \o (IF IsSet(s.password) THEN <<Str("--NotebookApp.password=\"$(PASSWORD)\"")>> ELSE <<>>)
     \o (IF ShouldHaveCerts(s)
         THEN <<Str("--NotebookApp.certfile=" \o MountPath \o "/cert"),
                Str("--NotebookApp.keyfile=" \o MountPath \o "/key")>>
         ELSE <<>>)),
   image |-> Str(Image(s.flavor)),
   imagePullPolicy |-> Str("Always"),
   lifecycle |-> Given(s.packages # <<>>, Ptr(Struct([postStart |-> PostStart(s)]))),
   name |-> Str("notebook"),
   ports |-> Array(<<Struct([name |-> Str(PortName), containerPort |-> Int(Port),
                             protocol |-> Str("TCP")])>>),
   terminationMessagePath |-> terminationMessagePath,
   terminationMessagePolicy |-> Str("File"),
   env |-> Given(IsSet(s.password), Array(<<PasswordVariable(name)>>)),
   volumeMounts |-> Given(ShouldHaveCerts(s),
     Array(<<Struct([name |-> Str("tls"), readOnly |-> Bool(TRUE),
                     mountPath |-> Str(MountPath)])>>)),
   resources |-> IF s.gpu
     THEN Struct([limits |-> Map("nvidia.com/gpu" :> Quantity("1", "DecimalExponent"))])
     ELSE Empty]

NotebookContainer(name, s) == Struct(ContainerFields(name, s))

CertificateVolume(name) ==
  Struct([name |-> Str("tls"),
          inline |-> Struct([secret |-> Ptr(Struct([
            defaultMode |-> Ptr(Int("420")),
            items |-> Array(<<Struct([key |-> Str(CertKey), path |-> Str("cert")]),
                              Struct([key |-> Str(KeyKey), path |-> Str("key")])>>),
            secretName |-> Str(resourceName(name))]))])])

PodFields(name, s) ==
  [automountServiceAccountToken |-> Ptr(Bool(s.serviceAccountName # "")),
   containers |-> Array(<<NotebookContainer(name, s)>>),
   serviceAccount |-> Str(s.serviceAccountName),
   dnsPolicy |-> Str("ClusterFirst"),
   restartPolicy |-> Str("Always"),
   schedulerName |-> Str("default-scheduler"),
   securityContext |-> Ptr(Empty),
   serviceAccountName |-> Str(s.serviceAccountName),
   terminationGracePeriodSeconds |-> Ptr(Int("120")),
   tolerations |-> Given(s.gpu,
     Array(<<Struct([key |-> Str("nvidia.com/gpu"), effect |-> Str("NoSchedule"),
                     operator |-> Str("Exists")])>>)),
   volumes |-> Given(ShouldHaveCerts(s), Array(<<CertificateVolume(name)>>))]

PodTemplate(name, s) ==
  Struct([metadata |-> Struct([labels |-> Map(MatchLabels(name))]),
          spec |-> Struct(PodFields(name, s))])

CalculateStatefulSet(name, kind, s) ==
  Struct([metadata |-> Metadata(name, kind, Zero),
          spec |-> Struct([replicas |-> Ptr(Int("1")),
                           selector |-> Ptr(Struct([matchLabels |-> Map(MatchLabels(name))])),
                           serviceName |-> Str(resourceName(name)),
                           template |-> PodTemplate(name, s)])])

Backend(name, s) ==
  IF s.ingress = Nil THEN [serviceName |-> resourceName(name), servicePort |-> Port]
  ELSE s.ingress

CalculateIngress(name, kind, s) ==
  LET host == name \o "." \o s.host
      backend == Backend(name, s)
      acme == s.tls = Acme
      annotations ==
        ("kubernetes.io/ingress.class" :> Str("nginx"))
          @@ IF ~ShouldHaveCerts(s) THEN <<>>
             ELSE (IF acme THEN "kubernetes.io/tls-acme" :> Str("true")
                   ELSE "nginx.ingress.kubernetes.io/ssl-passthrough" :> Str("true"))
                  @@ ("nginx.ingress.kubernetes.io/backend-protocol" :> Str("HTTPS"))
                  @@ ("nginx.ingress.kubernetes.io/ssl-redirect" :> Str("true"))
      path == Struct([path |-> Str("/"),
                      backend |-> Struct([serviceName |-> Str(backend.serviceName),
                                          servicePort |-> Int(backend.servicePort)])])
      tls == Struct([hosts |-> Array(<<Str(host)>>),
                     secretName |-> Given(acme, Str(IngressTLSSecretName(name)))])
  IN Struct([metadata |-> Metadata(name, kind, Map(annotations)),
             spec |-> Struct([
               rules |-> Array(<<Struct([host |-> Str(host),
                                         inline |-> Struct([http |-> Ptr(Struct([
                                           paths |-> Array(<<path>>)]))])])>>),
               tls |-> Given(ShouldHaveCerts(s), Array(<<tls>>))])])
-----------------------------------------------------------------------------
(* The API server: a pod template as it is stored and read back *)

\* The field of an object, if it has it, as Op leaves it; every element.
At(v, field, Op(_)) == IF Has(v, field) THEN [v EXCEPT !.object[field] = Op(@)] ELSE v
Each(v, Op(_)) == [array |-> [i \in DOMAIN v.array |-> Op(v.array[i])]]

\* What an object lacks is given its default.
Default(v, defaults) == [object |-> v.object @@ defaults]

DefaultPort(port) == Default(port, [protocol |-> Str("TCP")])

DefaultContainer(container) ==
  At(Default(container, [imagePullPolicy |-> Str("Always"),
                         terminationMessagePath |-> Str("/dev/termination-log"),
                         terminationMessagePolicy |-> Str("File")]),
     "ports", LAMBDA ports : Each(ports, DefaultPort))

DefaultVolume(volume) ==
  LET WithMode(pointer) == Ptr(Default(pointer.ptr, [defaultMode |-> Ptr(Int("420"))]))
  IN At(volume, "inline", LAMBDA source : At(source, "secret", WithMode))

\* The deprecated serviceAccount is given the value of serviceAccountName.
DefaultPod(pod) ==
  LET account == IF Has(pod, "serviceAccountName")
                 THEN [serviceAccount |-> Field(pod, "serviceAccountName")] ELSE <<>>
      filled == Default(pod, [restartPolicy |-> Str("Always"), dnsPolicy |-> Str("ClusterFirst"),
                              schedulerName |-> Str("default-scheduler"),
                              securityContext |-> Ptr(Empty),
                              terminationGracePeriodSeconds |-> Ptr(Int("30"))] @@ account)
  IN At(At(filled, "containers", LAMBDA containers : Each(containers, DefaultContainer)),
        "volumes", LAMBDA volumes : Each(volumes, DefaultVolume))

\* Parsing a quantity that was formatted in any way gives DecimalSI.
ReadContainer(container) ==
  LET Parsed(limits) == Map([k \in DOMAIN limits.map |->
                              [limits.map[k] EXCEPT !.format = "DecimalSI"]])
  IN At(container, "resources", LAMBDA resources : At(resources, "limits", Parsed))

StoredTemplate(template) ==
  LET Read(pod) == At(pod, "containers", LAMBDA containers : Each(containers, ReadContainer))
  IN At(template, "spec", LAMBDA pod : Read(DefaultPod(pod)))
=============================================================================
